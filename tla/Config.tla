------------------------------- MODULE Config -------------------------------
(***************************************************************************)
(* What LoadConfig (internal/config/config.go) makes of the flags, the     *)
(* environment and the configuration file: the scalar keys that all three  *)
(* can set, and the three structured ones that only the file has. A text   *)
(* stands for all texts its reader treats alike. Operators only: Process   *)
(* loads its configuration with them.                                      *)
(***************************************************************************)
EXTENDS FiniteSets

Silent == "-"   \* the layer says nothing: flag not given, key absent or null
Err    == "error"

(* The keys of cliFlags and viperKeyMappings whose values anything depends *)
(* on; api_version, the topic and debug_config are passed on as they are,  *)
(* log_format and log_output are read as log_level is.                     *)
Keys == {"name", "resource_type", "base_url", "timeout", "poll_interval",
         "tracing_enabled", "log_level"}

(* NewSentinelConfig.                                                      *)
Default == [name |-> "hyperfleet-sentinel", resource_type |-> "", base_url |-> "",
            timeout |-> "10s", poll_interval |-> "5s", tracing_enabled |-> "true",
            log_level |-> "info"]

(* What users write, and what a flag's own parser lets through: the only   *)
(* typed one is --tracing-enabled, a Boolean.                              *)
Written == [name |-> {"", "s1"}, resource_type |-> {"", "clusters", "nodepools", "pods"},
            base_url |-> {"", "http://api"}, timeout |-> {"", "0s", "10s", "soon"},
            poll_interval |-> {"", "-5s", "0s", "5s", "soon"},
            tracing_enabled |-> {"", "true", "false", "maybe"},
            log_level |-> {"", "info", "debug", "loud"}]

FlagTexts(k) == IF k = "tracing_enabled" THEN {"true", "false"} ELSE Written[k]

Setting(k) == [flag : FlagTexts(k) \cup {Silent}, env : Written[k] \cup {Silent},
               file : Written[k] \cup {Silent}]

(* The rest of the file: is it there, does it have unknown fields, what    *)
(* are its message_decision and its message_data like.                     *)
Files == [state : {"good", "missing", "unknown_field"},
          decision : {"absent", "valid", "no_result", "empty_param", "twice"},
          data : {"absent", "valid", "blank_leaf"}]

-----------------------------------------------------------------------------
(* Fault: a variable that is set but empty masks the file.                 *)
MergeEmptyEnv(k, s) ==
  IF s.flag # Silent THEN s.flag
  ELSE IF s.env # Silent THEN s.env
  ELSE IF s.file # Silent THEN s.file
  ELSE Default[k]

(* viper's layers. A flag that was given counts even if empty, an empty    *)
(* variable does not, and what is left alone keeps its default, into which *)
(* the rest is unmarshalled.                                               *)
Merge(k, s) ==
  IF s.flag # Silent THEN s.flag
  ELSE IF s.env \notin {Silent, ""} THEN s.env
  ELSE IF s.file # Silent THEN s.file
  ELSE Default[k]

(* The decode hooks: a duration has to parse, an empty Boolean is false.   *)
Decode(k, text) ==
  CASE k \in {"timeout", "poll_interval"} -> IF text \in {"", "soon"} THEN Err ELSE text
    [] k = "tracing_enabled" -> IF text = "" THEN "false"
                                ELSE IF text \in {"true", "false"} THEN text ELSE Err
    [] OTHER -> text

Decoded(settings) == [k \in Keys |-> Decode(k, Merge(k, settings[k]))]

(* A message_decision is replaced by the default as a whole or not at all. *)
Decision(file) == IF file.decision = "absent" THEN "valid" ELSE file.decision

(* Fault: the poll interval is not looked at.                              *)
ValidateTexts(c, file) ==
  /\ c.name # "" /\ c.resource_type \in {"clusters", "nodepools"} /\ c.base_url # ""
  /\ Decision(file) = "valid" /\ file.data = "valid"

(* Validate of the configuration, of its message_decision and, over the    *)
(* raw and the unmarshalled map, of its message_data.                      *)
Validate(c, file) ==
  /\ c.name # "" /\ c.resource_type \in {"clusters", "nodepools"} /\ c.base_url # ""
  /\ c.poll_interval \notin {"-5s", "0s"}
  /\ Decision(file) = "valid" /\ file.data = "valid"

Loads(settings, file) ==
  LET c == Decoded(settings)
  IN /\ file.state = "good"
     /\ \A k \in Keys : c[k] # Err
     /\ Validate(c, file)

(* initLogging: an empty level leaves the logger's default.                *)
LogLevels == {"", "debug", "info"}
=============================================================================
