------------------------------- MODULE Levels -------------------------------
(***************************************************************************)
(* Capture levels of the log (log/Log.cpp, LevelResolver.h,                *)
(* RemoteLogConfig.cpp): three origins that can change, a later one        *)
(* overriding an earlier one, the sinks and what each shows, the level that *)
(* ESP-IDF is told for each tag and for all others, and the file from which *)
(* the remote origin comes back after a restart, if it was stored, and is  *)
(* short enough to be read.                                                *)
(***************************************************************************)
EXTENDS Integers, Sequences, FiniteSetsExt

CONSTANTS
  Tags,
  LevelValues,  \* Error is 0, Trace is 4
  Unset,
  Info,         \* the level a sink starts with
  Capture,      \* LogConfig::capture, the code's default
  CodeLevels,   \* LogConfig::tags: Unset for a tag that is not in it
  Configs,      \* the configurations the server may send; fits: in 511 bytes
  NoConfig,     \* none, and the half of one that a power cut leaves
  Torn,
  MaxNow        \* bound: the clock

ASSUME LevelsAssumption ==
  /\ LevelValues \subseteq Nat
  /\ Unset \notin LevelValues
  /\ {Info, Capture} \subseteq LevelValues
  /\ CodeLevels \in [Tags -> LevelValues \cup {Unset}]
  /\ \A c \in Configs : /\ c.default \in LevelValues \cup {Unset}
                        /\ c.tags \in [Tags -> LevelValues \cup {Unset}]
                        /\ c.ttlSec \in Nat
                        /\ c.fits \in BOOLEAN
  /\ NoConfig \notin Configs /\ Torn \notin Configs
  /\ MaxNow \in Nat

VARIABLES
  now,
  code,    \* setLevel() without a time to live; LogConfig
  remote,  \* remoteDefault_ and remoteTags_
  ttl,     \* ttlDefault_ and ttlTags_
  sinks,   \* g_sinks, and what LogTask was told of them
  esp,     \* what esp_log_level_set() was told for each tag; Unset: never anything
  ceiling, \* and for "*"
  file,    \* /journal/log_config.json
  unstored \* history: storing the remote origin in effect failed

origins == <<code, remote, ttl>>
storage == <<file, unstored>>
levelVars == <<now, origins, sinks, esp, ceiling, storage>>

SinkNames == {"console", "flash", "sd"}

Tier == [default : LevelValues \cup {Unset}, tags : [Tags -> LevelValues \cup {Unset}]]
NoTier == [default |-> Unset, tags |-> [t \in Tags |-> Unset]]
Entries == [level : LevelValues \cup {Unset}, until : Nat]
Ttls == [default : Entries, tags : [Tags -> Entries]]
Lapsed == [level |-> Unset, until |-> 0]
NoTtl == [default |-> Lapsed, tags |-> [t \in Tags |-> Lapsed]]

(* effectiveLevel(): the first origin that says something about the tag. *)
Effective(t, at, c, r, x) ==
  LET valid(entry) == IF entry.until > at THEN entry.level ELSE Unset
      asked == <<valid(x.tags[t]), valid(x.default), r.tags[t], c[t], r.default, Capture>>
  IN asked[Min({i \in DOMAIN asked : asked[i] # Unset})]

(* recomputeEspLogLevels(), for the tags of g_tagOverrides: those told     *)
(* before, and those named now.                                            *)
Recomputed(named, c, r, x) ==
  [t \in Tags |-> IF esp[t] # Unset \/ t \in named THEN Effective(t, now, c, r, x) ELSE Unset]

(* ... and for all others: the most detailed of what is captured and what  *)
(* a sink shows.                                                           *)
Ceiling(s) == Max({Capture} \cup {s[k].level : k \in {x \in SinkNames : s[x].enabled}})

Named(tags) == {t \in Tags : tags[t] # Unset}
TierOf(config) == [default |-> config.default, tags |-> config.tags]

(* loadPersistedRemoteConfig() reads 511 bytes and no more.  Half a        *)
(* configuration does not parse, whether half of it was written or read.   *)
Loaded(f) == IF f \in Configs /\ f.fits THEN TierOf(f) ELSE NoTier

(* g_sinks, when init() has raised the level of the flash. *)
SinksAtBoot ==
  [k \in SinkNames |-> [enabled |-> k # "sd", level |-> IF k = "flash" THEN Max({Info, Capture}) ELSE Info]]

(* init() and loadPersistedRemoteConfig(), at power-on with file f. *)
LevelsAtBoot(f) ==
  /\ code' = CodeLevels
  /\ remote' = Loaded(f)
  /\ ttl' = NoTtl
  /\ sinks' = SinksAtBoot /\ ceiling' = Ceiling(SinksAtBoot)
  /\ esp' = [t \in Tags |-> IF t \in Named(CodeLevels) \cup Named(Loaded(f).tags)
                            THEN Effective(t, 0, CodeLevels, Loaded(f), NoTtl) ELSE Unset]
  /\ now' = 0
  /\ unstored' = FALSE

\* Mutant: what an earlier configuration said of other tags is not cleared.
ApplyParsedOver(config) ==
  LET r == [default |-> IF config.default # Unset THEN config.default ELSE remote.default,
            tags |-> [t \in Tags |-> IF config.tags[t] # Unset THEN config.tags[t] ELSE remote.tags[t]]]
  IN /\ remote' = r
     /\ esp' = Recomputed(Named(config.tags), code, r, ttl)
     /\ UNCHANGED ttl

(* applyParsedConfig(): it replaces the whole remote origin. *)
ApplyParsed(config) ==
  /\ remote' = TierOf(config)
  /\ esp' = Recomputed(Named(config.tags), code, TierOf(config), ttl)
  /\ UNCHANGED ttl

(* The other branch of applyRemoteConfig(): beside the remote origin, and  *)
(* only what it names.                                                     *)
ApplyTemporary(config) ==
  LET until == now + config.ttlSec
      entry(level, old) == IF level # Unset THEN [level |-> level, until |-> until] ELSE old
      x == [default |-> entry(config.default, ttl.default),
            tags |-> [t \in Tags |-> entry(config.tags[t], ttl.tags[t])]]
  IN /\ ttl' = x
     /\ esp' = Recomputed(Named(config.tags), code, remote, x)
     /\ UNCHANGED remote

(* setLevel(), which the application calls (external). *)
SetLevel(t, level, ttlSec) ==
  LET c == [code EXCEPT ![t] = level]
      x == [ttl EXCEPT !.tags[t] = [level |-> level, until |-> now + ttlSec]]
  IN /\ IF ttlSec = 0 THEN code' = c /\ UNCHANGED ttl ELSE ttl' = x /\ UNCHANGED code
     /\ esp' = Recomputed({t}, code', remote, ttl')
     /\ UNCHANGED <<now, remote, sinks, ceiling, storage>>

(* SinkHandle::off(), level() and detail(), and only(); external: the      *)
(* application.  Detail itself is stored and not used.                     *)
SetSinks(s) ==
  /\ sinks' = s
  /\ ceiling' = Ceiling(s)
  /\ esp' = Recomputed({}, code, remote, ttl)
  /\ UNCHANGED <<now, origins, storage>>

SinkOff(k) == SetSinks([sinks EXCEPT ![k].enabled = FALSE])
SinkLevel(k, level) == SetSinks([sinks EXCEPT ![k] = [enabled |-> TRUE, level |-> level]])
SinkDetail(k) == SetSinks([sinks EXCEPT ![k].enabled = TRUE])
Only(k, level) ==
  SetSinks([x \in SinkNames |-> [enabled |-> x = k, level |-> IF x = k THEN level ELSE sinks[x].level]])

(* persistRemoteConfig(): fopen() empties the file, or fails and leaves it  *)
(* as it was; how much of the configuration is written nobody looks at.    *)
OpenFile(opens) ==
  /\ file' = IF opens THEN Torn ELSE file
  /\ unstored' = (~opens \/ unstored)
  /\ UNCHANGED <<now, origins, sinks, esp, ceiling>>

WriteFile(config, whole) ==
  /\ file' = IF whole THEN config ELSE Torn
  /\ unstored' = ~whole
  /\ UNCHANGED <<now, origins, sinks, esp, ceiling>>

(* Time counts only while something is to lapse. *)
Tick == ttl # NoTtl /\ now < MaxNow /\ now' = now + 1 /\ UNCHANGED <<origins, sinks, esp, ceiling, storage>>

LevelsInit ==
  /\ now = 0
  /\ code = CodeLevels
  /\ remote = NoTier /\ ttl = NoTtl
  /\ esp = [t \in Tags |-> IF CodeLevels[t] # Unset THEN CodeLevels[t] ELSE Unset]
  /\ sinks = SinksAtBoot /\ ceiling = Ceiling(SinksAtBoot)
  /\ file = NoConfig /\ unstored = FALSE

LevelsTypeOK ==
  /\ now \in 0 .. MaxNow
  /\ code \in [Tags -> LevelValues \cup {Unset}]
  /\ remote \in Tier
  /\ ttl \in Ttls
  /\ sinks \in [SinkNames -> [enabled : BOOLEAN, level : LevelValues]]
  /\ ceiling \in LevelValues
  /\ esp \in [Tags -> LevelValues \cup {Unset}]
  /\ file \in {NoConfig, Torn} \cup Configs
  /\ unstored \in BOOLEAN

\* The levels are well typed, each is what the origins said at one and the same time, and
\* the ceiling is that of the sinks as they are.
LevelsInOrder ==
  /\ LevelsTypeOK
  /\ \E at \in 0 .. now : \A t \in Tags :
       esp[t] # Unset => esp[t] = Effective(t, at, code, remote, ttl)
  /\ ceiling = Ceiling(sinks)
=============================================================================
