---------------------------- MODULE ConfigManager ----------------------------
(***************************************************************************)
(* The configuration: config.Manager and its file (internal/config), the   *)
(* requests that read and change it (internal/api/server.go), and Load at  *)
(* process start.                                                          *)
(*                                                                         *)
(* A configuration is kept as what the code treats specially: the entries  *)
(* with a host, which Validate looks at, and a secret, which is masked and *)
(* restored; and the API key.  "servers" stands for the lists of servers   *)
(* (password), webhooks (URL) and RSS feeds (URL), which are masked and    *)
(* restored by the same loop; the texts that are in no list (directories,  *)
(* commands, header names) are loaded, edited and saved as a host is.      *)
(* Get is one critical section of Manager.mu, and so is Update with all it *)
(* calls.                                                                  *)
(***************************************************************************)
EXTENDS Integers, Sequences, SequencesExt

CONSTANTS
    Clients,     \* users with a settings page or a script
    Ids,         \* what a user means by an entry, whatever is in its fields
    Keys,        \* what GenerateAPIKey can return; each is returned once
    Plain,       \* other texts, without a dollar sign
    Dollar,      \* texts with one: references to the environment, or not
    Empty,       \* the empty text
    Masked,      \* redactedPlaceholder
    MaxServers,  \* bound: entries in a list
    None

ASSUME TextsDiffer ==
    /\ (Keys \cup Plain) \cap Dollar = {}
    /\ Empty \notin Keys \cup Plain \cup Dollar
    /\ Masked \notin Keys \cup Plain \cup Dollar \cup {Empty}
ASSUME MaxServersIsNat == MaxServers \in Nat

\* What people and the environment put into a field.  Nobody types the
\* placeholder: it means the text that it stands for.
Typed == Plain \cup Dollar \cup {Empty}
Text == Typed \cup Keys \cup {Masked}

\* id is not in the code.  conns = 0 is "connections" left out.
Server == [id : Ids, host : Text, secret : Text, conns : 0..1]
Config == [servers : Seq(Server), key : Text]

ASSUME NoneIsNoConfig == None \notin Config

-----------------------------------------------------------------------------
(* config.go, as functions of a configuration.                             *)

\* os.ExpandEnv goes over the whole file.  A text without a dollar sign stays
\* as it is; of one with, the environment of the process makes anything.
Environments == [Dollar -> Typed]

ExpandEnv(env, t) == IF t \in Dollar THEN env[t] ELSE t

Expanded(env, cfg) ==
    LET Expand(s) == [s EXCEPT !.host = ExpandEnv(env, @),
                               !.secret = ExpandEnv(env, @)]
    IN  [servers |-> [i \in DOMAIN cfg.servers |-> Expand(cfg.servers[i])],
         key |-> ExpandEnv(env, cfg.key)]

\* The other defaults concern fields that are not in the model.
ApplyDefaults(cfg) ==
    LET Default(s) == [s EXCEPT !.conns = 1]
    IN  [cfg EXCEPT !.servers = [i \in DOMAIN @ |-> Default(@[i])]]

HasDollar(cfg) ==
    \/ cfg.key \in Dollar
    \/ \E i \in DOMAIN cfg.servers :
          cfg.servers[i].host \in Dollar \/ cfg.servers[i].secret \in Dollar

\* What Load can make of a file: expanded, parsed and with its defaults, or
\* None, when what the environment has put in is not YAML any more.
Parsed(cfg) ==
    {ApplyDefaults(Expanded(env, cfg)) : env \in Environments}
        \cup IF HasDollar(cfg) THEN {None} ELSE {}

\* No server without a host; one without a port is refused in the same way.
Valid(cfg) == \A i \in DOMAIN cfg.servers : cfg.servers[i].host # Empty

\* An empty secret stays empty, so that the user sees that there is none.
Mask(t) == IF t = Empty THEN Empty ELSE Masked

Redacted(cfg) ==
    LET Redact(s) == [s EXCEPT !.secret = Mask(@)]
    IN  [cfg EXCEPT !.servers = [i \in DOMAIN @ |-> Redact(@[i])], !.key = Mask(@)]

\* Mutant of MergeRedacted: the last entry is left out.
MergeRedacted_ButLast(edited, original) ==
    LET Restore(i) ==
            IF edited.servers[i].secret = Masked /\ i < Len(original.servers)
            THEN [edited.servers[i] EXCEPT !.secret = original.servers[i].secret]
            ELSE edited.servers[i]
    IN  [servers |-> [i \in DOMAIN edited.servers |-> Restore(i)],
         key |-> IF edited.key = Masked THEN original.key ELSE edited.key]

\* Mutant of MergeRedacted: the key is left out.
MergeRedacted_NoKey(edited, original) ==
    [edited EXCEPT !.servers =
        [i \in DOMAIN @ |-> IF @[i].secret = Masked /\ i <= Len(original.servers)
                            THEN [@[i] EXCEPT !.secret = original.servers[i].secret]
                            ELSE @[i]]]

\* Placeholders are replaced by what the original has at the same position.
MergeRedacted(edited, original) ==
    LET Restore(i) ==
            IF edited.servers[i].secret = Masked /\ i <= Len(original.servers)
            THEN [edited.servers[i] EXCEPT !.secret = original.servers[i].secret]
            ELSE edited.servers[i]
    IN  [servers |-> [i \in DOMAIN edited.servers |-> Restore(i)],
         key |-> IF edited.key = Masked THEN original.key ELSE edited.key]

\* createDefault: one server to be edited, without a password.
DefaultFile(id, h) ==
    [servers |-> <<[id |-> id, host |-> h, secret |-> Empty, conns |-> 1]>>,
     key |-> Empty]

-----------------------------------------------------------------------------
VARIABLES
    current,   \* Manager.current, or None when no process runs
    file,      \* the file on disk, or None when there is none
    view,      \* the redacted configuration each client is editing, or None
    rolling,   \* handleRollAPIKey of a client: its copy with the new key
    used,      \* history variable: keys that have been generated
    unsaved,   \* history variable: the last Save failed
    given,     \* history variable: the secret last given for an entry, by an
               \* edit, or by the file or the copy that took the place of the
               \* rest; a placeholder gives nothing
    keyGiven,  \* history variable: the API key last given, in the same way
    shifted    \* history variable: an edit was applied in which a placeholder
               \* had another position than the entry it stood for

history == <<given, keyGiven>>
vars == <<current, file, view, rolling, used, unsaved, history, shifted>>

\* The live configuration is one that passed Validate and applyDefaults, from
\* whichever of Load, an edit or a key roll it comes.
TypeOK ==
    /\ current # None =>
          /\ current \in Config
          /\ Valid(current)
          /\ \A i \in DOMAIN current.servers : current.servers[i].conns = 1
    /\ file # None => file \in Config
    /\ \A c \in Clients : view[c] # None => view[c] \in Config
    /\ \A c \in Clients : rolling[c] # None => rolling[c] \in Config
    /\ used \subseteq Keys
    /\ unsaved \in BOOLEAN
    /\ given \in [Ids -> Text \cup {None}]
    /\ keyGiven \in Text \cup {None}
    /\ shifted \in BOOLEAN

\* The first start: no file, or one written by hand, with or without an API
\* key and references to the environment, and possibly not a valid one.
HandWritten ==
    LET lists == UNION {[1..n -> [id : Ids, host : Typed, secret : Typed, conns : {0}]] :
                          n \in 0..MaxServers}
    IN  {cfg \in [servers : lists, key : Typed] :
            \A i, k \in DOMAIN cfg.servers :
                cfg.servers[i].id = cfg.servers[k].id => i = k}

Init ==
    /\ current = None
    /\ file \in {None} \cup HandWritten
    /\ view = [c \in Clients |-> None]
    /\ rolling = [c \in Clients |-> None]
    /\ used = {}
    /\ unsaved = FALSE
    /\ given = [id \in Ids |-> None]
    /\ keyGiven = None
    /\ shifted = FALSE

Up == current # None

\* The history, after a configuration was put in place.
GivenBy(cfg) == [id \in Ids |->
    IF \E i \in DOMAIN cfg.servers : cfg.servers[i].id = id
    THEN LET i == CHOOSE i \in DOMAIN cfg.servers : cfg.servers[i].id = id
         IN  IF cfg.servers[i].secret = Masked THEN given[id]
             ELSE cfg.servers[i].secret
    ELSE None]

Give(cfg) ==
    /\ given' = GivenBy(cfg)
    /\ keyGiven' = IF cfg.key = Masked THEN keyGiven ELSE cfg.key

-----------------------------------------------------------------------------
(* Load and Save.                                                          *)

\* Mutant of Save: the file is written with what the client sent.
Save_AsSent(cfg, sent) == file' = sent /\ unsaved' = FALSE

\* The file is replaced by a rename, so it is the old or the new one; or it
\* cannot be written, which the caller of Save may or may not look at.
Save(cfg, sent) ==
    \/ file' = cfg /\ unsaved' = FALSE
    \/ file' = file /\ unsaved' = TRUE

\* Load of a file with an API key.  When it does not parse, or Validate refuses
\* it, the process does not come up and nothing has changed.
LoadFile ==
    /\ ~Up
    /\ file # None
    /\ \E cfg \in Parsed(file) \ {None} :
          /\ cfg.key # Empty
          /\ Valid(cfg)
          /\ current' = cfg
          /\ Give(cfg)
    /\ unsaved' = FALSE
    /\ UNCHANGED <<file, view, rolling, used, shifted>>

\* Load of a file whose key is left out, or a reference that expands to nothing:
\* one is generated and saved with the rest, as it was expanded, before Validate
\* looks at it and may refuse it.
LoadWithoutKey ==
    /\ ~Up
    /\ file # None
    /\ \E read \in Parsed(file) \ {None}, k \in Keys \ used :
          LET cfg == [read EXCEPT !.key = k] IN
          /\ read.key = Empty
          /\ used' = used \cup {k}
          /\ Save(cfg, cfg)
          /\ current' = IF Valid(cfg) THEN cfg ELSE None
          /\ Give(cfg)
    /\ UNCHANGED <<view, rolling, shifted>>

\* Load without a file creates one.
CreateDefault ==
    /\ ~Up
    /\ file = None
    /\ \E id \in Ids, h \in Plain : file' = DefaultFile(id, h)
    /\ UNCHANGED <<current, view, rolling, used, unsaved, history, shifted>>

\* Requests in flight are lost with the process; an open settings page is not.
Die ==
    /\ Up
    /\ current' = None
    /\ rolling' = [c \in Clients |-> None]
    /\ given' = [id \in Ids |-> None]
    /\ keyGiven' = None
    /\ UNCHANGED <<file, view, used, unsaved, shifted>>

-----------------------------------------------------------------------------
(* Manager.Update and the requests.                                        *)

\* Mutant of Update: the file is written before validation.
Update_SaveFirst(edited) ==
    LET cfg == ApplyDefaults(MergeRedacted(edited, current)) IN
    /\ Save(cfg, edited)
    /\ current' = IF Valid(cfg) THEN cfg ELSE current

\* Mutant of Update: nothing is validated.
Update_Unchecked(edited) ==
    LET cfg == ApplyDefaults(MergeRedacted(edited, current)) IN
    Save(cfg, edited) /\ current' = cfg

\* Merge, defaults, validation, save, swap.  A configuration that could not
\* be saved is live all the same.
Update(edited) ==
    LET cfg == ApplyDefaults(MergeRedacted(edited, current)) IN
    IF Valid(cfg)
    THEN Save(cfg, edited) /\ current' = cfg
    ELSE UNCHANGED <<current, file, unsaved>>

\* handleGetConfig.
GetConfig(c) ==
    /\ Up
    /\ view[c] = None
    /\ view' = [view EXCEPT ![c] = Redacted(current)]
    /\ UNCHANGED <<current, file, rolling, used, unsaved, history, shifted>>

\* What a client makes of it, one change at a time: an entry removed or added,
\* the host or the secret of one typed again, any API key that it may know.
Removed(cfg, i) == [cfg EXCEPT !.servers = RemoveAt(@, i)]
Added(cfg, s) == [cfg EXCEPT !.servers = Append(@, s)]
Rehosted(cfg, i, t) == [cfg EXCEPT !.servers[i].host = t]
Retyped(cfg, i, t) == [cfg EXCEPT !.servers[i].secret = t]

\* An entry that is not in the list, if there is room for it.
NewEntries(cfg) ==
    IF Len(cfg.servers) < MaxServers
    THEN [id : {id \in Ids : \A i \in DOMAIN cfg.servers : cfg.servers[i].id # id},
          host : Typed, secret : Typed, conns : {0}]
    ELSE {}

Edits(cfg) ==
    LET entries == DOMAIN cfg.servers
    IN  {cfg}
        \cup {[cfg EXCEPT !.key = k] : k \in Typed \cup used}
        \cup {Removed(cfg, i) : i \in entries}
        \cup {Added(cfg, s) : s \in NewEntries(cfg)}
        \cup {Rehosted(cfg, i, t) : i \in entries, t \in Typed}
        \cup {Retyped(cfg, i, t) : i \in entries, t \in Typed}

\* Every placeholder is where the entry it stands for is now.
LinesUp(edited) ==
    \A i \in DOMAIN edited.servers :
        edited.servers[i].secret = Masked =>
            /\ i <= Len(current.servers)
            /\ current.servers[i].id = edited.servers[i].id

\* handleUpdateConfig.  When it is refused, the page stays open.
PutConfig(c) ==
    /\ Up
    /\ view[c] # None
    /\ \E edited \in Edits(view[c]) :
          /\ Update(edited)
          /\ IF Valid(edited)
             THEN /\ Give(edited)
                  /\ shifted' = (shifted \/ ~LinesUp(edited))
                  /\ view' = [view EXCEPT ![c] = None]
             ELSE UNCHANGED <<history, shifted, view>>
    /\ UNCHANGED <<rolling, used>>

\* handleRollAPIKey: Get, a copy of the struct with a new key, Update.
RollBegins(c) ==
    /\ Up
    /\ rolling[c] = None
    /\ \E k \in Keys \ used :
          /\ used' = used \cup {k}
          /\ rolling' = [rolling EXCEPT ![c] = [current EXCEPT !.key = k]]
    /\ UNCHANGED <<current, file, view, unsaved, history, shifted>>

RollEnds(c) ==
    /\ Up
    /\ rolling[c] # None
    /\ Update(rolling[c])
    /\ rolling' = [rolling EXCEPT ![c] = None]
    /\ Give(rolling[c])
    /\ UNCHANGED <<view, used, shifted>>

Next ==
    \/ LoadFile \/ LoadWithoutKey \/ CreateDefault \/ Die
    \/ \E c \in Clients :
          GetConfig(c) \/ PutConfig(c) \/ RollBegins(c) \/ RollEnds(c)

Spec == Init /\ [][Next]_vars

-----------------------------------------------------------------------------
(* Properties.                                                             *)

OwnSecrets ==
    \A i \in DOMAIN current.servers :
        current.servers[i].secret = given[current.servers[i].id]

\* As long as every edit has its placeholders where the entries are, each entry
\* has its own secret: whatever stale pages, new hosts, key rolls, failed saves
\* and restarts there are, no placeholder becomes a password.
PlaceholdersGetTheirSecret == Up /\ ~shifted => OwnSecrets

\* A start that succeeds finds the live configuration again, unless it could
\* not be saved: merged, with its key, its hosts and its secrets.  The texts
\* that have a dollar sign in the file are the exception, since Load expands
\* whatever Save has written.
Kept(written, live, read) == written \notin Dollar => read = live

RestartKeepsConfig ==
    Up /\ ~unsaved =>
        \A next \in Parsed(file) \ {None} :
            /\ current.key # Empty => Kept(file.key, current.key, next.key)
            /\ Len(next.servers) = Len(current.servers)
            /\ \A i \in DOMAIN current.servers :
                  LET written == file.servers[i]
                      live    == current.servers[i]
                      read    == next.servers[i]
                  IN  /\ Kept(written.host, live.host, read.host)
                      /\ Kept(written.secret, live.secret, read.secret)
                      /\ read.conns = live.conns

\* A process that runs can be started again, unless a text in its file has a
\* dollar sign: nothing else that it saves, and no edit it refuses, leaves a
\* file that Load refuses.
SavedConfigLoads ==
    Up => /\ file # None
          /\ ~HasDollar(file) => \A next \in Parsed(file) : next # None /\ Valid(next)

\* The key is the one that was given last, by the file, by a roll or by a
\* request that itself carries one: an edit made on a page that was opened
\* before a roll does not bring the old key back, because the placeholder is
\* resolved when the edit is applied.
KeyIsLastGiven == Up => current.key = keyGiven

-----------------------------------------------------------------------------
(* What a comment says and the code does not keep.                         *)

\* config.go: MergeRedacted "restores real secret values from the original
\* where placeholders appear".
SecretsKeepTheirOwner == Up => OwnSecrets

=============================================================================
