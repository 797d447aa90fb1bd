------------------------ MODULE ConfigManagerProofs ------------------------
(***************************************************************************)
(* Proofs about ConfigManager: that what is saved can be loaded and is     *)
(* what was live, but for texts with a dollar sign, that the key is the    *)
(* one that was given last, and that a placeholder becomes the secret of   *)
(* its own entry, for any number of entries, texts, clients and restarts.  *)
(***************************************************************************)
EXTENDS ConfigManager, SequenceTheorems, TLAPS

-----------------------------------------------------------------------------
(* The functions of a configuration, entry by entry.                       *)

\* Two configurations have entries for the same things, in the same order.
SameIds(d, cfg) ==
    /\ DOMAIN d.servers = DOMAIN cfg.servers
    /\ Len(d.servers) = Len(cfg.servers)
    /\ \A i \in DOMAIN cfg.servers : d.servers[i].id = cfg.servers[i].id

SameHosts(d, cfg) == \A i \in DOMAIN cfg.servers : d.servers[i].host = cfg.servers[i].host

\* No two entries are for the same thing.
OwnIds(cfg) ==
    \A i, j \in DOMAIN cfg.servers : cfg.servers[i].id = cfg.servers[j].id => i = j

LEMMA ConfigIs ==
    ASSUME NEW cfg \in Config
    PROVE  /\ cfg.servers \in Seq(Server) /\ cfg.key \in Text
           /\ DOMAIN cfg.servers = 1..Len(cfg.servers) /\ Len(cfg.servers) \in Nat
           /\ \A i \in DOMAIN cfg.servers :
                 /\ cfg.servers[i] \in Server
                 /\ cfg.servers[i].id \in Ids
                 /\ cfg.servers[i].host \in Text
                 /\ cfg.servers[i].secret \in Text
                 /\ cfg.servers[i].conns \in 0..1
<1>1. cfg.servers \in Seq(Server) /\ cfg.key \in Text
  BY DEF Config
<1>2. DOMAIN cfg.servers = 1..Len(cfg.servers) /\ Len(cfg.servers) \in Nat
  BY <1>1
<1>3. \A i \in DOMAIN cfg.servers : cfg.servers[i] \in Server
  BY <1>1
<1>. QED
  BY <1>1, <1>2, <1>3 DEF Server

\* A configuration made from another, entry by entry.
LEMMA EntryByEntry ==
    ASSUME NEW cfg \in Config, NEW d, NEW key \in Text,
           NEW f \in [DOMAIN cfg.servers -> Server],
           d = [servers |-> f, key |-> key],
           \A i \in DOMAIN cfg.servers : f[i].id = cfg.servers[i].id
    PROVE  d \in Config /\ SameIds(d, cfg) /\ d.servers = f /\ d.key = key
<1>1. DOMAIN cfg.servers = 1..Len(cfg.servers) /\ Len(cfg.servers) \in Nat
  BY ConfigIs
<1>2. f \in Seq(Server) /\ Len(f) = Len(cfg.servers)
  BY <1>1
<1>3. d.servers = f /\ d.key = key
  OBVIOUS
<1>. QED
  BY <1>2, <1>3 DEF Config, SameIds

LEMMA SameIdsKeep ==
    ASSUME NEW cfg, NEW d, SameIds(d, cfg)
    PROVE  /\ OwnIds(cfg) => OwnIds(d)
           /\ SameHosts(d, cfg) => (Valid(d) <=> Valid(cfg))
BY DEF SameIds, SameHosts, Valid, OwnIds

\* What the environment makes of a text is a text, and no placeholder.
LEMMA ExpandEnvIs ==
    ASSUME NEW env \in Environments, NEW t \in Text
    PROVE  /\ ExpandEnv(env, t) \in Text
           /\ t # Masked => ExpandEnv(env, t) # Masked
           /\ t \notin Dollar => ExpandEnv(env, t) = t
<1>1. t \in Dollar => env[t] \in Typed
  BY DEF Environments
<1>2. Masked \notin Typed
  BY TextsDiffer DEF Typed
<1>. QED
  BY <1>1, <1>2 DEF ExpandEnv, Text

LEMMA ExpandedIs ==
    ASSUME NEW env \in Environments, NEW cfg \in Config
    PROVE  /\ Expanded(env, cfg) \in Config
           /\ SameIds(Expanded(env, cfg), cfg)
           /\ Expanded(env, cfg).key = ExpandEnv(env, cfg.key)
           /\ \A i \in DOMAIN cfg.servers :
                 /\ Expanded(env, cfg).servers[i].host = ExpandEnv(env, cfg.servers[i].host)
                 /\ Expanded(env, cfg).servers[i].secret = ExpandEnv(env, cfg.servers[i].secret)
<1>. DEFINE f == [i \in DOMAIN cfg.servers |->
                    [cfg.servers[i] EXCEPT !.host = ExpandEnv(env, @),
                                           !.secret = ExpandEnv(env, @)]]
            key == ExpandEnv(env, cfg.key)
<1>1. Expanded(env, cfg) = [servers |-> f, key |-> key]
  BY Zenon DEF Expanded
<1>2. ASSUME NEW i \in DOMAIN cfg.servers
      PROVE  /\ f[i] \in Server
             /\ f[i].id = cfg.servers[i].id
             /\ f[i].host = ExpandEnv(env, cfg.servers[i].host)
             /\ f[i].secret = ExpandEnv(env, cfg.servers[i].secret)
  <2>1. cfg.servers[i] \in Server
    BY ConfigIs
  <2>2. /\ ExpandEnv(env, cfg.servers[i].host) \in Text
        /\ ExpandEnv(env, cfg.servers[i].secret) \in Text
    BY ConfigIs, ExpandEnvIs
  <2>. QED
    BY <2>1, <2>2 DEF Server
<1>3. f \in [DOMAIN cfg.servers -> Server]
  BY <1>2
<1>4. key \in Text
  BY ConfigIs, ExpandEnvIs
<1>. HIDE DEF f, key
<1>5. /\ Expanded(env, cfg) \in Config /\ SameIds(Expanded(env, cfg), cfg)
      /\ Expanded(env, cfg).servers = f /\ Expanded(env, cfg).key = key
  BY <1>1, <1>2, <1>3, <1>4, EntryByEntry
<1>. QED
  BY <1>2, <1>5 DEF key

LEMMA DefaultsIs ==
    ASSUME NEW cfg \in Config
    PROVE  /\ ApplyDefaults(cfg) \in Config
           /\ SameIds(ApplyDefaults(cfg), cfg) /\ SameHosts(ApplyDefaults(cfg), cfg)
           /\ ApplyDefaults(cfg).key = cfg.key
           /\ \A i \in DOMAIN cfg.servers :
                 /\ ApplyDefaults(cfg).servers[i].secret = cfg.servers[i].secret
                 /\ ApplyDefaults(cfg).servers[i].conns = 1
<1>. DEFINE f == [i \in DOMAIN cfg.servers |-> [cfg.servers[i] EXCEPT !.conns = 1]]
<1>1. ApplyDefaults(cfg) = [servers |-> f, key |-> cfg.key]
  <2>1. ApplyDefaults(cfg) = [cfg EXCEPT !.servers = f]
    BY Zenon DEF ApplyDefaults
  <2>. HIDE DEF f
  <2>. QED
    BY <2>1 DEF Config
<1>2. ASSUME NEW i \in DOMAIN cfg.servers
      PROVE  /\ f[i] \in Server
             /\ f[i].id = cfg.servers[i].id
             /\ f[i].host = cfg.servers[i].host
             /\ f[i].secret = cfg.servers[i].secret
             /\ f[i].conns = 1
  <2>1. cfg.servers[i] \in Server
    BY ConfigIs
  <2>2. f[i] = [cfg.servers[i] EXCEPT !.conns = 1]
    OBVIOUS
  <2>. HIDE DEF f
  <2>. QED
    BY <2>1, <2>2 DEF Server
<1>3. f \in [DOMAIN cfg.servers -> Server]
  BY <1>2
<1>. HIDE DEF f
<1>4. /\ ApplyDefaults(cfg) \in Config /\ SameIds(ApplyDefaults(cfg), cfg)
      /\ ApplyDefaults(cfg).servers = f /\ ApplyDefaults(cfg).key = cfg.key
  BY <1>1, <1>2, <1>3, EntryByEntry, ConfigIs
<1>. QED
  BY <1>2, <1>4 DEF SameHosts

LEMMA RedactedIs ==
    ASSUME NEW cfg \in Config
    PROVE  Redacted(cfg) \in Config /\ SameIds(Redacted(cfg), cfg)
<1>. DEFINE f == [i \in DOMAIN cfg.servers |-> [cfg.servers[i] EXCEPT !.secret = Mask(@)]]
            key == Mask(cfg.key)
<1>1. Redacted(cfg) = [servers |-> f, key |-> key]
  <2>1. Redacted(cfg) = [cfg EXCEPT !.servers = f, !.key = Mask(@)]
    BY Zenon DEF Redacted
  <2>. HIDE DEF f
  <2>. QED
    BY <2>1 DEF Config
<1>2. \A t : Mask(t) \in Text
  BY DEF Mask, Text, Typed
<1>3. ASSUME NEW i \in DOMAIN cfg.servers
      PROVE  f[i] \in Server /\ f[i].id = cfg.servers[i].id
  BY <1>2, ConfigIs DEF Server
<1>4. f \in [DOMAIN cfg.servers -> Server]
  BY <1>3
<1>5. key \in Text
  BY <1>2
<1>. HIDE DEF f, key
<1>. QED
  BY <1>1, <1>3, <1>4, <1>5, EntryByEntry

LEMMA MergeIs ==
    ASSUME NEW edited \in Config, NEW original \in Config
    PROVE  LET merged == MergeRedacted(edited, original) IN
           /\ merged \in Config
           /\ SameIds(merged, edited) /\ SameHosts(merged, edited)
           /\ merged.key = IF edited.key = Masked THEN original.key ELSE edited.key
           /\ \A i \in DOMAIN edited.servers :
                 merged.servers[i].secret =
                     IF edited.servers[i].secret = Masked /\ i <= Len(original.servers)
                     THEN original.servers[i].secret ELSE edited.servers[i].secret
<1>. DEFINE merged == MergeRedacted(edited, original)
            f == [i \in DOMAIN edited.servers |->
                    IF edited.servers[i].secret = Masked /\ i <= Len(original.servers)
                    THEN [edited.servers[i] EXCEPT !.secret = original.servers[i].secret]
                    ELSE edited.servers[i]]
            key == IF edited.key = Masked THEN original.key ELSE edited.key
<1>1. merged = [servers |-> f, key |-> key]
  BY DEF MergeRedacted
<1>2. ASSUME NEW i \in DOMAIN edited.servers
      PROVE  /\ f[i] \in Server
             /\ f[i].id = edited.servers[i].id
             /\ f[i].host = edited.servers[i].host
             /\ f[i].secret =
                   IF edited.servers[i].secret = Masked /\ i <= Len(original.servers)
                   THEN original.servers[i].secret ELSE edited.servers[i].secret
  <2>1. edited.servers[i] \in Server /\ i \in Nat \ {0}
    BY ConfigIs
  <2>2. i <= Len(original.servers) => original.servers[i].secret \in Text
    BY <2>1, ConfigIs
  <2>. QED
    BY <2>1, <2>2 DEF Server
<1>3. f \in [DOMAIN edited.servers -> Server]
  BY <1>2
<1>4. key \in Text
  BY ConfigIs
<1>. HIDE DEF f, key, merged
<1>5. /\ merged \in Config /\ SameIds(merged, edited)
      /\ merged.servers = f /\ merged.key = key
  BY <1>1, <1>2, <1>3, <1>4, EntryByEntry
<1>. QED
  BY <1>2, <1>5 DEF key, merged, SameHosts

-----------------------------------------------------------------------------
(* The inductive invariant.                                                *)

NoPlaceholder(cfg) ==
    \A i \in DOMAIN cfg.servers : cfg.servers[i].secret # Masked

Defaulted(cfg) == \A i \in DOMAIN cfg.servers : cfg.servers[i].conns = 1

\* What is live, or was and may be again.
Live(cfg) ==
    /\ cfg \in Config /\ OwnIds(cfg) /\ cfg.key # Masked
    /\ Valid(cfg) /\ Defaulted(cfg)

\* The file says what the configuration says, where it has no dollar sign.
Says(written, live) == written \notin Dollar => written = live

Written(f, cfg) ==
    /\ Len(f.servers) = Len(cfg.servers)
    /\ Says(f.key, cfg.key)
    /\ \A i \in DOMAIN cfg.servers :
          /\ Says(f.servers[i].host, cfg.servers[i].host)
          /\ Says(f.servers[i].secret, cfg.servers[i].secret)

BooksOK ==
    /\ used \subseteq Keys /\ unsaved \in BOOLEAN /\ shifted \in BOOLEAN
    /\ given \in [Ids -> Text \cup {None}] /\ keyGiven \in Text \cup {None}

\* The live configuration and the file: the file is what was saved, or what was
\* loaded, unless the last Save failed.
CurrentInv ==
    Up =>
        /\ Live(current)
        /\ current.key = keyGiven
        /\ file # None
        /\ ~HasDollar(file) => Valid(file)
        /\ ~unsaved => Written(file, current)

FileInv == file # None => file \in Config /\ OwnIds(file) /\ file.key # Masked

ViewInv == \A c \in Clients : view[c] # None => view[c] \in Config /\ OwnIds(view[c])

\* A copy with a new key is a configuration that was live.
RollInv == \A c \in Clients : rolling[c] # None => Live(rolling[c])

\* Until an edit shifts one, no placeholder is anywhere but in a view: a key
\* roll or a restart must not bring one back.
SecretInv ==
    ~shifted =>
        /\ Up => NoPlaceholder(current) /\ OwnSecrets
        /\ file # None => NoPlaceholder(file)
        /\ \A c \in Clients : rolling[c] # None => NoPlaceholder(rolling[c])

\* view and rolling are functions of the clients.
ClientsOK == DOMAIN view = Clients /\ DOMAIN rolling = Clients

IndInv ==
    /\ BooksOK /\ ClientsOK
    /\ CurrentInv /\ FileInv /\ ViewInv /\ RollInv /\ SecretInv

LEMMA RemoveAtIs ==
    ASSUME NEW S, NEW s \in Seq(S), NEW i \in 1..Len(s)
    PROVE  /\ RemoveAt(s, i) \in Seq(S)
           /\ Len(RemoveAt(s, i)) = Len(s) - 1
           /\ \A k \in 1..Len(s) - 1 :
                 RemoveAt(s, i)[k] = IF k < i THEN s[k] ELSE s[k + 1]
<1>. DEFINE front == SubSeq(s, 1, i - 1)
            back == SubSeq(s, i + 1, Len(s))
<1>1. front \in Seq(S) /\ Len(front) = i - 1 /\ \A k \in 1..i - 1 : front[k] = s[k]
  OBVIOUS
<1>2. /\ back \in Seq(S) /\ Len(back) = Len(s) - i
      /\ \A k \in 1..Len(s) - i : back[k] = s[k + i]
  OBVIOUS
<1>3. RemoveAt(s, i) = front \o back
  BY DEF RemoveAt
<1>. HIDE DEF front, back
<1>4. /\ front \o back \in Seq(S)
      /\ Len(front \o back) = Len(front) + Len(back)
      /\ \A k \in 1..Len(front) + Len(back) : (front \o back)[k] =
            IF k <= Len(front) THEN front[k] ELSE back[k - Len(front)]
  BY <1>1, <1>2, ConcatProperties
<1>5. Len(front) + Len(back) = Len(s) - 1
  BY <1>1, <1>2
<1>6. ASSUME NEW k \in 1..Len(s) - 1
      PROVE  (front \o back)[k] = IF k < i THEN s[k] ELSE s[k + 1]
  <2>1. (front \o back)[k] = IF k <= i - 1 THEN front[k] ELSE back[k - (i - 1)]
    BY <1>1, <1>4, <1>5
  <2>2. CASE k < i
    BY <1>1, <2>1, <2>2
  <2>3. CASE k >= i
    <3>1. k - (i - 1) \in 1..Len(s) - i /\ (k - (i - 1)) + i = k + 1
      BY <2>3
    <3>. QED
      BY <1>2, <2>1, <2>3, <3>1
  <2>4. k < i \/ k >= i
    OBVIOUS
  <2>. QED
    BY <2>2, <2>3, <2>4
<1>. QED
  BY <1>3, <1>4, <1>5, <1>6

\* What a client sends is a configuration, and gives nothing a second entry.
LEMMA EditsAre ==
    ASSUME used \subseteq Keys, NEW cfg \in Config, OwnIds(cfg), NEW edited \in Edits(cfg)
    PROVE  edited \in Config /\ OwnIds(edited)
<1>. DEFINE n == Len(cfg.servers)
<1>1. /\ cfg.servers \in Seq(Server) /\ cfg.key \in Text /\ n \in Nat
      /\ DOMAIN cfg.servers = 1..n
      /\ \A i \in 1..n : cfg.servers[i] \in Server
      /\ \A i, j \in 1..n : cfg.servers[i].id = cfg.servers[j].id => i = j
  BY ConfigIs DEF OwnIds
<1>2. ASSUME NEW servers \in Seq(Server), NEW key \in Text,
             edited = [servers |-> servers, key |-> key],
             \A i, j \in 1..Len(servers) : servers[i].id = servers[j].id => i = j
      PROVE  edited \in Config /\ OwnIds(edited)
  BY <1>2 DEF Config, OwnIds
<1>3. CASE edited = cfg
  BY <1>3
<1>4. ASSUME NEW k \in Typed \cup used, edited = [cfg EXCEPT !.key = k]
      PROVE  edited \in Config /\ OwnIds(edited)
  <2>1. edited = [servers |-> cfg.servers, key |-> k] /\ k \in Text
    BY <1>4 DEF Config, Text
  <2>. QED
    BY <1>1, <1>2, <2>1
<1>5. ASSUME NEW i \in 1..n, edited = Removed(cfg, i)
      PROVE  edited \in Config /\ OwnIds(edited)
  <2>. DEFINE servers == RemoveAt(cfg.servers, i)
  <2>1. edited = [servers |-> servers, key |-> cfg.key]
    BY <1>5 DEF Config, Removed
  <2>2. /\ servers \in Seq(Server) /\ Len(servers) = n - 1
        /\ \A k \in 1..n - 1 : servers[k] = cfg.servers[IF k < i THEN k ELSE k + 1]
    <3>1. i \in 1..Len(cfg.servers)
      OBVIOUS
    <3>2. /\ servers \in Seq(Server) /\ Len(servers) = n - 1
          /\ \A k \in 1..n - 1 :
                servers[k] = IF k < i THEN cfg.servers[k] ELSE cfg.servers[k + 1]
      BY <1>1, <3>1, RemoveAtIs, Zenon
    <3>. HIDE DEF servers
    <3>. QED
      BY <3>2
  <2>. HIDE DEF servers
  <2>3. ASSUME NEW k \in 1..Len(servers), NEW j \in 1..Len(servers),
               servers[k].id = servers[j].id
        PROVE  k = j
    <3>. DEFINE At(m) == IF m < i THEN m ELSE m + 1
    <3>1. At(k) \in 1..n /\ At(j) \in 1..n /\ (At(k) = At(j) => k = j)
      BY <1>1, <2>2
    <3>2. servers[k] = cfg.servers[At(k)] /\ servers[j] = cfg.servers[At(j)]
      BY <1>1, <2>2
    <3>. HIDE DEF At
    <3>. QED
      BY <1>1, <2>3, <3>1, <3>2
  <2>. QED
    BY <1>1, <1>2, <2>1, <2>2, <2>3
<1>6. ASSUME NEW s \in NewEntries(cfg), edited = Added(cfg, s)
      PROVE  edited \in Config /\ OwnIds(edited)
  <2>. DEFINE servers == Append(cfg.servers, s)
  <2>1. edited = [servers |-> servers, key |-> cfg.key]
    BY <1>6 DEF Config, Added
  <2>2. s \in Server /\ \A i \in 1..n : cfg.servers[i].id # s.id
    <3>1. s \in [id : {id \in Ids : \A i \in DOMAIN cfg.servers : cfg.servers[i].id # id},
                 host : Typed, secret : Typed, conns : {0}]
      BY DEF NewEntries
    <3>2. Typed \subseteq Text /\ 0 \in 0..1
      BY DEF Text
    <3>. QED
      BY <1>1, <3>1, <3>2 DEF Server
  <2>3. /\ servers \in Seq(Server) /\ Len(servers) = n + 1
        /\ \A k \in 1..n : servers[k] = cfg.servers[k]
        /\ servers[n + 1] = s
    BY <1>1, <2>2, AppendProperties
  <2>. HIDE DEF servers
  <2>4. \A k \in 1..Len(servers) : k \in 1..n \/ k = n + 1
    BY <1>1, <2>3
  <2>5. ASSUME NEW k \in 1..Len(servers), NEW j \in 1..Len(servers),
               servers[k].id = servers[j].id
        PROVE  k = j
    BY <1>1, <2>2, <2>3, <2>4, <2>5
  <2>. QED
    BY <1>1, <1>2, <2>1, <2>3, <2>5
<1>7. ASSUME NEW i \in 1..n, NEW t \in Typed,
             edited = Rehosted(cfg, i, t) \/ edited = Retyped(cfg, i, t)
      PROVE  edited \in Config /\ OwnIds(edited)
  <2>1. t \in Text
    BY DEF Text
  <2>2. PICK servers :
           /\ \/ servers = [cfg.servers EXCEPT ![i].host = t]
              \/ servers = [cfg.servers EXCEPT ![i].secret = t]
           /\ edited = [servers |-> servers, key |-> cfg.key]
    BY <1>7 DEF Config, Rehosted, Retyped
  <2>3. /\ servers \in Seq(Server) /\ Len(servers) = n
        /\ \A k \in 1..n : servers[k].id = cfg.servers[k].id
    <3>1. cfg.servers[i] \in Server
      BY <1>1
    <3>2. PICK s \in Server :
             s.id = cfg.servers[i].id /\ servers = [cfg.servers EXCEPT ![i] = s]
      <4>1. /\ [cfg.servers[i] EXCEPT !.host = t] \in Server
            /\ [cfg.servers[i] EXCEPT !.host = t].id = cfg.servers[i].id
            /\ [cfg.servers[i] EXCEPT !.secret = t] \in Server
            /\ [cfg.servers[i] EXCEPT !.secret = t].id = cfg.servers[i].id
        BY <2>1, <3>1 DEF Server
      <4>. QED
        BY <2>2, <4>1
    <3>. QED
      BY <1>1, <3>2
  <2>4. \A k, j \in 1..Len(servers) : servers[k].id = servers[j].id => k = j
    BY <1>1, <2>3
  <2>. QED
    BY <1>1, <1>2, <2>2, <2>3, <2>4
<1>8. \/ edited = cfg
      \/ \E k \in Typed \cup used : edited = [cfg EXCEPT !.key = k]
      \/ \E i \in 1..n : edited = Removed(cfg, i)
      \/ \E s \in NewEntries(cfg) : edited = Added(cfg, s)
      \/ \E i \in 1..n : \E t \in Typed : edited = Rehosted(cfg, i, t) \/ edited = Retyped(cfg, i, t)
  BY <1>1, SMT DEF Edits
<1>. QED
  BY <1>3, <1>4, <1>5, <1>6, <1>7, <1>8, Zenon


LEMMA InitIndInv == Init => IndInv
<1>. SUFFICES ASSUME Init PROVE IndInv
  OBVIOUS
<1>1. ASSUME file # None
      PROVE  /\ file \in Config /\ OwnIds(file) /\ file.key # Masked
             /\ NoPlaceholder(file)
  <2>1. file \in HandWritten
    BY <1>1 DEF Init
  <2>2. PICK n \in 0..MaxServers :
           /\ file.servers \in [1..n -> [id : Ids, host : Typed, secret : Typed, conns : {0}]]
           /\ file.key \in Typed
           /\ file = [servers |-> file.servers, key |-> file.key]
    BY <2>1 DEF HandWritten
  <2>3. OwnIds(file)
    BY <2>1 DEF HandWritten, OwnIds
  <2>4. Typed \subseteq Text /\ Masked \notin Typed
    BY TextsDiffer DEF Text, Typed
  <2>5. n \in Nat /\ DOMAIN file.servers = 1..n
    BY <2>2, MaxServersIsNat
  <2>6. \A i \in 1..n : file.servers[i] \in Server /\ file.servers[i].secret # Masked
    BY <2>2, <2>4 DEF Server
  <2>7. file.servers \in [1..n -> Server]
    BY <2>2, <2>6
  <2>8. file.servers \in Seq(Server)
    BY <2>5, <2>7
  <2>9. file \in Config
    BY <2>2, <2>4, <2>8 DEF Config
  <2>. QED
    BY <2>2, <2>3, <2>4, <2>5, <2>6, <2>9 DEF NoPlaceholder
<1>2. BooksOK /\ ClientsOK
  BY DEF Init, BooksOK, ClientsOK
<1>. QED
  BY <1>1, <1>2 DEF Init, IndInv, CurrentInv, FileInv, ViewInv, RollInv, SecretInv, Up

-----------------------------------------------------------------------------
(* What an edit or a load puts in place.                                   *)

\* What given becomes: of an entry with a secret that secret, of one with a
\* placeholder what it was.
LEMMA GivenByIs ==
    ASSUME BooksOK, NEW cfg \in Config, OwnIds(cfg)
    PROVE  /\ GivenBy(cfg) \in [Ids -> Text \cup {None}]
           /\ \A i \in DOMAIN cfg.servers :
                 GivenBy(cfg)[cfg.servers[i].id] =
                     IF cfg.servers[i].secret = Masked THEN given[cfg.servers[i].id]
                     ELSE cfg.servers[i].secret
<1>. DEFINE Of(id) == CHOOSE i \in DOMAIN cfg.servers : cfg.servers[i].id = id
            Has(id) == \E i \in DOMAIN cfg.servers : cfg.servers[i].id = id
            Gives(id) == IF cfg.servers[Of(id)].secret = Masked THEN given[id]
                         ELSE cfg.servers[Of(id)].secret
<1>1. \A i \in DOMAIN cfg.servers : Of(cfg.servers[i].id) = i /\ Has(cfg.servers[i].id)
  BY DEF OwnIds
<1>2. GivenBy(cfg) = [id \in Ids |-> IF Has(id) THEN Gives(id) ELSE None]
  BY DEF GivenBy
<1>3. \A id \in Ids : Has(id) => Of(id) \in DOMAIN cfg.servers
  OBVIOUS
<1>. HIDE DEF Of, Has
<1>4. ASSUME NEW id \in Ids
      PROVE  (IF Has(id) THEN Gives(id) ELSE None) \in Text \cup {None}
  BY <1>3, ConfigIs DEF BooksOK
<1>5. \A i \in DOMAIN cfg.servers :
         Gives(cfg.servers[i].id) =
             IF cfg.servers[i].secret = Masked THEN given[cfg.servers[i].id]
             ELSE cfg.servers[i].secret
  BY <1>1
<1>6. \A i \in DOMAIN cfg.servers : cfg.servers[i].id \in Ids
  BY ConfigIs
<1>. HIDE DEF Gives
<1>7. GivenBy(cfg) \in [Ids -> Text \cup {None}]
  BY <1>2, <1>4
<1>. QED
  BY <1>1, <1>2, <1>5, <1>6, <1>7

LEMMA GiveKeeps ==
    ASSUME BooksOK, NEW cfg \in Config, OwnIds(cfg), Give(cfg)
    PROVE  /\ given' \in [Ids -> Text \cup {None}] /\ keyGiven' \in Text \cup {None}
           /\ keyGiven' = IF cfg.key = Masked THEN keyGiven ELSE cfg.key
           /\ \A i \in DOMAIN cfg.servers :
                 given'[cfg.servers[i].id] =
                     IF cfg.servers[i].secret = Masked THEN given[cfg.servers[i].id]
                     ELSE cfg.servers[i].secret
<1>1. /\ given' = GivenBy(cfg)
      /\ keyGiven' = IF cfg.key = Masked THEN keyGiven ELSE cfg.key
  BY DEF Give
<1>2. cfg.key \in Text
  BY ConfigIs
<1>. QED
  BY <1>1, <1>2, GivenByIs DEF BooksOK

\* What Load makes of a file that it can parse: what the file says, where it
\* has no dollar sign.
LEMMA ParsedIs ==
    ASSUME NEW cfg \in Config, OwnIds(cfg), cfg.key # Masked,
           NEW d \in Parsed(cfg), d # None \/ ~HasDollar(cfg)
    PROVE  /\ d \in Config /\ OwnIds(d) /\ Defaulted(d) /\ d.key # Masked
           /\ DOMAIN d.servers = DOMAIN cfg.servers
           /\ Written(cfg, d)
           /\ NoPlaceholder(cfg) => NoPlaceholder(d)
           /\ ~HasDollar(cfg) => (Valid(d) <=> Valid(cfg))
<1>1. PICK env \in Environments : d = ApplyDefaults(Expanded(env, cfg))
  BY DEF Parsed
<1>. DEFINE read == Expanded(env, cfg)
<1>2. /\ read \in Config /\ SameIds(read, cfg)
      /\ read.key = ExpandEnv(env, cfg.key)
      /\ \A i \in DOMAIN cfg.servers :
            /\ read.servers[i].host = ExpandEnv(env, cfg.servers[i].host)
            /\ read.servers[i].secret = ExpandEnv(env, cfg.servers[i].secret)
  BY ExpandedIs
<1>3. d = ApplyDefaults(read)
  BY <1>1
<1>. HIDE DEF read
<1>4. /\ d \in Config /\ SameIds(d, read) /\ SameHosts(d, read) /\ d.key = read.key
      /\ \A i \in DOMAIN read.servers :
            d.servers[i].secret = read.servers[i].secret /\ d.servers[i].conns = 1
  BY <1>2, <1>3, DefaultsIs
<1>5. /\ DOMAIN d.servers = DOMAIN cfg.servers /\ Len(d.servers) = Len(cfg.servers)
      /\ OwnIds(d)
      /\ d.key = ExpandEnv(env, cfg.key)
      /\ \A i \in DOMAIN cfg.servers :
            /\ d.servers[i].host = ExpandEnv(env, cfg.servers[i].host)
            /\ d.servers[i].secret = ExpandEnv(env, cfg.servers[i].secret)
            /\ d.servers[i].conns = 1
  <2>1. OwnIds(d)
    BY <1>2, <1>4, SameIdsKeep
  <2>2. DOMAIN d.servers = DOMAIN cfg.servers /\ Len(d.servers) = Len(cfg.servers)
        /\ DOMAIN read.servers = DOMAIN cfg.servers
    BY <1>2, <1>4 DEF SameIds
  <2>3. \A i \in DOMAIN cfg.servers : d.servers[i].host = read.servers[i].host
    BY <1>4, <2>2 DEF SameHosts
  <2>. QED
    BY <1>2, <1>4, <2>1, <2>2, <2>3
<1>6. cfg.key \in Text /\ \A i \in DOMAIN cfg.servers :
                            cfg.servers[i].host \in Text /\ cfg.servers[i].secret \in Text
  BY ConfigIs
<1>7. d.key # Masked /\ Defaulted(d) /\ (NoPlaceholder(cfg) => NoPlaceholder(d))
  BY <1>5, <1>6, ExpandEnvIs DEF Defaulted, NoPlaceholder
<1>8. Written(cfg, d)
  BY <1>5, <1>6, ExpandEnvIs DEF Written, Says
<1>9. ASSUME ~HasDollar(cfg) PROVE Valid(d) <=> Valid(cfg)
  <2>1. \A i \in DOMAIN cfg.servers : d.servers[i].host = cfg.servers[i].host
    BY <1>5, <1>6, <1>9, ExpandEnvIs DEF HasDollar
  <2>. QED
    BY <1>5, <2>1 DEF Valid
<1>. QED
  BY <1>4, <1>5, <1>7, <1>8, <1>9

LEMMA WrittenAsIs == \A cfg : Written(cfg, cfg)
BY DEF Written, Says

\* What Update makes of an edit.
Updated(edited) == ApplyDefaults(MergeRedacted(edited, current))

LEMMA UpdatedIs ==
    ASSUME Live(current), NEW edited \in Config, OwnIds(edited)
    PROVE  /\ Updated(edited) \in Config
           /\ SameIds(Updated(edited), edited)
           /\ OwnIds(Updated(edited)) /\ Defaulted(Updated(edited))
           /\ Valid(Updated(edited)) <=> Valid(edited)
           /\ Updated(edited).key =
                 IF edited.key = Masked THEN current.key ELSE edited.key
           /\ \A i \in DOMAIN edited.servers :
                 Updated(edited).servers[i].secret =
                     IF edited.servers[i].secret = Masked /\ i <= Len(current.servers)
                     THEN current.servers[i].secret ELSE edited.servers[i].secret
<1>. DEFINE merged == MergeRedacted(edited, current)
            cfg == ApplyDefaults(merged)
<1>1. current \in Config
  BY DEF Live
<1>2. /\ merged \in Config
      /\ SameIds(merged, edited) /\ SameHosts(merged, edited)
      /\ merged.key = IF edited.key = Masked THEN current.key ELSE edited.key
      /\ \A i \in DOMAIN edited.servers :
            merged.servers[i].secret =
                IF edited.servers[i].secret = Masked /\ i <= Len(current.servers)
                THEN current.servers[i].secret ELSE edited.servers[i].secret
  BY <1>1, MergeIs
<1>. HIDE DEF merged
<1>3. /\ cfg \in Config
      /\ SameIds(cfg, merged) /\ SameHosts(cfg, merged)
      /\ cfg.key = merged.key
      /\ \A i \in DOMAIN merged.servers :
            cfg.servers[i].secret = merged.servers[i].secret /\ cfg.servers[i].conns = 1
  BY <1>2, DefaultsIs
<1>. HIDE DEF cfg
<1>4. SameIds(cfg, edited) /\ SameHosts(cfg, edited)
      /\ DOMAIN cfg.servers = DOMAIN edited.servers
      /\ DOMAIN merged.servers = DOMAIN edited.servers
  BY <1>2, <1>3 DEF SameIds, SameHosts
<1>5. OwnIds(cfg) /\ (Valid(cfg) <=> Valid(edited))
  BY <1>4, SameIdsKeep
<1>6. \A i \in DOMAIN edited.servers :
         cfg.servers[i].secret =
             IF edited.servers[i].secret = Masked /\ i <= Len(current.servers)
             THEN current.servers[i].secret ELSE edited.servers[i].secret
  BY <1>2, <1>3, <1>4
<1>7. Defaulted(cfg)
  BY <1>3, <1>4 DEF Defaulted
<1>8. cfg = Updated(edited)
  BY DEF cfg, merged, Updated
<1>. QED
  BY <1>2, <1>3, <1>4, <1>5, <1>6, <1>7, <1>8

\* Update keeps what is live, and what is in the file, fit to be loaded; the
\* key is the one of the edit, if the edit has one.
LEMMA UpdateKeeps ==
    ASSUME IndInv, Up, NEW edited \in Config, OwnIds(edited), Update(edited),
           IF Valid(edited) THEN Give(edited) ELSE UNCHANGED history
    PROVE  /\ CurrentInv' /\ FileInv' /\ unsaved' \in BOOLEAN
           /\ given' \in [Ids -> Text \cup {None}] /\ keyGiven' \in Text \cup {None}
<1>1. /\ Live(current) /\ current.key = keyGiven /\ current.key # Masked
      /\ CurrentInv /\ FileInv /\ BooksOK /\ file # None
  BY DEF IndInv, CurrentInv, Live
<1>2. /\ Updated(edited) \in Config
      /\ OwnIds(Updated(edited)) /\ Defaulted(Updated(edited))
      /\ Valid(Updated(edited)) <=> Valid(edited)
      /\ Updated(edited).key = IF edited.key = Masked THEN current.key ELSE edited.key
  BY <1>1, UpdatedIs
<1>3. Updated(edited).key # Masked
  BY <1>1, <1>2
<1>4. CASE Valid(edited)
  <2>1. /\ current' = Updated(edited)
        /\ \/ file' = Updated(edited) /\ unsaved' = FALSE
           \/ file' = file /\ unsaved' = TRUE
    BY <1>2, <1>4 DEF Update, Updated, Save
  <2>2. Live(Updated(edited))
    BY <1>2, <1>3, <1>4 DEF Live
  <2>3. /\ given' \in [Ids -> Text \cup {None}] /\ keyGiven' \in Text \cup {None}
        /\ keyGiven' = IF edited.key = Masked THEN keyGiven ELSE edited.key
    BY <1>1, <1>4, GiveKeeps
  <2>4. current'.key = keyGiven'
    BY <1>1, <1>2, <2>1, <2>3
  <2>5. Updated(edited) # None
    BY <1>2, NoneIsNoConfig
  <2>6. FileInv'
    BY <1>1, <1>2, <1>3, <2>1 DEF FileInv
  <2>7. file' # None /\ (~HasDollar(file') => Valid(file'))
    BY <1>1, <1>2, <1>4, <2>1, <2>5 DEF CurrentInv
  <2>8. ~unsaved' => Written(file', current')
    BY <2>1, WrittenAsIs
  <2>9. CurrentInv'
    BY <2>1, <2>2, <2>4, <2>7, <2>8 DEF CurrentInv
  <2>. QED
    BY <2>1, <2>3, <2>6, <2>9
<1>5. CASE ~Valid(edited)
  <2>1. UNCHANGED <<current, file, unsaved, given, keyGiven>>
    BY <1>2, <1>5 DEF Update, Updated, history
  <2>. QED
    BY <1>1, <2>1 DEF CurrentInv, FileInv, Up, BooksOK
<1>. QED
  BY <1>4, <1>5

\* If every placeholder is where its entry is, Update gives each entry its own
\* secret and leaves no placeholder.
LEMMA UpdateSecrets ==
    ASSUME IndInv, Up, ~shifted, NEW edited \in Config, OwnIds(edited),
           Valid(edited), LinesUp(edited), Update(edited), Give(edited)
    PROVE  /\ NoPlaceholder(current') /\ OwnSecrets'
           /\ NoPlaceholder(file')
<1>1. /\ Live(current) /\ current \in Config /\ NoPlaceholder(current) /\ OwnSecrets
      /\ NoPlaceholder(file) /\ BooksOK
  BY DEF IndInv, CurrentInv, SecretInv, Live
<1>2. /\ SameIds(Updated(edited), edited) /\ Valid(Updated(edited))
      /\ Updated(edited) \in Config
      /\ \A i \in DOMAIN edited.servers :
            Updated(edited).servers[i].secret =
                IF edited.servers[i].secret = Masked /\ i <= Len(current.servers)
                THEN current.servers[i].secret ELSE edited.servers[i].secret
  BY <1>1, UpdatedIs
<1>3. current' = Updated(edited) /\ (file' = Updated(edited) \/ file' = file)
  BY <1>2 DEF Update, Updated, Save
<1>4. DOMAIN Updated(edited).servers = DOMAIN edited.servers
  BY <1>2 DEF SameIds
<1>5. ASSUME NEW i \in DOMAIN edited.servers
      PROVE  /\ Updated(edited).servers[i].secret # Masked
             /\ Updated(edited).servers[i].secret = given'[Updated(edited).servers[i].id]
  <2>. DEFINE id == edited.servers[i].id
  <2>1. Updated(edited).servers[i].id = id
    BY <1>2 DEF SameIds
  <2>2. given'[id] = IF edited.servers[i].secret = Masked THEN given[id]
                     ELSE edited.servers[i].secret
    BY <1>1, GiveKeeps
  <2>3. edited.servers[i].secret = Masked =>
           i <= Len(current.servers) /\ current.servers[i].id = id
    BY DEF LinesUp
  <2>. HIDE DEF id
  <2>4. CASE edited.servers[i].secret # Masked
    BY <1>2, <2>1, <2>2, <2>4
  <2>5. CASE edited.servers[i].secret = Masked
    <3>1. i \in DOMAIN current.servers
      <4>1. i \in Nat \ {0}
        BY ConfigIs
      <4>. QED
        BY <1>1, <2>3, <2>5, <4>1, ConfigIs
    <3>2. Updated(edited).servers[i].secret = current.servers[i].secret
      BY <1>2, <2>3, <2>5
    <3>3. current.servers[i].secret # Masked /\ current.servers[i].secret = given[id]
      BY <1>1, <2>3, <2>5, <3>1 DEF NoPlaceholder, OwnSecrets
    <3>. QED
      BY <2>1, <2>2, <2>5, <3>2, <3>3
  <2>. QED
    BY <2>4, <2>5
<1>6. NoPlaceholder(Updated(edited))
  BY <1>4, <1>5 DEF NoPlaceholder
<1>7. OwnSecrets'
  BY <1>3, <1>4, <1>5, Zenon DEF OwnSecrets
<1>. QED
  BY <1>1, <1>3, <1>6, <1>7

-----------------------------------------------------------------------------
(* The steps.                                                              *)

\* After a load each entry has the secret that it was given.
LEMMA LoadedSecrets ==
    ASSUME BooksOK, NEW cfg \in Config, OwnIds(cfg), NoPlaceholder(cfg), Give(cfg),
           current' = cfg
    PROVE  OwnSecrets'
<1>1. \A i \in DOMAIN cfg.servers : given'[cfg.servers[i].id] = cfg.servers[i].secret
  BY GiveKeeps DEF NoPlaceholder
<1>. QED
  BY <1>1, Zenon DEF OwnSecrets

LEMMA LoadFileStep == IndInv /\ LoadFile => IndInv'
<1>. SUFFICES ASSUME IndInv, LoadFile PROVE IndInv'
  OBVIOUS
<1>1. PICK cfg \in Parsed(file) \ {None} :
         cfg.key # Empty /\ Valid(cfg) /\ current' = cfg /\ Give(cfg)
  BY DEF LoadFile
<1>2. /\ file # None /\ unsaved' = FALSE
      /\ UNCHANGED <<file, view, rolling, used, shifted>>
  BY DEF LoadFile
<1>3. BooksOK /\ file \in Config /\ OwnIds(file) /\ file.key # Masked
  BY <1>2 DEF IndInv, FileInv
<1>4. /\ cfg \in Config /\ OwnIds(cfg) /\ Defaulted(cfg) /\ cfg.key # Masked
      /\ Written(file, cfg)
      /\ NoPlaceholder(file) => NoPlaceholder(cfg)
      /\ ~HasDollar(file) => (Valid(cfg) <=> Valid(file))
  BY <1>3, ParsedIs
<1>5. /\ given' \in [Ids -> Text \cup {None}] /\ keyGiven' \in Text \cup {None}
      /\ keyGiven' = cfg.key
  BY <1>1, <1>3, <1>4, GiveKeeps
<1>6. BooksOK' /\ ClientsOK' /\ FileInv' /\ ViewInv' /\ RollInv'
  BY <1>2, <1>5 DEF IndInv, BooksOK, ClientsOK, FileInv, ViewInv, RollInv
<1>7. Live(cfg)
  BY <1>1, <1>4 DEF Live
<1>8. CurrentInv'
  BY <1>1, <1>2, <1>4, <1>5, <1>7 DEF CurrentInv
<1>9. SecretInv'
  <2>. SUFFICES ASSUME ~shifted' PROVE SecretInv'
    BY DEF SecretInv
  <2>1. /\ NoPlaceholder(file)
        /\ \A c \in Clients : rolling[c] # None => NoPlaceholder(rolling[c])
    BY <1>2 DEF IndInv, SecretInv
  <2>2. NoPlaceholder(cfg)
    BY <1>4, <2>1
  <2>3. OwnSecrets'
    BY <1>1, <1>3, <1>4, <2>2, LoadedSecrets
  <2>. QED
    BY <1>1, <1>2, <2>1, <2>2, <2>3 DEF SecretInv
<1>. QED
  BY <1>6, <1>8, <1>9 DEF IndInv

LEMMA LoadWithoutKeyStep == IndInv /\ LoadWithoutKey => IndInv'
<1>. SUFFICES ASSUME IndInv, LoadWithoutKey PROVE IndInv'
  OBVIOUS
<1>. DEFINE Keyed(read, k) == [read EXCEPT !.key = k]
<1>1. PICK read \in Parsed(file) \ {None}, k \in Keys \ used :
         /\ used' = used \cup {k}
         /\ Save(Keyed(read, k), Keyed(read, k))
         /\ current' = IF Valid(Keyed(read, k)) THEN Keyed(read, k) ELSE None
         /\ Give(Keyed(read, k))
  BY Zenon DEF LoadWithoutKey
<1>2. file # None /\ UNCHANGED <<view, rolling, shifted>>
  BY DEF LoadWithoutKey
<1>3. BooksOK /\ file \in Config /\ OwnIds(file) /\ file.key # Masked
  BY <1>2 DEF IndInv, FileInv
<1>4. /\ read \in Config /\ OwnIds(read) /\ Defaulted(read)
      /\ NoPlaceholder(file) => NoPlaceholder(read)
      /\ ~HasDollar(file) => (Valid(read) <=> Valid(file))
  BY <1>3, ParsedIs
<1>. DEFINE cfg == Keyed(read, k)
<1>5. cfg \in Config /\ cfg.servers = read.servers /\ cfg.key = k
  BY <1>4 DEF Config, Text
<1>6. k # Masked
  BY TextsDiffer
<1>7. /\ current' = IF Valid(cfg) THEN cfg ELSE None
      /\ Give(cfg)
      /\ \/ file' = cfg /\ unsaved' = FALSE
         \/ file' = file /\ unsaved' = TRUE
  BY <1>1 DEF Save
<1>. HIDE DEF cfg, Keyed
<1>8. /\ OwnIds(cfg) /\ Defaulted(cfg)
      /\ NoPlaceholder(file) => NoPlaceholder(cfg)
      /\ ~HasDollar(file) => (Valid(cfg) <=> Valid(file))
  BY <1>4, <1>5 DEF OwnIds, Defaulted, NoPlaceholder, Valid
<1>9. /\ given' \in [Ids -> Text \cup {None}] /\ keyGiven' \in Text \cup {None}
      /\ keyGiven' = k
  BY <1>3, <1>5, <1>6, <1>7, <1>8, GiveKeeps
<1>10. BooksOK' /\ ClientsOK' /\ ViewInv' /\ RollInv'
  BY <1>1, <1>2, <1>3, <1>7, <1>9 DEF IndInv, BooksOK, ClientsOK, ViewInv, RollInv
<1>11. FileInv'
  BY <1>3, <1>5, <1>6, <1>7, <1>8 DEF FileInv
<1>12. CurrentInv'
  <2>. SUFFICES ASSUME Up' PROVE CurrentInv'
    BY DEF CurrentInv
  <2>1. Valid(cfg) /\ current' = cfg
    BY <1>7 DEF Up
  <2>2. Live(current')
    BY <1>5, <1>6, <1>8, <2>1 DEF Live
  <2>3. file' # None /\ (~HasDollar(file') => Valid(file'))
    BY <1>2, <1>5, <1>7, <1>8, <2>1, NoneIsNoConfig
  <2>4. ~unsaved' => Written(file', current')
    BY <1>7, <2>1, WrittenAsIs
  <2>. QED
    BY <1>5, <1>9, <2>1, <2>2, <2>3, <2>4 DEF CurrentInv
<1>13. SecretInv'
  <2>. SUFFICES ASSUME ~shifted' PROVE SecretInv'
    BY DEF SecretInv
  <2>1. /\ NoPlaceholder(file)
        /\ \A c \in Clients : rolling[c] # None => NoPlaceholder(rolling[c])
    BY <1>2 DEF IndInv, SecretInv
  <2>2. NoPlaceholder(cfg) /\ NoPlaceholder(file')
    BY <1>7, <1>8, <2>1
  <2>3. Up' => NoPlaceholder(current') /\ OwnSecrets'
    BY <1>3, <1>5, <1>7, <1>8, <2>2, LoadedSecrets DEF Up
  <2>. QED
    BY <1>2, <2>1, <2>2, <2>3 DEF SecretInv
<1>. QED
  BY <1>10, <1>11, <1>12, <1>13 DEF IndInv

LEMMA CreateDefaultStep == IndInv /\ CreateDefault => IndInv'
<1>. SUFFICES ASSUME IndInv, CreateDefault PROVE IndInv'
  OBVIOUS
<1>1. PICK id \in Ids, h \in Plain : file' = DefaultFile(id, h)
  BY DEF CreateDefault
<1>2. ~Up /\ UNCHANGED <<current, view, rolling, used, unsaved, given, keyGiven, shifted>>
  BY DEF CreateDefault, history
<1>. DEFINE entry == [id |-> id, host |-> h, secret |-> Empty, conns |-> 1]
<1>3. Empty \in Text /\ Empty # Masked /\ h \in Text
  BY TextsDiffer DEF Text, Typed
<1>4. entry \in Server /\ entry.secret # Masked
  BY <1>3 DEF Server
<1>. HIDE DEF entry
<1>5. /\ <<entry>> \in Seq(Server) /\ Len(<<entry>>) = 1 /\ <<entry>>[1] = entry
      /\ DOMAIN <<entry>> = 1..1
  BY <1>4
<1>6. file' = [servers |-> <<entry>>, key |-> Empty]
  BY <1>1 DEF DefaultFile, entry
<1>7. file' \in Config /\ OwnIds(file') /\ file'.key # Masked /\ NoPlaceholder(file')
  BY <1>3, <1>4, <1>5, <1>6 DEF Config, OwnIds, NoPlaceholder
<1>. QED
  BY <1>2, <1>7
     DEF IndInv, BooksOK, ClientsOK, CurrentInv, FileInv, ViewInv, RollInv, SecretInv, Up

LEMMA DieStep == IndInv /\ Die => IndInv'
<1>. SUFFICES ASSUME IndInv, Die PROVE IndInv'
  OBVIOUS
<1>1. /\ current' = None /\ \A c \in Clients : rolling'[c] = None
      /\ DOMAIN rolling' = Clients
      /\ given' \in [Ids -> Text \cup {None}] /\ keyGiven' = None
      /\ UNCHANGED <<file, view, used, unsaved, shifted>>
  BY DEF Die
<1>2. CurrentInv' /\ BooksOK' /\ ClientsOK'
  BY <1>1 DEF IndInv, BooksOK, ClientsOK, CurrentInv, Up
<1>3. FileInv' /\ ViewInv' /\ RollInv'
  BY <1>1 DEF IndInv, FileInv, ViewInv, RollInv
<1>4. SecretInv'
  BY <1>1 DEF IndInv, SecretInv, Up
<1>. QED
  BY <1>2, <1>3, <1>4 DEF IndInv

\* A client that reads, or begins a roll, leaves the configuration as it is.
LEMMA SameCurrent ==
    ASSUME CurrentInv, UNCHANGED <<current, file, unsaved, keyGiven>>
    PROVE  CurrentInv'
BY DEF CurrentInv, Up

LEMMA SameSecrets ==
    ASSUME UNCHANGED <<current, given>>
    PROVE  OwnSecrets' <=> OwnSecrets
BY DEF OwnSecrets

LEMMA GetConfigStep == \A c \in Clients : IndInv /\ GetConfig(c) => IndInv'
<1>. SUFFICES ASSUME NEW c \in Clients, IndInv, GetConfig(c) PROVE IndInv'
  OBVIOUS
<1>1. /\ Up /\ view' = [view EXCEPT ![c] = Redacted(current)]
      /\ UNCHANGED <<current, file, rolling, used, unsaved, given, keyGiven, shifted>>
  BY DEF GetConfig, history
<1>2. current \in Config /\ OwnIds(current)
  BY <1>1 DEF IndInv, CurrentInv, Live
<1>3. Redacted(current) \in Config /\ OwnIds(Redacted(current))
  BY <1>2, RedactedIs, SameIdsKeep
<1>4. ViewInv' /\ ClientsOK'
  BY <1>1, <1>3 DEF IndInv, ViewInv, ClientsOK
<1>5. BooksOK' /\ FileInv' /\ RollInv' /\ CurrentInv'
  BY <1>1, SameCurrent DEF IndInv, BooksOK, FileInv, RollInv
<1>6. SecretInv'
  BY <1>1, SameSecrets DEF IndInv, SecretInv, Up
<1>. QED
  BY <1>4, <1>5, <1>6 DEF IndInv

LEMMA PutConfigStep == \A c \in Clients : IndInv /\ PutConfig(c) => IndInv'
<1>. SUFFICES ASSUME NEW c \in Clients, IndInv, PutConfig(c) PROVE IndInv'
  OBVIOUS
<1>1. PICK edited \in Edits(view[c]) :
         /\ Update(edited)
         /\ IF Valid(edited)
            THEN /\ Give(edited)
                 /\ shifted' = (shifted \/ ~LinesUp(edited))
                 /\ view' = [view EXCEPT ![c] = None]
            ELSE UNCHANGED <<history, shifted, view>>
  BY DEF PutConfig
<1>2. Up /\ view[c] # None /\ UNCHANGED <<rolling, used>>
  BY DEF PutConfig
<1>3. view[c] \in Config /\ OwnIds(view[c]) /\ used \subseteq Keys
  BY <1>2 DEF IndInv, ViewInv, BooksOK
<1>4. edited \in Config /\ OwnIds(edited)
  BY <1>3, EditsAre
<1>5. /\ CurrentInv' /\ FileInv' /\ unsaved' \in BOOLEAN
      /\ given' \in [Ids -> Text \cup {None}] /\ keyGiven' \in Text \cup {None}
  BY <1>1, <1>2, <1>4, UpdateKeeps
<1>6. BooksOK' /\ ClientsOK' /\ ViewInv' /\ RollInv'
  <2>1. shifted' \in BOOLEAN
    BY <1>1 DEF IndInv, BooksOK
  <2>2. DOMAIN view' = Clients /\ \A d \in Clients : view'[d] = view[d] \/ view'[d] = None
    BY <1>1 DEF IndInv, ClientsOK
  <2>3. ViewInv'
    BY <2>2 DEF IndInv, ViewInv
  <2>. QED
    BY <1>2, <1>5, <2>1, <2>2, <2>3 DEF IndInv, BooksOK, ClientsOK, RollInv
<1>7. SecretInv'
  <2>. SUFFICES ASSUME ~shifted' PROVE SecretInv'
    BY DEF SecretInv
  <2>1. ~shifted /\ (Valid(edited) => LinesUp(edited))
    BY <1>1
  <2>2. \A d \in Clients : rolling'[d] # None => NoPlaceholder(rolling'[d])
    BY <1>2, <2>1 DEF IndInv, SecretInv
  <2>3. CASE Valid(edited)
    <3>1. Give(edited)
      BY <1>1, <2>3
    <3>2. NoPlaceholder(current') /\ OwnSecrets' /\ NoPlaceholder(file')
      BY <1>1, <1>2, <1>4, <2>1, <2>3, <3>1, UpdateSecrets
    <3>. QED
      BY <2>2, <3>2 DEF SecretInv
  <2>4. CASE ~Valid(edited)
    <3>1. ~Valid(Updated(edited))
      BY <1>2, <1>4, <2>4, UpdatedIs DEF IndInv, CurrentInv
    <3>2. UNCHANGED <<current, file, given>>
      BY <1>1, <2>4, <3>1 DEF Update, Updated, history
    <3>. QED
      BY <2>1, <2>2, <3>2, SameSecrets DEF IndInv, SecretInv, Up
  <2>. QED
    BY <2>3, <2>4
<1>. QED
  BY <1>5, <1>6, <1>7 DEF IndInv

LEMMA RollBeginsStep == \A c \in Clients : IndInv /\ RollBegins(c) => IndInv'
<1>. SUFFICES ASSUME NEW c \in Clients, IndInv, RollBegins(c) PROVE IndInv'
  OBVIOUS
<1>1. PICK k \in Keys \ used :
         /\ used' = used \cup {k}
         /\ rolling' = [rolling EXCEPT ![c] = [current EXCEPT !.key = k]]
  BY DEF RollBegins
<1>2. Up /\ UNCHANGED <<current, file, view, unsaved, given, keyGiven, shifted>>
  BY DEF RollBegins, history
<1>3. Live(current)
  BY <1>2 DEF IndInv, CurrentInv
<1>. DEFINE copy == [current EXCEPT !.key = k]
<1>4. copy \in Config /\ copy.servers = current.servers /\ copy.key = k /\ k # Masked
  BY <1>3, TextsDiffer DEF Live, Config, Text
<1>5. /\ DOMAIN rolling' = Clients /\ rolling'[c] = copy
      /\ \A d \in Clients \ {c} : rolling'[d] = rolling[d]
  BY <1>1 DEF IndInv, ClientsOK
<1>. HIDE DEF copy
<1>6. Live(copy) /\ (NoPlaceholder(current) => NoPlaceholder(copy))
  BY <1>3, <1>4 DEF Live, OwnIds, Valid, Defaulted, NoPlaceholder
<1>7. BooksOK' /\ ClientsOK' /\ CurrentInv' /\ FileInv' /\ ViewInv'
  BY <1>1, <1>2, <1>5, SameCurrent DEF IndInv, BooksOK, ClientsOK, FileInv, ViewInv
<1>8. RollInv'
  <2>. SUFFICES ASSUME NEW d \in Clients, rolling'[d] # None PROVE Live(rolling'[d])
    BY DEF RollInv
  <2>1. CASE d = c
    BY <1>5, <1>6, <2>1
  <2>2. CASE d # c
    BY <1>5, <2>2 DEF IndInv, RollInv
  <2>. QED
    BY <2>1, <2>2
<1>9. SecretInv'
  <2>. SUFFICES ASSUME ~shifted' PROVE SecretInv'
    BY DEF SecretInv
  <2>1. /\ NoPlaceholder(current) /\ OwnSecrets /\ (file # None => NoPlaceholder(file))
        /\ \A d \in Clients : rolling[d] # None => NoPlaceholder(rolling[d])
    BY <1>2 DEF IndInv, SecretInv
  <2>2. ASSUME NEW d \in Clients, rolling'[d] # None
        PROVE  NoPlaceholder(rolling'[d])
    <3>1. CASE d = c
      BY <1>5, <1>6, <2>1, <3>1
    <3>2. CASE d # c
      BY <1>5, <2>1, <2>2, <3>2
    <3>. QED
      BY <3>1, <3>2
  <2>3. OwnSecrets'
    BY <1>2, <2>1, SameSecrets
  <2>. QED
    BY <1>2, <2>1, <2>2, <2>3 DEF SecretInv
<1>. QED
  BY <1>7, <1>8, <1>9 DEF IndInv

LEMMA RollEndsStep == \A c \in Clients : IndInv /\ RollEnds(c) => IndInv'
<1>. SUFFICES ASSUME NEW c \in Clients, IndInv, RollEnds(c) PROVE IndInv'
  OBVIOUS
<1>. DEFINE copy == rolling[c]
<1>1. /\ Up /\ copy # None /\ Update(copy)
      /\ rolling' = [rolling EXCEPT ![c] = None] /\ Give(copy)
      /\ UNCHANGED <<view, used, shifted>>
  BY DEF RollEnds
<1>2. Live(copy)
  BY <1>1 DEF IndInv, RollInv
<1>3. copy \in Config /\ OwnIds(copy) /\ Valid(copy)
  BY <1>2 DEF Live
<1>. HIDE DEF copy
<1>4. /\ CurrentInv' /\ FileInv' /\ unsaved' \in BOOLEAN
      /\ given' \in [Ids -> Text \cup {None}] /\ keyGiven' \in Text \cup {None}
  BY <1>1, <1>3, UpdateKeeps
<1>5. /\ DOMAIN rolling' = Clients
      /\ \A d \in Clients : rolling'[d] = rolling[d] \/ rolling'[d] = None
  BY <1>1 DEF IndInv, ClientsOK
<1>6. BooksOK' /\ ClientsOK' /\ ViewInv' /\ RollInv'
  BY <1>1, <1>4, <1>5 DEF IndInv, BooksOK, ClientsOK, ViewInv, RollInv
<1>7. SecretInv'
  <2>. SUFFICES ASSUME ~shifted' PROVE SecretInv'
    BY DEF SecretInv
  <2>1. NoPlaceholder(copy) /\ ~shifted
    BY <1>1 DEF IndInv, SecretInv, copy
  <2>2. LinesUp(copy)
    BY <2>1 DEF LinesUp, NoPlaceholder
  <2>3. NoPlaceholder(current') /\ OwnSecrets' /\ NoPlaceholder(file')
    BY <1>1, <1>3, <2>1, <2>2, UpdateSecrets
  <2>4. \A d \in Clients : rolling'[d] # None => NoPlaceholder(rolling'[d])
    BY <1>5, <2>1 DEF IndInv, SecretInv
  <2>. QED
    BY <2>3, <2>4 DEF SecretInv
<1>. QED
  BY <1>4, <1>6, <1>7 DEF IndInv

LEMMA StepIndInv == IndInv /\ [Next]_vars => IndInv'
<1>. SUFFICES ASSUME IndInv, [Next]_vars PROVE IndInv'
  OBVIOUS
<1>1. CASE Next
  BY <1>1, LoadFileStep, LoadWithoutKeyStep, CreateDefaultStep, DieStep, GetConfigStep,
     PutConfigStep, RollBeginsStep, RollEndsStep DEF Next
<1>2. CASE UNCHANGED vars
  <2>1. OwnSecrets' <=> OwnSecrets
    BY <1>2, SameSecrets DEF vars, history
  <2>2. BooksOK' /\ ClientsOK' /\ FileInv' /\ ViewInv' /\ RollInv' /\ CurrentInv'
    BY <1>2, SameCurrent
       DEF vars, history, IndInv, BooksOK, ClientsOK, FileInv, ViewInv, RollInv
  <2>3. SecretInv'
    BY <1>2, <2>1 DEF vars, IndInv, SecretInv, Up
  <2>. QED
    BY <2>2, <2>3 DEF IndInv
<1>. QED
  BY <1>1, <1>2

LEMMA Invariant == Spec => []IndInv
<1>. QED
  BY InitIndInv, StepIndInv, PTL DEF Spec

-----------------------------------------------------------------------------
(* The theorems.                                                           *)

\* Every configuration is well formed, and the live one has passed Validate
\* and applyDefaults, whether Load, an edit or a key roll has set it.
THEOREM ConfigTypeCorrect == Spec => []TypeOK
<1>1. IndInv => TypeOK
  <2>. SUFFICES ASSUME IndInv PROVE TypeOK
    OBVIOUS
  <2>1. current # None =>
           /\ current \in Config /\ Valid(current)
           /\ \A i \in DOMAIN current.servers : current.servers[i].conns = 1
    BY DEF IndInv, CurrentInv, Up, Live, Defaulted
  <2>2. \A c \in Clients : /\ view[c] # None => view[c] \in Config
                           /\ rolling[c] # None => rolling[c] \in Config
    BY DEF IndInv, ViewInv, RollInv, Live
  <2>. QED
    BY <2>1, <2>2 DEF IndInv, BooksOK, FileInv, TypeOK
<1>. QED
  BY <1>1, Invariant, PTL

\* As long as every edit has its placeholders where the entries are,
\* MergeRedacted gives each entry its own secret: whatever stale pages, new
\* hosts and keys, key rolls, failed saves and restarts there are, no
\* placeholder is ever saved or used as a password.
THEOREM PlaceholdersAreResolved == Spec => []PlaceholdersGetTheirSecret
<1>1. IndInv => PlaceholdersGetTheirSecret
  BY DEF IndInv, SecretInv, PlaceholdersGetTheirSecret
<1>. QED
  BY <1>1, Invariant, PTL

\* A Load of the file that Update or Load has written, if it succeeds, gives
\* the live configuration, unless the Save failed: with its key, its hosts and
\* its secrets, but for the texts in which os.ExpandEnv finds a dollar sign.
THEOREM RestartFindsLive == Spec => []RestartKeepsConfig
<1>1. IndInv => RestartKeepsConfig
  <2>. SUFFICES ASSUME IndInv, Up, ~unsaved, NEW next \in Parsed(file) \ {None}
                PROVE  /\ current.key # Empty => Kept(file.key, current.key, next.key)
                       /\ Len(next.servers) = Len(current.servers)
                       /\ \A i \in DOMAIN current.servers :
                             /\ Kept(file.servers[i].host, current.servers[i].host,
                                     next.servers[i].host)
                             /\ Kept(file.servers[i].secret, current.servers[i].secret,
                                     next.servers[i].secret)
                             /\ next.servers[i].conns = current.servers[i].conns
    BY Zenon DEF RestartKeepsConfig
  <2>1. /\ current \in Config /\ Defaulted(current) /\ Written(file, current)
        /\ file # None
    BY DEF IndInv, CurrentInv, Live
  <2>2. file \in Config /\ OwnIds(file) /\ file.key # Masked
    BY <2>1 DEF IndInv, FileInv
  <2>3. next \in Config /\ Defaulted(next) /\ Written(file, next)
    BY <2>2, ParsedIs
  <2>4. Len(next.servers) = Len(current.servers)
        /\ DOMAIN next.servers = DOMAIN current.servers
    BY <2>1, <2>3, ConfigIs DEF Written
  <2>5. Kept(file.key, current.key, next.key)
    BY <2>1, <2>3 DEF Written, Says, Kept
  <2>6. ASSUME NEW i \in DOMAIN current.servers
        PROVE  /\ Kept(file.servers[i].host, current.servers[i].host, next.servers[i].host)
               /\ Kept(file.servers[i].secret, current.servers[i].secret,
                       next.servers[i].secret)
               /\ next.servers[i].conns = current.servers[i].conns
    BY <2>1, <2>3, <2>4 DEF Written, Says, Kept, Defaulted
  <2>. QED
    BY <2>4, <2>5, <2>6
<1>. QED
  BY <1>1, Invariant, PTL

\* While the process runs there is a file, and if it has no dollar sign Load
\* accepts it: Update does not save an edit it refuses, and Load does not start
\* from a file it refuses.
THEOREM SavedConfigIsLoadable == Spec => []SavedConfigLoads
<1>1. IndInv => SavedConfigLoads
  <2>. SUFFICES ASSUME IndInv, Up
                PROVE  /\ file # None
                       /\ ~HasDollar(file) =>
                             \A next \in Parsed(file) : next # None /\ Valid(next)
    BY DEF SavedConfigLoads
  <2>1. file # None /\ (~HasDollar(file) => Valid(file))
    BY DEF IndInv, CurrentInv
  <2>2. file \in Config /\ OwnIds(file) /\ file.key # Masked
    BY <2>1 DEF IndInv, FileInv
  <2>3. ASSUME ~HasDollar(file), NEW next \in Parsed(file)
        PROVE  next # None /\ Valid(next)
    BY <2>1, <2>2, <2>3, ParsedIs, NoneIsNoConfig
  <2>. QED
    BY <2>1, <2>3
<1>. QED
  BY <1>1, Invariant, PTL

\* The live key is the one that was given last, by Load, by handleRollAPIKey or
\* by an edit that carries one: an edit made on a page opened before a roll
\* leaves the rolled key, on however old a page it was made.
THEOREM KeyIsAsGiven == Spec => []KeyIsLastGiven
<1>1. IndInv => KeyIsLastGiven
  BY DEF IndInv, CurrentInv, KeyIsLastGiven
<1>. QED
  BY <1>1, Invariant, PTL

=============================================================================
