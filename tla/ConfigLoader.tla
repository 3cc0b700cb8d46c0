---------------------------- MODULE ConfigLoader ----------------------------
(***************************************************************************)
(* The configuration loader of pkg/config: Bootstrap, the callback         *)
(* onRemoteChange that rebuilds the configuration when the remote source   *)
(* pushes a document, the listeners of OnChange, and Close (loader.go),    *)
(* with the Nacos source (source/nacos/nacos.go).                          *)
(*                                                                         *)
(* Settings are flat: a function from dot-keys to values.  A document is   *)
(* the settings it sets (Absent elsewhere) or Broken, when it is no YAML;  *)
(* an empty document and one the source does not have are the same.  A     *)
(* prefix of OnChange or HotReloadable is the set of keys below it.        *)
(*                                                                         *)
(* The source calls onRemoteChange from goroutines of its own.  A callback *)
(* has remoteMu only while it stores its document and copies the others;   *)
(* reading the local file, merging, decrypting and validating work on data *)
(* of its own and are one step with that copy.  What it does with the      *)
(* result (load the old settings, store the new ones, compare, call the    *)
(* listeners) are steps between which other callbacks run.                 *)
(***************************************************************************)
EXTENDS Integers, FiniteSets, FiniteSetsExt

CONSTANTS
  DataIds,     \* Options.DataIds of the Nacos source
  Keys,        \* dot-keys
  Values,      \* values of a key, as they stand in a document
  Docs,        \* Docs[d]: the documents the source may hold under d
  LocalDocs,   \* contents of the file at LocalPath
  Env,         \* Env[v]: v after expansion of ${VAR} of the whitelist
  Encrypted,   \* the values that are ENC(...) or lists with it somewhere
  Nested,      \* those of them that have it only in a list inside a list
  PlainOf,     \* PlainOf[v]: an encrypted value in plain text
  Shown,       \* Shown[v]: what fmt prints of v with %v
  KeyPath,     \* EncryptKeyPath
  Ring,        \* Ring[v]: the keys in v, each as the set of values it opens
  Invalid,     \* values the schema forbids
  Required,    \* keys the schema requires
  Hot,         \* the keys below the prefixes of HotReloadable
  Listeners,   \* the functions given to OnChange
  Covers,      \* Covers[l]: the keys below the prefix of l
  Callbacks,   \* slots for goroutines that run onRemoteChange
  MaxEdits,    \* bound on the changes of the documents and the local file
  Absent,      \* a key that is not set
  Broken       \* a document that is not YAML, or a file that cannot be read

Settings == [Keys -> Values \cup {Absent}]
Empty == [k \in Keys |-> Absent]

ASSUME DataIdsAssumption == IsFiniteSet(DataIds)
ASSUME DocsAssumption ==
  /\ \A d \in DataIds : Docs[d] \subseteq Settings \cup {Broken}
  /\ LocalDocs \subseteq Settings \cup {Broken}
  /\ Broken \notin Settings
ASSUME ValuesAssumption ==
  /\ Absent \notin Values
  /\ Env \in [Values -> Values]
  /\ Encrypted \subseteq Values
  /\ Nested \subseteq Encrypted
  /\ PlainOf \in [Encrypted -> Values \ Encrypted]
  /\ KeyPath \in Keys
  /\ Ring \in [Values -> SUBSET SUBSET Encrypted]
ASSUME BoundAssumption == MaxEdits \in Nat
ASSUME ListenersAssumption == Covers \in [Listeners -> SUBSET Keys]

VARIABLES
  phase,       \* where Bootstrap stands, or "up", "refused", "closed"
  local,       \* the file at LocalPath
  server,      \* server[d]: the document at the source
  edits,       \* how often one of the two was changed
  lastSeen,    \* lastSeen[d]: what the subscription of d takes for known
  got,         \* the dataIds Fetch has read
  subscribed,  \* the dataIds with a subscription
  canCancel,   \* remoteCancel is not nil
  remoteRaw,   \* Loader.remoteRaw
  vp,          \* Loader.vp
  cb,          \* the callbacks under way
  view,        \* what a listener has read of vp, Absent before OnChange
  builtFrom,   \* the documents vp was built from
  kept,        \* the last callback kept the old settings
  overlapped,  \* a callback began while another was under way
  missed,      \* a subscription began with a document the loader has not
  leaked       \* a Listen failed half way, or a canceler failed

source == <<local, server, edits>>
boot   == <<phase, got, canCancel>>
subs   == <<subscribed, lastSeen>>
ghost  == <<builtFrom, kept, overlapped, missed, leaked>>
vars   == <<source, boot, subs, remoteRaw, vp, cb, view, ghost>>

NoCallback == [at |-> "idle", final |-> Empty, old |-> Empty,
               from |-> [d \in DataIds |-> Empty], todo |-> {}]

Docsets == [DataIds -> Settings \cup {Broken}]
CallbackStates ==
  [at : {"idle", "built", "loaded", "stored", "fire"},
   final : Settings, old : Settings, from : Docsets, todo : SUBSET Listeners]

TypeOK ==
  /\ phase \in {"fetch", "build", "listen", "up", "refused", "closed"}
  /\ local \in LocalDocs
  /\ server \in Docsets
  /\ edits \in 0..MaxEdits
  /\ lastSeen \in Docsets
  /\ got \in SUBSET DataIds
  /\ subscribed \in SUBSET DataIds
  /\ canCancel \in BOOLEAN
  /\ remoteRaw \in Docsets
  /\ vp \in Settings
  /\ cb \in [Callbacks -> CallbackStates]
  /\ view \in [Listeners -> Settings \cup {Absent}]
  /\ builtFrom \in Docsets
  /\ kept \in BOOLEAN
  /\ overlapped \in BOOLEAN
  /\ missed \in BOOLEAN
  /\ leaked \in BOOLEAN

Init ==
  /\ phase = "fetch"
  /\ local \in LocalDocs
  /\ server \in {f \in [DataIds -> UNION {Docs[d] : d \in DataIds}] :
                   \A d \in DataIds : f[d] \in Docs[d]}
  /\ edits = 0
  /\ lastSeen = [d \in DataIds |-> Empty]
  /\ got = {}
  /\ subscribed = {}
  /\ canCancel = FALSE
  /\ remoteRaw = [d \in DataIds |-> Empty]
  /\ vp = Empty
  /\ cb = [c \in Callbacks |-> NoCallback]
  /\ view = [l \in Listeners |-> Absent]
  /\ builtFrom = [d \in DataIds |-> Empty]
  /\ kept = FALSE
  /\ overlapped = FALSE
  /\ missed = FALSE
  /\ leaked = FALSE

-----------------------------------------------------------------------------
(* From documents to settings.                                             *)

\* The orders in which the range over a map of documents may go.
Orders == {f \in [1..Cardinality(DataIds) -> DataIds] :
             \A i, j \in DOMAIN f : f[i] = f[j] => i = j}

\* mergeYamlInto, document after document: the last one that sets a key wins,
\* one that does not parse is skipped.
Setters(raws, order, k) ==
  {i \in DOMAIN order : raws[order[i]] # Broken /\ raws[order[i]][k] # Absent}
Merged(base, raws, order) ==
  [k \in Keys |-> IF Setters(raws, order, k) = {} THEN base[k]
                  ELSE raws[order[Max(Setters(raws, order, k))]][k]]

\* expandEnvInPlace.
Expanded(s) == [k \in Keys |-> IF s[k] = Absent THEN Absent ELSE Env[s[k]]]

\* hasEncrypted looks into maps and lists but not into a list in a list.
hasEncrypted(s) == \E k \in Keys : s[k] \in Encrypted \ Nested

\* What decryptMap and decryptSlice find, in lists of any depth.
Ciphers(s) == {s[k] : k \in Keys} \cap Encrypted

\* One of the keys at EncryptKeyPath, as it stands before expansion, must open
\* all encrypted values; without any for hasEncrypted nobody asks for a key.
Decryptable(src) ==
  \/ ~hasEncrypted(Expanded(src))
  \/ /\ src[KeyPath] # Absent
     /\ \E key \in Ring[src[KeyPath]] : Ciphers(Expanded(src)) \subseteq key

Decrypted(s) == [k \in Keys |-> IF s[k] \in Encrypted THEN PlainOf[s[k]] ELSE s[k]]

\* Fault: values that came out of the environment stay encrypted.
normalizeTooEarly(src) ==
  IF hasEncrypted(src) THEN Expanded(Decrypted(src)) ELSE Expanded(src)

normalize(src) ==
  IF hasEncrypted(Expanded(src)) THEN Decrypted(Expanded(src)) ELSE Expanded(src)

\* validateAgainstSchema.
Valid(s) == /\ \A k \in Keys : s[k] \notin Invalid
            /\ \A k \in Required : s[k] # Absent

\* What a rebuild from raws may end with: settings that pass, or a refusal.
Rebuilt(raws) ==
  IF local = Broken THEN {}
  ELSE {Merged(local, raws, order) : order \in Orders}
Accepted(raws) == {normalize(s) : s \in {m \in Rebuilt(raws) :
                      Decryptable(m) /\ Valid(normalize(m))}}
MayRefuse(raws) ==
  \/ local = Broken
  \/ \E m \in Rebuilt(raws) : ~Decryptable(m) \/ ~Valid(normalize(m))

-----------------------------------------------------------------------------
(* Bootstrap.                                                              *)

\* Source.Fetch asks for one dataId after the other.
FetchOne(d) ==
  /\ phase = "fetch"
  /\ d \notin got
  /\ got' = got \cup {d}
  /\ remoteRaw' = [remoteRaw EXCEPT ![d] = server[d]]
  /\ phase' = IF got' = DataIds THEN "build" ELSE "fetch"
  /\ UNCHANGED <<source, canCancel, subs, vp, cb, view, ghost>>

\* One of the requests fails, or FetchTimeout passes: Bootstrap drops what
\* Fetch has got and goes on with the local file.
FetchFails ==
  /\ phase = "fetch"
  /\ remoteRaw' = [d \in DataIds |-> Empty]
  /\ phase' = "build"
  /\ UNCHANGED <<source, got, canCancel, subs, vp, cb, view, ghost>>

\* Merge, normalize, validate and store.
Build ==
  /\ phase = "build"
  /\ \/ /\ MayRefuse(remoteRaw)
        /\ phase' = "refused"
        /\ UNCHANGED <<vp, builtFrom>>
     \/ /\ vp' \in Accepted(remoteRaw)
        /\ builtFrom' = remoteRaw
        /\ phase' = "listen"
  /\ UNCHANGED <<source, got, canCancel, subs, remoteRaw, cb, view,
                 kept, overlapped, missed, leaked>>

\* Source.Listen subscribes to one dataId after the other.  A source may
\* start from what the loader has fetched (and push what is newer) or from
\* what it holds at that moment.  After the last one remoteCancel is set.
ListenOne(d) ==
  /\ phase = "listen"
  /\ d \notin subscribed
  /\ subscribed' = subscribed \cup {d}
  /\ lastSeen' \in {[lastSeen EXCEPT ![d] = remoteRaw[d]],
                    [lastSeen EXCEPT ![d] = server[d]]}
  /\ missed' = (missed \/ lastSeen'[d] # remoteRaw[d])
  /\ phase' = IF subscribed' = DataIds THEN "up" ELSE "listen"
  /\ canCancel' = (subscribed' = DataIds)
  /\ UNCHANGED <<source, got, remoteRaw, vp, cb, view, builtFrom, kept,
                 overlapped, leaked>>

\* A subscription fails: Bootstrap logs it and forgets the cancel function;
\* the subscriptions that were made stay.
ListenFails ==
  /\ phase = "listen"
  /\ phase' = "up"
  /\ leaked' = (subscribed # {})
  /\ UNCHANGED <<source, got, canCancel, subs, remoteRaw, vp, cb, view,
                 builtFrom, kept, overlapped, missed>>

-----------------------------------------------------------------------------
(* onRemoteChange.                                                         *)

\* Fault: the copy is made before the new document is put in.
CopiesBefore(d) == remoteRaw

\* remoteRaw[dataId] = raw, and the copy of all of them.
CopiesOf(d) == [remoteRaw EXCEPT ![d] = server[d]]

\* The source calls onRemoteChange with a document that is new to the
\* subscription; the rebuild is refused (and the old settings are kept) or
\* gives new settings.  remoteRaw has the new document in either case.
RemoteChange(c, d) ==
  /\ d \in subscribed
  /\ cb[c].at = "idle"
  /\ lastSeen[d] # server[d]
  /\ lastSeen' = [lastSeen EXCEPT ![d] = server[d]]
  /\ remoteRaw' = [remoteRaw EXCEPT ![d] = server[d]]
  /\ overlapped' = (overlapped \/ \E b \in Callbacks : cb[b].at # "idle")
  /\ \/ /\ MayRefuse(CopiesOf(d))
        /\ kept' = TRUE
        /\ UNCHANGED cb
     \/ \E s \in Accepted(CopiesOf(d)) :
          /\ cb' = [cb EXCEPT ![c] = [NoCallback EXCEPT
                      !.at = "built", !.final = s, !.from = CopiesOf(d)]]
          /\ UNCHANGED kept
  /\ UNCHANGED <<source, boot, subscribed, vp, view, builtFrom, missed, leaked>>

\* old := l.vp.Load()
LoadOld(c) ==
  /\ cb[c].at = "built"
  /\ cb' = [cb EXCEPT ![c].at = "loaded", ![c].old = vp]
  /\ UNCHANGED <<source, boot, subs, remoteRaw, vp, view, ghost>>

\* l.vp.Store(final)
StoreNew(c) ==
  /\ cb[c].at = "loaded"
  /\ vp' = cb[c].final
  /\ builtFrom' = cb[c].from
  /\ kept' = FALSE
  /\ cb' = [cb EXCEPT ![c].at = "stored", ![c].from = NoCallback.from]
  /\ UNCHANGED <<source, boot, subs, remoteRaw, view, overlapped, missed, leaked>>

\* equalScalar compares what fmt prints; a key that is not set differs from
\* every value.
equalScalar(x, y) ==
  x = y \/ (x # Absent /\ y # Absent /\ Shown[x] = Shown[y])

\* Fault: keys that are gone are not looked for.
ChangedOnlyNew(c) ==
  {k \in Keys : cb[c].final[k] # Absent /\ ~equalScalar(cb[c].old[k], cb[c].final[k])}

\* flatten and the two loops of fireDiff: the keys that were added, changed as
\* far as equalScalar can tell, or removed.
Changed(c) == {k \in Keys : ~equalScalar(cb[c].old[k], cb[c].final[k])}

\* fireDiff, up to the copy of the listeners under mu.
FireDiff(c) ==
  /\ cb[c].at = "stored"
  /\ cb' = [cb EXCEPT ![c] = [NoCallback EXCEPT
       !.at = "fire",
       !.todo = {l \in Listeners : /\ view[l] # Absent
                                   /\ Covers[l] \cap Changed(c) \cap Hot # {}}]]
  /\ UNCHANGED <<source, boot, subs, remoteRaw, vp, view, ghost>>

\* safeFire: the listener looks at the configuration.
Fire(c, l) ==
  /\ cb[c].at = "fire"
  /\ l \in cb[c].todo
  /\ view' = [view EXCEPT ![l] = vp]
  /\ cb' = [cb EXCEPT ![c].todo = @ \ {l}]
  /\ UNCHANGED <<source, boot, subs, remoteRaw, vp, ghost>>

\* onRemoteChange returns.
Return(c) ==
  /\ cb[c].at = "fire"
  /\ cb[c].todo = {}
  /\ cb' = [cb EXCEPT ![c] = NoCallback]
  /\ UNCHANGED <<source, boot, subs, remoteRaw, vp, view, ghost>>

-----------------------------------------------------------------------------
(* The application and the source.                                         *)

\* OnChange, and a look at the configuration.
OnChange(l) ==
  /\ phase \in {"up", "closed"}
  /\ view[l] = Absent
  /\ view' = [view EXCEPT ![l] = vp]
  /\ UNCHANGED <<source, boot, subs, remoteRaw, vp, cb, ghost>>

\* Fault: cancelAll ends after its first canceler.
CloseFirst ==
  /\ phase = "up"
  /\ phase' = "closed"
  /\ IF canCancel THEN \E d \in subscribed : subscribed' = subscribed \ {d}
     ELSE UNCHANGED subscribed
  /\ leaked' = leaked
  /\ UNCHANGED <<source, got, canCancel, lastSeen, remoteRaw, vp, cb, view,
                 builtFrom, kept, overlapped, missed>>

\* Close runs the cancelers, each of which may fail, and all of them although
\* some do; callbacks under way go on.  Without remoteCancel it does nothing.
Close ==
  /\ phase = "up"
  /\ phase' = "closed"
  /\ \/ /\ canCancel
        /\ \E failed \in SUBSET subscribed :
             subscribed' = failed /\ leaked' = (leaked \/ failed # {})
     \/ ~canCancel /\ UNCHANGED <<subscribed, leaked>>
  /\ UNCHANGED <<source, got, canCancel, lastSeen, remoteRaw, vp, cb, view,
                 builtFrom, kept, overlapped, missed>>

\* Somebody publishes a document under d.
Publish(d) ==
  /\ edits < MaxEdits
  /\ edits' = edits + 1
  /\ server' \in {[server EXCEPT ![d] = x] : x \in Docs[d] \ {server[d]}}
  /\ UNCHANGED <<local, boot, subs, remoteRaw, vp, cb, view, ghost>>

\* Somebody edits the local file, which every rebuild reads again.  Bootstrap
\* reads it first of all, so that an edit before it has built its settings is
\* the same as one after.
EditLocal ==
  /\ edits < MaxEdits
  /\ phase \notin {"fetch", "build"}
  /\ edits' = edits + 1
  /\ local' \in LocalDocs \ {local}
  /\ UNCHANGED <<server, boot, subs, remoteRaw, vp, cb, view, ghost>>

Callback(c) ==
  \/ \E d \in DataIds : RemoteChange(c, d)
  \/ LoadOld(c)
  \/ StoreNew(c)
  \/ FireDiff(c)
  \/ \E l \in Listeners : Fire(c, l)
  \/ Return(c)

Next ==
  \/ \E d \in DataIds : FetchOne(d) \/ ListenOne(d) \/ Publish(d)
  \/ FetchFails \/ Build \/ ListenFails \/ Close \/ EditLocal
  \/ \E c \in Callbacks : Callback(c)
  \/ \E l \in Listeners : OnChange(l)

Spec == Init /\ [][Next]_vars

-----------------------------------------------------------------------------
(* Properties.                                                             *)

Serving == phase \in {"listen", "up", "closed"}
Quiet == \A c \in Callbacks : cb[c].at = "idle"

\* Whoever reads the configuration reads settings that passed the schema and
\* have no encrypted value left that hasEncrypted can see, however pushes of
\* documents that are invalid, do not parse or cannot be decrypted interleave.
\* hasEncrypted does not see one in a list inside a list, which may be left.
LastGood == Serving => Valid(vp) /\ Ciphers(vp) \subseteq Nested

\* When nothing is under way the settings are those of the documents the
\* source has, or the last rebuild was refused.  This needs that callbacks
\* did not overlap (the later one may then store the older documents) and
\* that a subscription did not begin with a document that was never fetched.
Synced ==
  (/\ phase = "up"
   /\ subscribed = DataIds
   /\ Quiet
   /\ \A d \in DataIds : lastSeen[d] = server[d]
   /\ ~overlapped
   /\ ~missed)
    => builtFrom = server \/ kept

\* When nothing is under way a listener has been called since the last change
\* of a hot key below its prefix that shows when it is printed, also when it
\* was registered in the middle of a callback and over any number of reloads.
\* Overlapping callbacks may both compare with the settings before them and
\* leave a listener with a value that is gone.
ListenersKnow ==
  Quiet /\ ~overlapped =>
    \A l \in Listeners : view[l] # Absent =>
      \A k \in Covers[l] \cap Hot : equalScalar(view[l][k], vp[k])

\* After Close, once the callbacks under way are through, no push changes the
\* configuration any more: every subscription that was made has been ended,
\* one after the other and whatever order they came in.  Excused are a Listen
\* that failed half way, of which remoteCancel knows nothing, and a canceler
\* that failed.
CloseFreezes == [][phase = "closed" /\ Quiet /\ ~leaked => vp' = vp /\ Quiet']_vars

=============================================================================
