------------------------- MODULE ConfigLoaderProofs -------------------------
(***************************************************************************)
(* Theorems about ConfigLoader, for every set of documents, keys, values,  *)
(* listeners and callbacks and for every schema and key ring.              *)
(***************************************************************************)
EXTENDS ConfigLoader, FiniteSetTheorems, WellFoundedInduction, TLAPS

-----------------------------------------------------------------------------
(* Rebuilding.                                                             *)

\* A set of numbers up to n has a greatest element, so Max is one of them.
LEMMA MaxInSet ==
  ASSUME NEW n \in Nat, NEW T \in SUBSET (1..n), T # {}
  PROVE  Max(T) \in T
<1> DEFINE U == {n - i : i \in T}
<1>1. U \subseteq Nat /\ U # {}
  <2>1. \A i \in T : n - i \in Nat
    OBVIOUS
  <2>2. QED
    BY <2>1, Zenon
<1>2. PICK x \in U : \A y \in U : ~(<<y, x>> \in OpToRel(<, Nat))
  BY <1>1, WFMin, NatLessThanWellFounded
<1>3. \A y \in U : ~(y < x)
  BY <1>1, <1>2 DEF OpToRel
<1>4. PICK i \in T : x = n - i
  BY <1>2
<1>5. \A j \in T : i >= j
  BY <1>3, <1>4
<1>6. QED
  BY <1>4, <1>5 DEF Max

\* Merging documents into settings gives settings.
LEMMA MergedType ==
  ASSUME NEW base \in Settings, NEW raws \in Docsets, NEW order \in Orders
  PROVE  Merged(base, raws, order) \in Settings
<1>1. Cardinality(DataIds) \in Nat
  BY DataIdsAssumption, FS_CardinalityType
<1>2. ASSUME NEW k \in Keys
      PROVE  Merged(base, raws, order)[k] \in Values \cup {Absent}
  <2> DEFINE T == Setters(raws, order, k)
  <2>1. T \in SUBSET (1..Cardinality(DataIds))
    BY DEF Setters, Orders
  <2>2. CASE T = {}
    BY <2>2 DEF Merged, Settings
  <2>3. CASE T # {}
    <3>1. Max(T) \in T
      BY <1>1, <2>1, <2>3, MaxInSet
    <3>2. raws[order[Max(T)]] \in Settings
      BY <2>1, <3>1 DEF Setters, Orders, Docsets
    <3>3. Merged(base, raws, order)[k] = raws[order[Max(T)]][k]
      BY <2>3 DEF Merged
    <3>4. QED
      BY <3>2, <3>3 DEF Settings
  <2>4. QED
    BY <2>2, <2>3
<1>3. QED
  BY <1>2 DEF Merged, Settings

Good(s) == Valid(s) /\ Ciphers(s) \subseteq Nested

\* What a rebuild accepts are settings that passed the schema and have no
\* encrypted value left, but in a list inside a list.
LEMMA AcceptedGood ==
  ASSUME local \in LocalDocs, NEW raws \in Docsets, NEW s \in Accepted(raws)
  PROVE  s \in Settings /\ Good(s)
<1>1. PICK m \in Rebuilt(raws) : s = normalize(m) /\ Valid(normalize(m))
  BY DEF Accepted
<1>2. local \in Settings /\ \E order \in Orders : m = Merged(local, raws, order)
  BY <1>1, DocsAssumption DEF Rebuilt
<1>3. m \in Settings
  BY <1>2, MergedType
<1>4. Expanded(m) \in Settings
  BY <1>3, ValuesAssumption DEF Expanded, Settings
<1>5. ASSUME hasEncrypted(Expanded(m))
      PROVE  normalize(m) \in Settings /\ Ciphers(normalize(m)) \subseteq Nested
  <2>1. \A k \in Keys : Decrypted(Expanded(m))[k] \in (Values \cup {Absent}) \ Encrypted
    BY <1>4, ValuesAssumption DEF Decrypted, Settings
  <2>2. normalize(m) = Decrypted(Expanded(m))
    BY <1>5 DEF normalize
  <2>3. Decrypted(Expanded(m)) \in Settings
    BY <2>1 DEF Decrypted, Settings
  <2>4. QED
    BY <2>1, <2>2, <2>3 DEF Ciphers
<1>6. ASSUME ~hasEncrypted(Expanded(m))
      PROVE  normalize(m) \in Settings /\ Ciphers(normalize(m)) \subseteq Nested
  <2>1. normalize(m) = Expanded(m)
    BY <1>6 DEF normalize
  <2>2. QED
    BY <1>4, <1>6, <2>1 DEF hasEncrypted, Ciphers
<1>7. normalize(m) \in Settings /\ Ciphers(normalize(m)) \subseteq Nested
  BY <1>5, <1>6
<1>8. QED
  BY <1>1, <1>7 DEF Good

\* equalScalar is an equivalence.
LEMMA EqualScalarEquivalence ==
  ASSUME NEW x, NEW y, NEW z
  PROVE  /\ equalScalar(x, x)
         /\ equalScalar(x, y) /\ equalScalar(y, z) => equalScalar(x, z)
BY Zenon DEF equalScalar

\* The empty settings are settings.
LEMMA EmptyType == Empty \in Settings /\ [d \in DataIds |-> Empty] \in Docsets
BY DEF Empty, Settings, Docsets

\* So is a free slot for a callback.
LEMMA NoCallbackType == NoCallback \in CallbackStates
BY EmptyType DEF NoCallback, CallbackStates

-----------------------------------------------------------------------------
(* The inductive invariant.                                                *)

\* What a callback is about to store has passed.
FinalsGood ==
  \A c \in Callbacks : cb[c].at \in {"built", "loaded"} => Good(cb[c].final)

\* Before Bootstrap has stored its settings nobody is subscribed or listens.
Early ==
  ~Serving => /\ subscribed = {}
              /\ Quiet
              /\ \A l \in Listeners : view[l] = Absent

\* Without overlap there is one callback at a time.
Alone ==
  ~overlapped =>
    \A b, c \in Callbacks : cb[b].at # "idle" /\ cb[c].at # "idle" => b = c

\* Then a callback has copied the documents as they still are, and stands
\* between the settings and the documents they do not follow yet.
Pending(c) == cb[c].at \in {"built", "loaded"}
Current ==
  ~overlapped =>
    /\ \A c \in Callbacks : Pending(c) => cb[c].from = remoteRaw
    /\ Serving => \/ builtFrom = remoteRaw
                  \/ kept
                  \/ \E c \in Callbacks : Pending(c)

\* A subscription knows the document the loader has.
SeenIsRaw == ~missed => \A d \in subscribed : lastSeen[d] = remoteRaw[d]

\* A listener that is behind is about to be called.
Owed(l, k) ==
  \E c \in Callbacks :
    \/ cb[c].at = "stored" /\ ~equalScalar(cb[c].old[k], cb[c].final[k])
    \/ cb[c].at = "fire" /\ l \in cb[c].todo
Informed ==
  ~overlapped =>
    /\ \A c \in Callbacks : cb[c].at = "loaded" => cb[c].old = vp
    /\ \A l \in Listeners : view[l] # Absent =>
         \A k \in Covers[l] \cap Hot : equalScalar(view[l][k], vp[k]) \/ Owed(l, k)

\* Before Close a subscription without remoteCancel is one of a Listen that
\* failed or is under way; Close has ended the others.
Ended == /\ phase = "up" /\ ~canCancel /\ ~leaked => subscribed = {}
         /\ phase = "closed" /\ ~leaked => subscribed = {}

Inv == /\ TypeOK /\ FinalsGood /\ LastGood /\ Early /\ Alone
       /\ Current /\ SeenIsRaw /\ Informed /\ Ended

\* The initial state satisfies the invariant.
LEMMA InitInv == Init => Inv
<1> SUFFICES ASSUME Init PROVE Inv
  OBVIOUS
<1>1. TypeOK
  <2>2. server \in Docsets
    BY DocsAssumption DEF Init, Docsets
  <2>3. cb \in [Callbacks -> CallbackStates]
    BY NoCallbackType DEF Init
  <2>4. vp \in Settings /\ lastSeen \in Docsets /\ remoteRaw \in Docsets /\ builtFrom \in Docsets
    BY EmptyType DEF Init
  <2>5. edits \in 0..MaxEdits
    BY BoundAssumption DEF Init
  <2>6. phase = "fetch" /\ local \in LocalDocs /\ got \in SUBSET DataIds /\ subscribed \in SUBSET DataIds
        /\ view \in [Listeners -> Settings \cup {Absent}]
    BY DEF Init
  <2>7. canCancel \in BOOLEAN /\ kept \in BOOLEAN /\ overlapped \in BOOLEAN
        /\ missed \in BOOLEAN /\ leaked \in BOOLEAN
    BY Zenon DEF Init
  <2>8. QED
    BY <2>2, <2>3, <2>4, <2>5, <2>6, <2>7 DEF TypeOK
<1>2. phase = "fetch" /\ subscribed = {} /\ \A c \in Callbacks : cb[c].at = "idle"
  BY DEF Init, NoCallback
<1>3. \A l \in Listeners : view[l] = Absent
  BY DEF Init
<1>4. QED
  BY <1>1, <1>2, <1>3 DEF Inv, FinalsGood, LastGood, Early, Alone, Current,
     Pending, SeenIsRaw, Informed, Ended, Serving, Quiet

\* Fetch reads a document.
LEMMA FetchOneInv ==
  ASSUME Inv, NEW d \in DataIds, FetchOne(d)
  PROVE  Inv'
<1>1. TypeOK'
  BY DEF FetchOne, Inv, TypeOK, Docsets, source, subs, ghost
<1>2. FinalsGood'
  BY DEF FetchOne, Inv, FinalsGood
<1>3. LastGood'
  BY DEF FetchOne, Inv, LastGood, Serving, Good
<1>4. Early'
  BY DEF FetchOne, Inv, Early, Serving, Quiet, subs
<1>5. Alone'
  BY DEF FetchOne, Inv, Alone, ghost
<1>6. Current'
  BY DEF FetchOne, Inv, Early, Quiet, Current, Pending, Serving
<1>7. SeenIsRaw'
  BY DEF FetchOne, Inv, Early, Serving, SeenIsRaw, subs
<1>8. Informed'
  BY DEF FetchOne, Inv, Informed, Owed, ghost
<1>9. Ended'
  BY DEF FetchOne, Inv, Ended
<1>10. QED
  BY <1>1, <1>2, <1>3, <1>4, <1>5, <1>6, <1>7, <1>8, <1>9 DEF Inv

\* Fetch fails.
LEMMA FetchFailsInv ==
  ASSUME Inv, FetchFails
  PROVE  Inv'
<1>1. TypeOK'
  BY EmptyType DEF FetchFails, Inv, TypeOK, source, subs, ghost
<1>2. FinalsGood'
  BY DEF FetchFails, Inv, FinalsGood
<1>3. LastGood'
  BY DEF FetchFails, Inv, LastGood, Serving, Good
<1>4. Early'
  BY DEF FetchFails, Inv, Early, Serving, Quiet, subs
<1>5. Alone'
  BY DEF FetchFails, Inv, Alone, ghost
<1>6. Current'
  BY DEF FetchFails, Inv, Early, Quiet, Current, Pending, Serving
<1>7. SeenIsRaw'
  BY DEF FetchFails, Inv, Early, Serving, SeenIsRaw, subs
<1>8. Informed'
  BY DEF FetchFails, Inv, Informed, Owed, ghost
<1>9. Ended'
  BY DEF FetchFails, Inv, Ended
<1>10. QED
  BY <1>1, <1>2, <1>3, <1>4, <1>5, <1>6, <1>7, <1>8, <1>9 DEF Inv

\* Bootstrap stores what it has built, or refuses.
LEMMA BuildInv ==
  ASSUME Inv, Build
  PROVE  Inv'
<1>1. TypeOK'
  <2>1. vp' \in Settings /\ builtFrom' \in Docsets
    BY AcceptedGood DEF Build, Inv, TypeOK
  <2>2. QED
    BY <2>1 DEF Build, Inv, TypeOK, source, subs
<1>2. FinalsGood'
  BY DEF Build, Inv, FinalsGood
<1>3. LastGood'
  <2>1. phase' = "refused" \/ (Valid(vp') /\ Ciphers(vp') \subseteq Nested)
    BY AcceptedGood DEF Build, Inv, TypeOK, Good
  <2>2. QED
    BY <2>1 DEF LastGood, Serving, Valid, Ciphers
<1>4. Early'
  BY DEF Build, Inv, Early, Serving, Quiet, subs
<1>5. Alone'
  BY DEF Build, Inv, Alone
<1>6. Current'
  BY DEF Build, Inv, Current, Pending, Serving
<1>7. SeenIsRaw'
  BY DEF Build, Inv, SeenIsRaw, subs
<1>8. Informed'
  BY DEF Build, Inv, Early, Quiet, Informed, Serving
<1>9. Ended'
  BY DEF Build, Inv, Ended
<1>10. QED
  BY <1>1, <1>2, <1>3, <1>4, <1>5, <1>6, <1>7, <1>8, <1>9 DEF Inv

\* A subscription begins.
LEMMA ListenOneInv ==
  ASSUME Inv, NEW d \in DataIds, ListenOne(d)
  PROVE  Inv'
<1>1. TypeOK'
  BY DEF ListenOne, Inv, TypeOK, Docsets, source
<1>2. FinalsGood'
  BY DEF ListenOne, Inv, FinalsGood
<1>3. LastGood'
  BY DEF ListenOne, Inv, LastGood, Serving, Good
<1>4. Early'
  BY DEF ListenOne, Inv, Early, Serving
<1>5. Alone'
  BY DEF ListenOne, Inv, Alone
<1>6. Current'
  BY DEF ListenOne, Inv, Current, Pending, Serving
<1>7. SeenIsRaw'
  <2> SUFFICES ASSUME ~missed', NEW e \in subscribed'
               PROVE  lastSeen'[e] = remoteRaw'[e]
    BY DEF SeenIsRaw
  <2>1. ~missed /\ lastSeen'[d] = remoteRaw[d] /\ remoteRaw' = remoteRaw
    BY DEF ListenOne
  <2>2. e # d => e \in subscribed /\ lastSeen'[e] = lastSeen[e]
    BY DEF ListenOne, Inv, TypeOK, Docsets
  <2>3. QED
    BY <2>1, <2>2 DEF Inv, SeenIsRaw
<1>8. Informed'
  BY DEF ListenOne, Inv, Informed, Owed
<1>9. Ended'
  BY DEF ListenOne, Inv, Ended
<1>10. QED
  BY <1>1, <1>2, <1>3, <1>4, <1>5, <1>6, <1>7, <1>8, <1>9 DEF Inv

\* A subscription fails.
LEMMA ListenFailsInv ==
  ASSUME Inv, ListenFails
  PROVE  Inv'
<1>1. TypeOK'
  BY DEF ListenFails, Inv, TypeOK, Docsets, source, subs
<1>2. FinalsGood'
  BY DEF ListenFails, Inv, FinalsGood
<1>3. LastGood'
  BY DEF ListenFails, Inv, LastGood, Serving, Good
<1>4. Early'
  BY DEF ListenFails, Inv, Early, Serving
<1>5. Alone'
  BY DEF ListenFails, Inv, Alone
<1>6. Current'
  BY DEF ListenFails, Inv, Current, Pending, Serving
<1>7. SeenIsRaw'
  BY DEF ListenFails, Inv, SeenIsRaw, subs
<1>8. Informed'
  BY DEF ListenFails, Inv, Informed, Owed
<1>9. Ended'
  <2>1. ~leaked' => subscribed' = {}
    BY Zenon DEF ListenFails, subs
  <2>2. QED
    BY <2>1 DEF Ended
<1>10. QED
  BY <1>1, <1>2, <1>3, <1>4, <1>5, <1>6, <1>7, <1>8, <1>9 DEF Inv

\* A callback copies the documents and rebuilds.
LEMMA RemoteChangeInv ==
  ASSUME Inv, NEW c \in Callbacks, NEW d \in DataIds, RemoteChange(c, d)
  PROVE  Inv'
<1>1. /\ CopiesOf(d) \in Docsets
      /\ remoteRaw' = CopiesOf(d)
      /\ lastSeen' \in Docsets
      /\ \A e \in DataIds : lastSeen[e] = remoteRaw[e] => lastSeen'[e] = remoteRaw'[e]
  BY DEF RemoteChange, CopiesOf, Inv, TypeOK, Docsets
<1>2. UNCHANGED <<source, boot, subscribed, vp, view, builtFrom, missed, leaked>>
  BY DEF RemoteChange
<1>3. Serving
  BY DEF RemoteChange, Inv, Early
<1>4. ~overlapped' => ~overlapped /\ \A b \in Callbacks : cb[b].at = "idle"
  BY DEF RemoteChange
<1>5. SeenIsRaw'
  <2>1. subscribed' \subseteq DataIds
    BY <1>2 DEF Inv, TypeOK
  <2>2. QED
    BY <1>1, <1>2, <2>1 DEF Inv, SeenIsRaw
<1>6. LastGood' /\ Early' /\ Ended'
  BY <1>2, <1>3 DEF Inv, LastGood, Early, Ended, Serving, boot
<1>7. overlapped' \in BOOLEAN
  BY DEF RemoteChange
<1>8. CASE kept' = TRUE /\ cb' = cb
  <2>1. TypeOK'
    BY <1>1, <1>2, <1>7, <1>8 DEF Inv, TypeOK, source, boot
  <2>2. FinalsGood' /\ Alone' /\ Current' /\ Informed'
    BY <1>2, <1>4, <1>8 DEF Inv, FinalsGood, Alone, Current, Pending, Informed, Owed
  <2>3. QED
    BY <1>5, <1>6, <2>1, <2>2 DEF Inv
<1>9. CASE kept' = kept /\ \E s \in Accepted(CopiesOf(d)) :
            cb' = [cb EXCEPT ![c] = [NoCallback EXCEPT
                     !.at = "built", !.final = s, !.from = CopiesOf(d)]]
  <2>1. PICK s \in Accepted(CopiesOf(d)) :
          cb' = [cb EXCEPT ![c] = [NoCallback EXCEPT
                   !.at = "built", !.final = s, !.from = CopiesOf(d)]]
    BY <1>9
  <2>2. s \in Settings /\ Good(s)
    BY <1>1, AcceptedGood DEF Inv, TypeOK
  <2>3. /\ cb'[c] \in CallbackStates
        /\ cb'[c].at = "built" /\ cb'[c].final = s /\ cb'[c].from = CopiesOf(d)
        /\ \A b \in Callbacks : b # c => cb'[b] = cb[b]
        /\ cb' \in [Callbacks -> CallbackStates]
    BY <1>1, <2>1, <2>2, NoCallbackType DEF Inv, TypeOK, CallbackStates
  <2>4. TypeOK'
    BY <1>1, <1>2, <1>7, <1>9, <2>3 DEF Inv, TypeOK, source, boot
  <2>5. FinalsGood'
    BY <2>2, <2>3 DEF Inv, FinalsGood, Good, Valid, Ciphers
  <2>6. Alone'
    BY <1>4, <2>3 DEF Alone
  <2>7. Current'
    BY <1>1, <1>4, <2>3 DEF Current, Pending
  <2>8. Informed'
    BY <1>2, <1>4, <2>3 DEF Inv, Informed, Owed
  <2>9. QED
    BY <1>5, <1>6, <2>4, <2>5, <2>6, <2>7, <2>8 DEF Inv
<1>10. QED
  BY <1>8, <1>9 DEF RemoteChange

\* A callback loads the old settings.
LEMMA LoadOldInv ==
  ASSUME Inv, NEW c \in Callbacks, LoadOld(c)
  PROVE  Inv'
<1>1. TypeOK'
  <2>1. cb' \in [Callbacks -> CallbackStates]
    BY DEF LoadOld, Inv, TypeOK, CallbackStates
  <2>2. QED
    BY <2>1 DEF LoadOld, Inv, TypeOK, source, boot, subs, ghost
<1>2. FinalsGood'
  BY DEF LoadOld, Inv, TypeOK, FinalsGood
<1>3. LastGood'
  BY DEF LoadOld, Inv, LastGood, Serving, Good, boot
<1>4. Early'
  BY DEF LoadOld, Inv, Early, Serving, Quiet, boot
<1>5. Alone'
  BY DEF LoadOld, Inv, TypeOK, Alone, ghost
<1>6. Current'
  BY DEF LoadOld, Inv, TypeOK, Current, Pending, ghost
<1>7. SeenIsRaw'
  BY DEF LoadOld, Inv, SeenIsRaw, subs, ghost
<1>8. Informed'
  BY DEF LoadOld, Inv, TypeOK, Informed, Owed, ghost
<1>9. Ended'
  BY DEF LoadOld, Inv, Ended, boot, subs, ghost
<1>10. QED
  BY <1>1, <1>2, <1>3, <1>4, <1>5, <1>6, <1>7, <1>8, <1>9 DEF Inv

\* A callback stores the new settings.
LEMMA StoreNewInv ==
  ASSUME Inv, NEW c \in Callbacks, StoreNew(c)
  PROVE  Inv'
<1>1. TypeOK'
  <2>1. NoCallback.from \in Docsets
    BY EmptyType DEF NoCallback
  <2>2. cb' \in [Callbacks -> CallbackStates]
    BY <2>1 DEF StoreNew, Inv, TypeOK, CallbackStates
  <2>3. vp' \in Settings /\ builtFrom' \in Docsets
    BY DEF StoreNew, Inv, TypeOK, CallbackStates
  <2>4. QED
    BY <2>2, <2>3 DEF StoreNew, Inv, TypeOK, source, boot, subs
<1>2. FinalsGood'
  BY DEF StoreNew, Inv, TypeOK, FinalsGood
<1>3. LastGood'
  BY DEF StoreNew, Inv, FinalsGood, LastGood, Good, Valid, Ciphers
<1>4. Early'
  BY DEF StoreNew, Inv, Early, Serving, Quiet, boot
<1>5. Alone'
  BY DEF StoreNew, Inv, TypeOK, Alone
<1>6. Current'
  BY DEF StoreNew, Inv, TypeOK, Current, Pending
<1>7. SeenIsRaw'
  BY DEF StoreNew, Inv, SeenIsRaw, subs
<1>8. Informed'
  <2> SUFFICES ASSUME ~overlapped
               PROVE  /\ \A b \in Callbacks : cb'[b].at = "loaded" => cb'[b].old = vp'
                      /\ \A l \in Listeners : view[l] # Absent =>
                           \A k \in Covers[l] \cap Hot : equalScalar(view[l][k], vp'[k]) \/ Owed(l, k)'
    BY DEF StoreNew, Informed
  <2>1. /\ cb'[c].at = "stored" /\ cb'[c].old = cb[c].old /\ cb'[c].final = vp'
        /\ \A b \in Callbacks : b # c => cb'[b] = cb[b] /\ cb[b].at = "idle"
    BY DEF StoreNew, Inv, TypeOK, CallbackStates, Alone
  <2>2. cb[c].old = vp
    BY DEF StoreNew, Inv, Informed
  <2>3. \A l \in Listeners, k \in Keys : ~Owed(l, k)
    <3>1. \A b \in Callbacks : cb[b].at \in {"idle", "loaded"}
      BY <2>1 DEF StoreNew
    <3>2. QED
      BY <3>1 DEF Owed
  <2>4. \A l \in Listeners : \A k \in Covers[l] \cap Hot : k \in Keys
    BY ListenersAssumption
  <2>5. ASSUME NEW l \in Listeners, view[l] # Absent, NEW k \in Covers[l] \cap Hot
        PROVE  equalScalar(view[l][k], vp'[k]) \/ Owed(l, k)'
    <3>1. equalScalar(view[l][k], cb[c].old[k])
      BY <2>2, <2>3, <2>4, <2>5 DEF Inv, Informed
    <3>2. CASE equalScalar(cb[c].old[k], vp'[k])
      BY <3>1, <3>2, EqualScalarEquivalence
    <3>3. CASE ~equalScalar(cb[c].old[k], vp'[k])
      BY <2>1, <3>3 DEF Owed
    <3>4. QED
      BY <3>2, <3>3
  <2>6. QED
    BY <2>1, <2>5
<1>9. Ended'
  BY DEF StoreNew, Inv, Ended, boot, subs
<1>10. QED
  BY <1>1, <1>2, <1>3, <1>4, <1>5, <1>6, <1>7, <1>8, <1>9 DEF Inv

\* A callback finds out whom to call.
LEMMA FireDiffInv ==
  ASSUME Inv, NEW c \in Callbacks, FireDiff(c)
  PROVE  Inv'
<1>1. TypeOK'
  <2>1. cb' \in [Callbacks -> CallbackStates]
    BY NoCallbackType DEF FireDiff, Inv, TypeOK, CallbackStates
  <2>2. QED
    BY <2>1 DEF FireDiff, Inv, TypeOK, source, boot, subs, ghost
<1>2. FinalsGood'
  BY DEF FireDiff, Inv, FinalsGood
<1>3. LastGood'
  BY DEF FireDiff, Inv, LastGood, Serving, Good, boot
<1>4. Early'
  BY DEF FireDiff, Inv, Early, Serving, Quiet, boot
<1>5. Alone'
  BY DEF FireDiff, Inv, Alone, ghost
<1>6. Current'
  BY DEF FireDiff, Inv, Current, Pending, Serving, boot, ghost
<1>7. SeenIsRaw'
  BY DEF FireDiff, Inv, SeenIsRaw, subs, ghost
<1>8. Informed'
  <2>1. /\ cb'[c].at = "fire"
        /\ cb'[c].todo = {l \in Listeners :
              view[l] # Absent /\ Covers[l] \cap Changed(c) \cap Hot # {}}
        /\ \A b \in Callbacks : b # c => cb'[b] = cb[b]
    BY DEF FireDiff, NoCallback, Inv, TypeOK
  <2>2. ASSUME NEW l \in Listeners, view[l] # Absent, NEW k \in Covers[l] \cap Hot,
               Owed(l, k)
        PROVE  Owed(l, k)'
    <3>1. PICK b \in Callbacks :
            \/ cb[b].at = "stored" /\ ~equalScalar(cb[b].old[k], cb[b].final[k])
            \/ cb[b].at = "fire" /\ l \in cb[b].todo
      BY <2>2 DEF Owed
    <3>2. CASE b # c
      BY <2>1, <3>1, <3>2 DEF Owed
    <3>3. CASE b = c
      <4>1. k \in Keys
        BY ListenersAssumption
      <4>2. k \in Changed(c)
        BY <3>1, <3>3, <4>1 DEF FireDiff, Changed
      <4>3. l \in cb'[c].todo
        BY <2>1, <2>2, <4>2
      <4>4. QED
        BY <2>1, <4>3 DEF Owed
    <3>4. QED
      BY <3>2, <3>3
  <2>3. QED
    BY <2>1, <2>2 DEF FireDiff, Inv, Informed, ghost
<1>9. Ended'
  BY DEF FireDiff, Inv, Ended, boot, subs, ghost
<1>10. QED
  BY <1>1, <1>2, <1>3, <1>4, <1>5, <1>6, <1>7, <1>8, <1>9 DEF Inv

\* A listener is called.
LEMMA FireInv ==
  ASSUME Inv, NEW c \in Callbacks, NEW l \in Listeners, Fire(c, l)
  PROVE  Inv'
<1>1. TypeOK'
  <2>1. cb' \in [Callbacks -> CallbackStates]
    BY DEF Fire, Inv, TypeOK, CallbackStates
  <2>2. view' \in [Listeners -> Settings \cup {Absent}]
    BY DEF Fire, Inv, TypeOK
  <2>3. QED
    BY <2>1, <2>2 DEF Fire, Inv, TypeOK, source, boot, subs, ghost
<1>2. FinalsGood'
  BY DEF Fire, Inv, FinalsGood
<1>3. LastGood'
  BY DEF Fire, Inv, LastGood, Serving, Good, boot
<1>4. Early'
  BY DEF Fire, Inv, Early, Serving, Quiet, boot
<1>5. Alone'
  BY DEF Fire, Inv, Alone, ghost
<1>6. Current'
  BY DEF Fire, Inv, Current, Pending, Serving, boot, ghost
<1>7. SeenIsRaw'
  BY DEF Fire, Inv, SeenIsRaw, subs, ghost
<1>8. Informed'
  <2>1. /\ UNCHANGED <<vp, overlapped>>
        /\ \A b \in Callbacks : /\ cb'[b].at = cb[b].at /\ cb'[b].old = cb[b].old
                                /\ cb'[b].final = cb[b].final
                                /\ \A h \in Listeners : h # l /\ h \in cb[b].todo => h \in cb'[b].todo
    BY DEF Fire, Inv, TypeOK, CallbackStates, ghost
  <2>2. view'[l] = vp /\ \A h \in Listeners : h # l => view'[h] = view[h]
    BY DEF Fire, Inv, TypeOK
  <2>3. ASSUME NEW h \in Listeners, h # l, NEW k, Owed(h, k)
        PROVE  Owed(h, k)'
    BY <2>1, <2>3 DEF Owed
  <2>4. \A k : equalScalar(view'[l][k], vp'[k])
    BY <2>1, <2>2, EqualScalarEquivalence
  <2>5. ASSUME ~overlapped', NEW h \in Listeners, view'[h] # Absent, NEW k \in Covers[h] \cap Hot
        PROVE  equalScalar(view'[h][k], vp'[k]) \/ Owed(h, k)'
    <3>1. CASE h = l
      BY <2>4, <3>1
    <3>2. CASE h # l
      <4>1. equalScalar(view[h][k], vp[k]) \/ Owed(h, k)
        BY <2>1, <2>2, <2>5, <3>2 DEF Inv, Informed
      <4>2. QED
        BY <2>1, <2>2, <2>3, <3>2, <4>1
    <3>3. QED
      BY <3>1, <3>2
  <2>6. QED
    BY <2>1, <2>5 DEF Inv, Informed
<1>9. Ended'
  BY DEF Fire, Inv, Ended, boot, subs, ghost
<1>10. QED
  BY <1>1, <1>2, <1>3, <1>4, <1>5, <1>6, <1>7, <1>8, <1>9 DEF Inv

\* A callback returns.
LEMMA ReturnInv ==
  ASSUME Inv, NEW c \in Callbacks, Return(c)
  PROVE  Inv'
<1>0. cb'[c].at = "idle" /\ \A b \in Callbacks : b # c => cb'[b] = cb[b]
  BY DEF Return, NoCallback, Inv, TypeOK
<1>1. TypeOK'
  BY NoCallbackType DEF Return, Inv, TypeOK, source, boot, subs, ghost
<1>2. FinalsGood'
  BY <1>0 DEF Return, Inv, FinalsGood
<1>3. LastGood'
  BY DEF Return, Inv, LastGood, Serving, Good, boot
<1>4. Early'
  BY DEF Return, Inv, Early, Serving, Quiet, boot
<1>5. Alone'
  BY DEF Return, Inv, Alone, ghost
<1>6. Current'
  BY <1>0 DEF Return, Inv, Current, Pending, Serving, boot, ghost
<1>7. SeenIsRaw'
  BY DEF Return, Inv, SeenIsRaw, subs, ghost
<1>8. Informed'
  BY <1>0 DEF Return, Inv, Informed, Owed, ghost
<1>9. Ended'
  BY DEF Return, Inv, Ended, boot, subs, ghost
<1>10. QED
  BY <1>1, <1>2, <1>3, <1>4, <1>5, <1>6, <1>7, <1>8, <1>9 DEF Inv

\* A listener is registered.
LEMMA OnChangeInv ==
  ASSUME Inv, NEW l \in Listeners, OnChange(l)
  PROVE  Inv'
<1>1. TypeOK'
  BY DEF OnChange, Inv, TypeOK, Docsets, source, boot, subs, ghost
<1>2. FinalsGood'
  BY DEF OnChange, Inv, FinalsGood
<1>3. LastGood'
  BY DEF OnChange, Inv, LastGood, Serving, Good
<1>4. Early'
  BY DEF OnChange, Inv, Early, Serving, boot
<1>5. Alone'
  BY DEF OnChange, Inv, Alone, ghost
<1>6. Current'
  BY DEF OnChange, Inv, Current, Pending, Serving, ghost
<1>7. SeenIsRaw'
  BY DEF OnChange, Inv, SeenIsRaw, subs, ghost
<1>8. Informed'
  <2>1. UNCHANGED <<vp, cb, overlapped>>
    BY DEF OnChange, ghost
  <2>2. view'[l] = vp /\ \A h \in Listeners : h # l => view'[h] = view[h]
    BY DEF OnChange, Inv, TypeOK
  <2>3. \A h, k : Owed(h, k)' <=> Owed(h, k)
    BY <2>1 DEF Owed
  <2>4. ASSUME ~overlapped', NEW h \in Listeners, view'[h] # Absent, NEW k \in Covers[h] \cap Hot
        PROVE  equalScalar(view'[h][k], vp'[k]) \/ Owed(h, k)'
    <3>1. CASE h = l
      BY <2>1, <2>2, <3>1, EqualScalarEquivalence
    <3>2. CASE h # l
      BY <2>1, <2>2, <2>3, <2>4, <3>2 DEF Inv, Informed
    <3>3. QED
      BY <3>1, <3>2
  <2>5. QED
    BY <2>1, <2>4 DEF Inv, Informed
<1>9. Ended'
  BY DEF OnChange, Inv, Ended, boot, subs, ghost
<1>10. QED
  BY <1>1, <1>2, <1>3, <1>4, <1>5, <1>6, <1>7, <1>8, <1>9 DEF Inv

\* Close.
LEMMA CloseInv ==
  ASSUME Inv, Close
  PROVE  Inv'
<1>1. TypeOK'
  BY DEF Close, Inv, TypeOK, Docsets, source
<1>2. FinalsGood'
  BY DEF Close, Inv, FinalsGood
<1>3. LastGood'
  BY DEF Close, Inv, LastGood, Serving, Good
<1>4. Early'
  BY DEF Close, Inv, Early, Serving
<1>5. Alone'
  BY DEF Close, Inv, Alone
<1>6. Current'
  BY DEF Close, Inv, Current, Pending, Serving
<1>7. SeenIsRaw'
  BY DEF Close, Inv, SeenIsRaw
<1>8. Informed'
  BY DEF Close, Inv, Informed, Owed
<1>9. Ended'
  BY DEF Close, Inv, Ended
<1>10. QED
  BY <1>1, <1>2, <1>3, <1>4, <1>5, <1>6, <1>7, <1>8, <1>9 DEF Inv

\* Steps of the source, and steps that change nothing.
LEMMA EnvironmentInv ==
  ASSUME Inv,
         (\E d \in DataIds : Publish(d)) \/ EditLocal \/ UNCHANGED vars
  PROVE  Inv'
<1>1. UNCHANGED <<boot, subs, remoteRaw, vp, cb, view, ghost>>
  BY DEF Publish, EditLocal, vars
<1>2. local' \in LocalDocs /\ server' \in Docsets /\ edits' \in 0..MaxEdits
  <2>1. ASSUME NEW d \in DataIds, Publish(d)
        PROVE  local' \in LocalDocs /\ server' \in Docsets /\ edits' \in 0..MaxEdits
    BY <2>1, DocsAssumption, BoundAssumption DEF Publish, Inv, TypeOK, Docsets
  <2>2. CASE EditLocal
    BY <2>2, BoundAssumption DEF EditLocal, Inv, TypeOK
  <2>3. CASE UNCHANGED vars
    BY <2>3 DEF vars, source, Inv, TypeOK
  <2>4. QED
    BY <2>1, <2>2, <2>3
<1>3. TypeOK'
  BY <1>1, <1>2 DEF Inv, TypeOK, boot, subs, ghost
<1>4. FinalsGood' /\ LastGood' /\ Early' /\ Alone'
  BY <1>1 DEF Inv, FinalsGood, LastGood, Early, Alone, Serving, Quiet, boot, subs, ghost
<1>5. Current' /\ SeenIsRaw' /\ Informed' /\ Ended'
  BY <1>1 DEF Inv, Current, Pending, SeenIsRaw, Informed, Owed, Ended, Serving,
     boot, subs, ghost
<1>6. QED
  BY <1>3, <1>4, <1>5 DEF Inv

\* Every step keeps the invariant.
LEMMA StepInv ==
  ASSUME Inv, [Next]_vars
  PROVE  Inv'
<1>1. ASSUME NEW d \in DataIds, FetchOne(d) \/ ListenOne(d) \/ Publish(d)
      PROVE  Inv'
  BY <1>1, FetchOneInv, ListenOneInv, EnvironmentInv
<1>2. CASE FetchFails \/ Build \/ ListenFails \/ Close \/ EditLocal
  BY <1>2, FetchFailsInv, BuildInv, ListenFailsInv, CloseInv, EnvironmentInv
<1>3. ASSUME NEW c \in Callbacks, Callback(c)
      PROVE  Inv'
  BY <1>3, RemoteChangeInv, LoadOldInv, StoreNewInv, FireDiffInv, FireInv, ReturnInv
     DEF Callback
<1>4. ASSUME NEW l \in Listeners, OnChange(l)
      PROVE  Inv'
  BY <1>4, OnChangeInv
<1>5. CASE UNCHANGED vars
  BY <1>5, EnvironmentInv
<1>6. QED
  BY <1>1, <1>2, <1>3, <1>4, <1>5 DEF Next

-----------------------------------------------------------------------------
(* The theorems.                                                           *)

\* The invariant holds in every reachable state.
THEOREM Invariance == Spec => []Inv
<1>1. Init => Inv
  BY InitInv
<1>2. Inv /\ [Next]_vars => Inv'
  BY StepInv
<1>3. QED
  BY <1>1, <1>2, PTL DEF Spec

\* Readers of the Loader see settings that passed normalize and the schema.
THEOREM AlwaysGood == Spec => []LastGood
<1>1. Inv => LastGood
  BY DEF Inv
<1>2. QED
  BY <1>1, Invariance, PTL

\* Without overlap and without a gap the settings follow the source
\* (onRemoteChange), or the last rebuild was refused.
THEOREM FollowsSource == Spec => []Synced
<1>1. Inv => Synced
  <2> SUFFICES ASSUME Inv, phase = "up", subscribed = DataIds, Quiet,
                      \A d \in DataIds : lastSeen[d] = server[d],
                      ~overlapped, ~missed
               PROVE  builtFrom = server \/ kept
    BY DEF Synced
  <2>1. builtFrom = remoteRaw \/ kept
    BY DEF Inv, Current, Pending, Quiet, Serving
  <2>2. remoteRaw = server
    <3>1. \A d \in DataIds : remoteRaw[d] = server[d]
      BY DEF Inv, SeenIsRaw
    <3>2. QED
      BY <3>1 DEF Inv, TypeOK, Docsets
  <2>3. QED
    BY <2>1, <2>2
<1>2. QED
  BY <1>1, Invariance, PTL

\* Without overlap every listener is called for every change of its hot keys
\* (fireDiff), also one that registers meanwhile.
THEOREM ListenersInformed == Spec => []ListenersKnow
<1>1. Inv => ListenersKnow
  BY DEF Inv, ListenersKnow, Informed, Owed, Quiet
<1>2. QED
  BY <1>1, Invariance, PTL

\* After Close nothing changes any more, unless a subscription was left.
THEOREM Frozen == Spec => CloseFreezes
<1>1. ASSUME Inv, [Next]_vars, phase = "closed", Quiet, ~leaked
      PROVE  vp' = vp /\ Quiet'
  <2>1. subscribed = {}
    BY <1>1 DEF Inv, Ended
  <2>2. ASSUME NEW c \in Callbacks, Callback(c)
        PROVE  FALSE
    BY <1>1, <2>1, <2>2 DEF Callback, RemoteChange, LoadOld, StoreNew, FireDiff,
       Fire, Return, Quiet
  <2>3. UNCHANGED <<vp, cb>>
    BY <1>1, <2>2 DEF Next, FetchOne, ListenOne, Publish, FetchFails, Build,
       ListenFails, Close, EditLocal, OnChange, vars
  <2>4. QED
    BY <1>1, <2>3 DEF Quiet
<1>2. Inv /\ [Next]_vars => [phase = "closed" /\ Quiet /\ ~leaked => vp' = vp /\ Quiet']_vars
  BY <1>1
<1>3. QED
  BY <1>2, Invariance, PTL DEF Spec, CloseFreezes

=============================================================================
