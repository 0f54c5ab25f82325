--------------------------- MODULE StorageProofs ---------------------------
(***************************************************************************)
(* Proofs about what is kept twice.  Share: the server has what the session*)
(* has.  Revert: unless calls race, the files are what the messages that   *)
(* are not hidden made of them.  Identifier: ids sort as they were drawn,  *)
(* and cleanup takes old files only.                                       *)
(***************************************************************************)
EXTENDS Share, Revert, Identifier, FiniteSetTheorems, TLAPS

-----------------------------------------------------------------------------
(* Share: for any keys, calls, versions and failures.                      *)

FullRecord == [at : {"none", "starts", "read"}, data : Data]
SharingStates == {"new", "posted", "stored", "done", "failed"}
RemovingStates == {"new", "deleting", "deleted", "removed", "done", "failed"}

\* The types, with the full syncs as a function.
DataShapes ==
    /\ truth \in [Keys -> 0 .. MaxVersion]
    /\ heard \in [Keys -> 0 .. MaxVersion]
    /\ unsent \in Data
    /\ delayed \in Nat
    /\ \A m \in posts : m.to \in Links /\ m.data \in Data \ {Empty}
    /\ fulls \in [Shares -> FullRecord]
    /\ content \in [Links -> [Keys -> 0 .. MaxVersion]]
    /\ missed \subseteq Keys
    /\ removed \subseteq Removable

CallShapes ==
    /\ row \in Links \cup {NoShare}
    /\ known \in Links \cup {NoShare, Unknown}
    /\ published \subseteq Links
    /\ url \in Links \cup {NoShare}
    /\ sharing \in [Shares -> SharingStates]
    /\ removing \in [Removers -> RemovingStates]
    /\ victim \in [Removers -> Links \cup {NoShare}]
    /\ deleted \in BOOLEAN
    /\ stale \subseteq Unshares
    /\ failures \in 0 .. MaxFailures
    /\ overlapped \in BOOLEAN
    /\ stranded \in BOOLEAN

\* No version is newer than the one in the database.
NoneIsNewer ==
    /\ \A k \in Keys : heard[k] <= truth[k]
    /\ \A s \in Links : \A k \in Keys : content[s][k] <= truth[k]
    /\ \A k \in DOMAIN unsent : unsent[k] <= truth[k]
    /\ \A m \in posts : \A k \in DOMAIN m.data : m.data[k] <= truth[k]
    /\ \A s \in Shares : \A k \in DOMAIN fulls[s].data : fulls[s].data[k] <= truth[k]
    /\ \A s \in Shares : fulls[s].at = "read" => Keys \ removed \subseteq DOMAIN fulls[s].data

\* What the process has cached is in the table, also while calls are under way, or it
\* is what a stale call removed and the table is empty.
CacheAgrees ==
    /\ ~overlapped /\ ~deleted /\ ~stranded => known \in {Unknown, row}
    /\ ~overlapped /\ stranded => row = NoShare
    /\ deleted => row = NoShare
    /\ row \in Shares => sharing[row] \notin {"new", "posted"}

\* The last version of a key that was heard of is on the server or on its way there.
OnItsWay(k) ==
    \/ heard[k] <= content[row][k]
    \/ k \in DOMAIN unsent /\ heard[k] <= unsent[k]
    \/ \E m \in posts : m.to = row /\ k \in DOMAIN m.data /\ heard[k] <= m.data[k]
    \/ \E s \in Shares : fulls[s].at # "none"

AllOnTheirWay ==
    row # NoShare /\ row \in published /\ ~overlapped =>
        \A k \in Keys \ (missed \cup removed) : OnItsWay(k)

\* Calls that do not overlap are under way one at a time.
SharesNow(s) == sharing[s] \in {"posted", "stored"}
RemovesNow(u) == removing[u] \in {"deleting", "deleted", "removed"}

OneCall ==
    ~overlapped =>
        /\ \A s, t \in Shares : SharesNow(s) /\ SharesNow(t) => s = t
        /\ \A u, v \in Removers : RemovesNow(u) /\ RemovesNow(v) => u = v
        /\ \A s \in Shares, u \in Removers : ~(SharesNow(s) /\ RemovesNow(u))

\* Unless calls overlap or fail, how far the one call is tells what is public.
WhileShared ==
    \A s \in Shares : SharesNow(s) =>
        /\ ~deleted /\ url = NoShare /\ published = {s}
        /\ row = IF sharing[s] = "posted" THEN NoShare ELSE s

WhileRemoved ==
    \A u \in Removers : RemovesNow(u) =>
        /\ u = Watcher <=> deleted
        /\ removing[u] = "deleting" => victim[u] \in Links /\ published \subseteq {victim[u]}
        /\ removing[u] = "deleted" => victim[u] \in Links /\ published = {}
        /\ removing[u] = "removed" => row = NoShare /\ (published = {} \/ (deleted /\ victim[u] = NoShare))

WhileDeleted ==
    deleted =>
        /\ url = NoShare
        /\ removing[Watcher] = "new" /\ known \in Links => published \subseteq {known}
        /\ removing[Watcher] = "new" => victim[Watcher] = NoShare
        /\ removing[Watcher] = "done" => published = {} \/ victim[Watcher] = NoShare

AtRest == ~UnderWay /\ ~deleted => published = {row} \ {NoShare} /\ url = row

PublicIsTold ==
    ~overlapped /\ NoCallFailed => WhileShared /\ WhileRemoved /\ WhileDeleted /\ AtRest

BeginsFresh ==
    /\ \A u \in Removers : removing[u] = "new" => victim[u] = NoShare
    /\ ~deleted => removing[Watcher] = "new"

ShareInv ==
    /\ DataShapes /\ CallShapes /\ NoneIsNewer /\ UnsentIsFlushed /\ CacheAgrees /\ AllOnTheirWay
    /\ OneCall /\ PublicIsTold /\ BeginsFresh

-----------------------------------------------------------------------------
\* Data, and what is put over it.
LEMMA DataIs ==
    ASSUME NEW f
    PROVE  f \in Data <=> \E K \in SUBSET Keys : f \in [K -> 0 .. MaxVersion]
  BY DEF Data

LEMMA DataFacts ==
    ASSUME NEW f \in Data
    PROVE  DOMAIN f \subseteq Keys /\ \A k \in DOMAIN f : f[k] \in 0 .. MaxVersion
  <1>1. PICK K \in SUBSET Keys : f \in [K -> 0 .. MaxVersion] BY DataIs
  <1> QED BY <1>1

LEMMA FullIsData ==
    ASSUME NEW f \in [Keys -> 0 .. MaxVersion]
    PROVE  f \in Data
  BY DataIs

LEMMA EmptyIsData == Empty \in Data /\ DOMAIN Empty = {}
  <1>1. Empty \in [{} -> 0 .. MaxVersion] /\ DOMAIN Empty = {} BY DEF Empty
  <1> QED BY <1>1, DataIs

LEMMA OverFirst ==
    ASSUME NEW f, NEW g, NEW k \in DOMAIN f
    PROVE  k \in DOMAIN Over(f, g) /\ Over(f, g)[k] = f[k]
  BY DEF Over

LEMMA OverSecond ==
    ASSUME NEW f, NEW g, NEW k \in DOMAIN g \ DOMAIN f
    PROVE  k \in DOMAIN Over(f, g) /\ Over(f, g)[k] = g[k]
  BY DEF Over

LEMMA OverDomain ==
    ASSUME NEW f, NEW g, NEW k \in DOMAIN Over(f, g)
    PROVE  k \in DOMAIN f \/ k \in DOMAIN g \ DOMAIN f
  BY DEF Over

LEMMA OverIsData ==
    ASSUME NEW f \in Data, NEW g \in Data
    PROVE  Over(f, g) \in Data
  <1> DEFINE K == DOMAIN f \cup DOMAIN g
  <1>1. K \in SUBSET Keys BY DataFacts
  <1>2. \A k \in K : (IF k \in DOMAIN f THEN f[k] ELSE g[k]) \in 0 .. MaxVersion BY DataFacts
  <1>3. Over(f, g) \in [K -> 0 .. MaxVersion] BY <1>2 DEF Over
  <1> HIDE DEF K
  <1> QED BY <1>1, <1>3, DataIs

LEMMA OverIsFull ==
    ASSUME NEW f \in Data, NEW g \in [Keys -> 0 .. MaxVersion]
    PROVE  Over(f, g) \in [Keys -> 0 .. MaxVersion]
  <1>1. DOMAIN f \cup DOMAIN g = Keys BY DataFacts
  <1>2. \A k \in Keys : (IF k \in DOMAIN f THEN f[k] ELSE g[k]) \in 0 .. MaxVersion BY DataFacts
  <1> QED BY <1>1, <1>2 DEF Over

LEMMA OneIsData ==
    ASSUME NEW k \in Keys, NEW v \in 0 .. MaxVersion
    PROVE  [j \in {k} |-> v] \in Data
  <1>1. [j \in {k} |-> v] \in [{k} -> 0 .. MaxVersion] OBVIOUS
  <1> QED BY <1>1, DataIs

-----------------------------------------------------------------------------
\* The cache is as good as the table.
LEMMA CachedIsRow ==
    /\ CallShapes => Cached \in Links \cup {NoShare}
    /\ CallShapes /\ CacheAgrees /\ ~overlapped /\ ~deleted /\ ~stranded => Cached = row
    /\ CallShapes /\ CacheAgrees /\ ~overlapped /\ row # NoShare => Cached = row
  BY ShareAssumption DEF CallShapes, CacheAgrees, Cached, Links

\* A call that has failed stays so.
LEMMA FailedStays ==
    ASSUME \A s \in Shares : sharing[s] = "failed" => sharing'[s] = "failed",
           \A u \in Removers : removing[u] = "failed" => removing'[u] = "failed"
    PROVE  NoCallFailed' => NoCallFailed
  BY DEF NoCallFailed

\* A call that goes on or ends begins no other.
LEMMA GoingOn ==
    ASSUME OneCall, overlapped => overlapped',
           \A s \in Shares : SharesNow(s)' => SharesNow(s),
           \A u \in Removers : RemovesNow(u)' => RemovesNow(u)
    PROVE  OneCall'
  BY DEF OneCall

\* The steps that send data and leave the calls alone.
CallsRest ==
    /\ UNCHANGED <<row, published, url, shareCalls, overlapped, stranded>>
    /\ known' \in {known, Cached}
    /\ failures' \in 0 .. MaxFailures

CallInv == CallShapes /\ CacheAgrees /\ OneCall /\ PublicIsTold /\ BeginsFresh

LEMMA CallsRestInv ==
    ASSUME CallInv, CallsRest
    PROVE  CallInv'
  <1>0. /\ UNCHANGED <<row, published, url, sharing, removing, victim, deleted, stale, overlapped, stranded>>
        /\ known' \in {known, Cached}
        /\ CallShapes /\ CacheAgrees /\ OneCall /\ PublicIsTold /\ BeginsFresh
    BY DEF CallsRest, shareCalls, CallInv
  <1>1. CallShapes'
    <2>1. known' \in Links \cup {NoShare, Unknown} /\ failures' \in 0 .. MaxFailures
      BY <1>0, CachedIsRow DEF CallsRest, CallShapes
    <2> QED BY <1>0, <2>1 DEF CallShapes
  <1>2. CacheAgrees' BY <1>0, CachedIsRow DEF CacheAgrees
  <1>3. OneCall' BY <1>0 DEF OneCall, SharesNow, RemovesNow
  <1>4. PublicIsTold'
    <2> SUFFICES ASSUME ~overlapped, NoCallFailed PROVE PublicIsTold'
      BY <1>0 DEF PublicIsTold, NoCallFailed
    <2>1. WhileShared /\ WhileRemoved /\ WhileDeleted /\ AtRest BY <1>0 DEF PublicIsTold
    <2>2. WhileShared' BY <1>0, <2>1 DEF WhileShared, SharesNow
    <2>3. WhileRemoved' BY <1>0, <2>1 DEF WhileRemoved, RemovesNow
    <2>4. WhileDeleted'
      <3>1. deleted /\ known' \in Links => known' = known
        BY <1>0, ShareAssumption DEF Cached, CacheAgrees, Links
      <3> QED BY <1>0, <2>1, <3>1 DEF WhileDeleted
    <2>5. AtRest' BY <1>0, <2>1 DEF AtRest, UnderWay
    <2> QED BY <2>2, <2>3, <2>4, <2>5 DEF PublicIsTold
  <1>5. BeginsFresh' BY <1>0 DEF BeginsFresh
  <1> QED BY <1>1, <1>2, <1>3, <1>4, <1>5 DEF CallInv

LEMMA DataStepsLeaveCalls ==
    ASSUME CallInv,
           \/ \E k \in Keys : Change(k) \/ Hear(k)
           \/ \E k \in Removable \ removed : RemoveItem(k)
           \/ Flush
           \/ \E m \in posts : PostArrives(m) \/ PostFails(m)
           \/ \E s \in Shares : FullReads(s) \/ FullQueues(s) \/ FullFails(s)
    PROVE  CallsRest
  <1>0. failures \in 0 .. MaxFailures /\ MaxFailures \in Nat BY ShareAssumption DEF CallInv, CallShapes
  <1> USE <1>0 DEF CallsRest, shareQueue, shareHist
  <1>1. ASSUME NEW k \in Keys, Change(k) \/ Hear(k) PROVE CallsRest BY <1>1 DEF Change, Hear, SyncData
  <1>2. ASSUME NEW k \in Removable \ removed, RemoveItem(k) PROVE CallsRest BY <1>2 DEF RemoveItem
  <1>3. CASE Flush BY <1>3 DEF Flush
  <1>4. ASSUME NEW m \in posts, PostArrives(m) \/ PostFails(m) PROVE CallsRest
    BY <1>4 DEF PostArrives, PostFails
  <1>5. ASSUME NEW s \in Shares, FullReads(s) \/ FullQueues(s) \/ FullFails(s) PROVE CallsRest
    BY <1>5 DEF FullReads, FullQueues, FullFails, SyncData, Fails
  <1> QED BY <1>1, <1>2, <1>3, <1>4, <1>5

\* A disposal in the middle of a call: the call goes on, only the handler of Deleted
\* fails.
LEMMA RedisposeCalls ==
    ASSUME CallInv, Redispose
    PROVE  CallInv'
  <1>0. /\ UNCHANGED <<row, url, sharing, victim, deleted, overlapped>>
        /\ known' = Unknown /\ stranded' = FALSE /\ published' \subseteq published
        /\ CallShapes /\ CacheAgrees /\ OneCall /\ PublicIsTold /\ BeginsFresh
    BY DEF Redispose, CallInv
  <1>1. \/ /\ deleted /\ removing[Watcher] \in {"new", "deleting", "deleted"}
           /\ removing' = [removing EXCEPT ![Watcher] = "failed"]
        \/ /\ ~(deleted /\ removing[Watcher] \in {"new", "deleting", "deleted"})
           /\ UNCHANGED <<removing, published>>
    BY DEF Redispose
  <1>2. /\ removing' \in [Removers -> RemovingStates] /\ Watcher \in Removers
        /\ \A u \in Removers : removing'[u] \in {removing[u], "failed"}
        /\ \A u \in Unshares : removing'[u] = removing[u]
    <2>1. Watcher \in Removers /\ Watcher \notin Unshares BY ShareAssumption DEF Removers
    <2> QED BY <1>0, <1>1, <2>1 DEF CallShapes, RemovingStates, Removers
  <1>3. CallShapes'
    <2>1. failures' \in 0 .. MaxFailures BY <1>0, ShareAssumption DEF Redispose, CallShapes
    <2>2. stale' \subseteq Unshares BY <1>0 DEF Redispose, CallShapes
    <2> QED BY <1>0, <1>2, <2>1, <2>2 DEF CallShapes
  <1>4. CacheAgrees' BY <1>0 DEF CacheAgrees
  <1>5. OneCall'
    <2>1. /\ \A s \in Shares : SharesNow(s)' => SharesNow(s)
          /\ \A u \in Removers : RemovesNow(u)' => RemovesNow(u)
      BY <1>0, <1>2 DEF SharesNow, RemovesNow
    <2> QED BY <1>0, <2>1, GoingOn
  <1>6. PublicIsTold'
    <2> SUFFICES ASSUME ~overlapped, NoCallFailed' PROVE PublicIsTold' BY <1>0 DEF PublicIsTold
    <2>1. removing'[Watcher] # "failed" BY <1>2 DEF NoCallFailed
    <2>2. UNCHANGED <<removing, published>> /\ ~(deleted /\ removing[Watcher] = "new")
      BY <1>0, <1>1, <1>2, <2>1 DEF CallShapes
    <2>3. WhileShared /\ WhileRemoved /\ WhileDeleted /\ AtRest
      BY <1>0, <2>2 DEF PublicIsTold, NoCallFailed
    <2>4. WhileShared' BY <1>0, <2>2, <2>3 DEF WhileShared, SharesNow
    <2>5. WhileRemoved' BY <1>0, <2>2, <2>3 DEF WhileRemoved, RemovesNow
    <2>6. WhileDeleted' BY <1>0, <2>2, <2>3 DEF WhileDeleted
    <2>7. AtRest' BY <1>0, <2>2, <2>3 DEF AtRest, UnderWay
    <2> QED BY <2>4, <2>5, <2>6, <2>7 DEF PublicIsTold
  <1>7. BeginsFresh' BY <1>0, <1>1, <1>2 DEF BeginsFresh, Removers
  <1> QED BY <1>3, <1>4, <1>5, <1>6, <1>7 DEF CallInv

-----------------------------------------------------------------------------
\* What the steps that send data do to it.
DataInv == DataShapes /\ NoneIsNewer /\ UnsentIsFlushed /\ AllOnTheirWay

LEMMA ChangeInv ==
    ASSUME ShareInv, NEW k \in Keys, Change(k)
    PROVE  DataInv'
  <1> USE DEF Change, shareQueue, shareCalls, shareHist
  <1>0. /\ UNCHANGED <<heard, removed, unsent, delayed, posts, fulls, content, row, published, overlapped, missed>>
        /\ truth \in [Keys -> 0 .. MaxVersion] /\ MaxVersion \in Nat
    BY ShareAssumption DEF ShareInv, DataShapes
  <1>1. /\ truth' \in [Keys -> 0 .. MaxVersion]
        /\ \A j \in Keys : truth[j] \in Nat /\ truth'[j] \in Nat /\ truth[j] <= truth'[j]
    BY <1>0
  <1>2. DataShapes' BY <1>0, <1>1 DEF ShareInv, DataShapes
  <1>3. NoneIsNewer'
    <2>1. NoneIsNewer /\ DataShapes BY DEF ShareInv
    <2>2. \A j \in Keys : heard'[j] <= truth'[j] BY <1>0, <1>1, <2>1 DEF NoneIsNewer, DataShapes
    <2>3. \A s \in Links : \A j \in Keys : content'[s][j] <= truth'[j]
      <3> SUFFICES ASSUME NEW s \in Links, NEW j \in Keys PROVE content'[s][j] <= truth'[j] OBVIOUS
      <3>1. content[s][j] \in Nat /\ content[s][j] <= truth[j] BY <2>1 DEF NoneIsNewer, DataShapes
      <3> QED BY <1>0, <1>1, <3>1
    <2>4. \A j \in DOMAIN unsent' : unsent'[j] <= truth'[j]
      <3> SUFFICES ASSUME NEW j \in DOMAIN unsent PROVE unsent[j] <= truth'[j] BY <1>0
      <3>1. j \in Keys /\ unsent[j] \in Nat BY <2>1, DataFacts DEF DataShapes
      <3> QED BY <1>1, <2>1, <3>1 DEF NoneIsNewer
    <2>5. \A m \in posts' : \A j \in DOMAIN m.data : m.data[j] <= truth'[j]
      <3> SUFFICES ASSUME NEW m \in posts, NEW j \in DOMAIN m.data PROVE m.data[j] <= truth'[j] BY <1>0
      <3>0. m.data \in Data BY <2>1 DEF DataShapes
      <3>1. j \in Keys /\ m.data[j] \in Nat BY <3>0, DataFacts
      <3> QED BY <1>1, <2>1, <3>1 DEF NoneIsNewer
    <2>6. \A s \in Shares : \A j \in DOMAIN fulls'[s].data : fulls'[s].data[j] <= truth'[j]
      <3> SUFFICES ASSUME NEW s \in Shares, NEW j \in DOMAIN fulls[s].data
                   PROVE fulls[s].data[j] <= truth'[j]
        BY <1>0
      <3>0. fulls[s].data \in Data BY <2>1 DEF DataShapes, FullRecord
      <3>1. j \in Keys /\ fulls[s].data[j] \in Nat BY <3>0, DataFacts
      <3> QED BY <1>1, <2>1, <3>1 DEF NoneIsNewer
    <2>7. \A s \in Shares : fulls'[s].at = "read" => Keys \ removed \subseteq DOMAIN fulls'[s].data
      BY <1>0, <2>1 DEF NoneIsNewer
    <2> QED BY <2>2, <2>3, <2>4, <2>5, <2>6, <2>7 DEF NoneIsNewer
  <1>4. UnsentIsFlushed' BY <1>0 DEF ShareInv, UnsentIsFlushed
  <1>5. AllOnTheirWay' BY <1>0 DEF ShareInv, AllOnTheirWay, OnItsWay
  <1> QED BY <1>2, <1>3, <1>4, <1>5 DEF DataInv

LEMMA RemoveItemInv ==
    ASSUME ShareInv, NEW k \in Removable \ removed, RemoveItem(k)
    PROVE  DataInv'
  <1>0. /\ UNCHANGED <<truth, heard, unsent, delayed, posts, fulls, content, row, published, overlapped, missed>>
        /\ removed' = removed \cup {k}
    BY DEF RemoveItem, shareQueue, shareHist
  <1>1. DataShapes /\ NoneIsNewer /\ UnsentIsFlushed /\ AllOnTheirWay BY DEF ShareInv
  <1>2. DataShapes' BY <1>0, <1>1 DEF DataShapes
  <1>3. NoneIsNewer' BY <1>0, <1>1 DEF NoneIsNewer
  <1>4. UnsentIsFlushed' BY <1>0, <1>1 DEF UnsentIsFlushed
  <1>5. AllOnTheirWay' BY <1>0, <1>1 DEF AllOnTheirWay, OnItsWay
  <1> QED BY <1>2, <1>3, <1>4, <1>5 DEF DataInv

\* Data that is queued is queued for the share of the table.
LEMMA SyncDataQueues ==
    ASSUME ShareInv, NEW data \in Data, SyncData(data),
           \A k \in DOMAIN data : data[k] <= truth[k]
    PROVE  /\ unsent' \in Data /\ delayed' \in Nat
           /\ \A k \in DOMAIN unsent' : unsent'[k] <= truth[k]
           /\ UnsentIsFlushed'
           /\ row # NoShare /\ ~overlapped => unsent' = Over(data, unsent)
  <1>0. unsent \in Data /\ delayed \in Nat /\ UnsentIsFlushed BY DEF ShareInv, DataShapes
  <1>a. \A k \in DOMAIN unsent : unsent[k] <= truth[k] BY DEF ShareInv, NoneIsNewer
  <1>1. CASE Cached = NoShare
    <2>1. UNCHANGED <<unsent, delayed>> BY <1>1 DEF SyncData
    <2>2. row = NoShare \/ overlapped BY <1>1, CachedIsRow DEF ShareInv, CacheAgrees, CallShapes
    <2> QED BY <1>0, <1>a, <2>1, <2>2 DEF UnsentIsFlushed
  <1>2. CASE Cached # NoShare
    <2>1. unsent' = Over(data, unsent) /\ delayed' = (IF unsent = Empty THEN delayed + 1 ELSE delayed)
      BY <1>2 DEF SyncData
    <2>2. unsent' \in Data BY <1>0, <2>1, OverIsData
    <2>3. delayed' \in Nat /\ delayed' > 0 BY <1>0, <2>1 DEF UnsentIsFlushed
    <2>4. \A k \in DOMAIN unsent' : unsent'[k] <= truth[k]
      <3> SUFFICES ASSUME NEW k \in DOMAIN unsent' PROVE unsent'[k] <= truth[k] OBVIOUS
      <3>1. CASE k \in DOMAIN data BY <2>1, <3>1, OverFirst
      <3>2. CASE k \notin DOMAIN data
        <4>1. k \in DOMAIN unsent /\ Over(data, unsent)[k] = unsent[k] BY <2>1, <3>2, OverSecond, OverDomain
        <4> QED BY <1>a, <2>1, <4>1
      <3> QED BY <3>1, <3>2
    <2> QED BY <2>1, <2>2, <2>3, <2>4 DEF UnsentIsFlushed
  <1> QED BY <1>1, <1>2

LEMMA HearInv ==
    ASSUME ShareInv, NEW k \in Keys, Hear(k)
    PROVE  DataInv'
  <1> DEFINE one == [j \in {k} |-> heard'[k]]
  <1>0. /\ UNCHANGED <<truth, removed, row, posts, fulls, published, content, missed, overlapped>>
        /\ heard[k] < truth[k] /\ heard' = [heard EXCEPT ![k] = @ + 1]
        /\ SyncData(one)
    BY DEF Hear, shareHist
  <1>1. DataShapes /\ NoneIsNewer /\ MaxVersion \in Nat BY ShareAssumption DEF ShareInv
  <1>2. /\ heard[k] \in 0 .. MaxVersion /\ truth[k] \in 0 .. MaxVersion
        /\ heard'[k] = heard[k] + 1 /\ heard'[k] \in 0 .. MaxVersion /\ heard'[k] <= truth[k]
    BY <1>0, <1>1 DEF DataShapes
  <1>3. \A j \in Keys \ {k} : heard'[j] = heard[j] BY <1>0, <1>1 DEF DataShapes
  <1>4. one \in Data /\ DOMAIN one = {k} /\ one[k] = heard'[k]
    <2>1. one \in Data BY <1>2, OneIsData
    <2> QED BY <2>1
  <1> HIDE DEF one
  <1>5. /\ unsent' \in Data /\ delayed' \in Nat /\ UnsentIsFlushed'
        /\ \A j \in DOMAIN unsent' : unsent'[j] <= truth[j]
        /\ row # NoShare /\ ~overlapped => unsent' = Over(one, unsent)
    <2>1. \A j \in DOMAIN one : one[j] <= truth[j] BY <1>2, <1>4
    <2> QED BY <1>0, <1>4, <2>1, SyncDataQueues
  <1>6. DataShapes'
    <2>1. heard' \in [Keys -> 0 .. MaxVersion] BY <1>0, <1>1, <1>2 DEF DataShapes
    <2> QED BY <1>0, <1>1, <1>5, <2>1 DEF DataShapes
  <1>7. NoneIsNewer'
    <2>1. \A j \in Keys : heard'[j] <= truth[j] BY <1>1, <1>2, <1>3 DEF NoneIsNewer
    <2> QED BY <1>0, <1>1, <1>5, <2>1 DEF NoneIsNewer
  <1>8. AllOnTheirWay'
    <2> SUFFICES ASSUME row # NoShare, row \in published, ~overlapped, NEW j \in Keys \ (missed \cup removed)
                 PROVE  OnItsWay(j)'
      BY <1>0 DEF AllOnTheirWay
    <2>1. unsent' = Over(one, unsent) BY <1>5
    <2>2. CASE j = k
      <3>1. k \in DOMAIN Over(one, unsent) /\ Over(one, unsent)[k] = one[k] BY <1>4, OverFirst
      <3>2. k \in DOMAIN unsent' /\ unsent'[k] = heard'[k] BY <1>4, <2>1, <3>1
      <3> QED BY <1>2, <2>2, <3>2 DEF OnItsWay
    <2>3. CASE j # k
      <3>1. heard'[j] = heard[j] BY <1>3, <2>3
      <3>2. j \in DOMAIN unsent =>
              j \in DOMAIN Over(one, unsent) /\ Over(one, unsent)[j] = unsent[j]
        BY <1>4, <2>3, OverSecond, OverFirst
      <3>3. OnItsWay(j) BY DEF ShareInv, AllOnTheirWay
      <3> QED BY <1>0, <2>1, <3>1, <3>2, <3>3 DEF OnItsWay
    <2> QED BY <2>2, <2>3
  <1> QED BY <1>5, <1>6, <1>7, <1>8 DEF DataInv

LEMMA FlushInv ==
    ASSUME ShareInv, Flush
    PROVE  DataInv'
  <1>0. /\ UNCHANGED <<truth, removed, heard, row, fulls, published, content, missed, overlapped>>
        /\ delayed > 0 /\ delayed' = delayed - 1 /\ unsent' = Empty
    BY DEF Flush, shareData, shareHist
  <1>1. DataShapes /\ NoneIsNewer /\ delayed \in Nat BY DEF ShareInv, DataShapes
  <1>2. \A m \in posts' :
           m \in posts \/ (m.to = Cached /\ m.data = unsent /\ Cached # NoShare /\ unsent # Empty)
    BY DEF Flush
  <1>3. posts \subseteq posts' BY DEF Flush
  <1>4. Cached \in Links \cup {NoShare} /\ unsent \in Data BY CachedIsRow DEF ShareInv, DataShapes
  <1>5. DataShapes'
    <2>1. \A m \in posts' : m.to \in Links /\ m.data \in Data \ {Empty}
      BY <1>1, <1>2, <1>4 DEF DataShapes
    <2>2. unsent' \in Data /\ delayed' \in Nat BY <1>0, <1>1, EmptyIsData
    <2> QED BY <1>0, <1>1, <2>1, <2>2 DEF DataShapes
  <1>6. NoneIsNewer'
    <2>1. \A m \in posts' : \A j \in DOMAIN m.data : m.data[j] <= truth[j]
      BY <1>1, <1>2 DEF NoneIsNewer
    <2>2. DOMAIN unsent' = {} BY <1>0, EmptyIsData
    <2> QED BY <1>0, <1>1, <2>1, <2>2 DEF NoneIsNewer
  <1>7. UnsentIsFlushed' BY <1>0 DEF UnsentIsFlushed
  <1>8. AllOnTheirWay'
    <2> SUFFICES ASSUME row # NoShare, row \in published, ~overlapped, NEW j \in Keys \ (missed \cup removed)
                 PROVE  OnItsWay(j)'
      BY <1>0 DEF AllOnTheirWay
    <2>1. OnItsWay(j) BY DEF ShareInv, AllOnTheirWay
    <2>2. CASE j \in DOMAIN unsent /\ heard[j] <= unsent[j]
      <3>1. unsent # Empty /\ Cached = row
        BY <2>2, EmptyIsData, CachedIsRow DEF ShareInv, CacheAgrees
      <3>2. PICK n : posts' = posts \cup {[to |-> Cached, data |-> unsent, n |-> n]}
        BY <3>1 DEF Flush
      <3> DEFINE m == [to |-> Cached, data |-> unsent, n |-> n]
      <3>3. m \in posts' /\ m.to = row /\ m.data = unsent BY <3>1, <3>2
      <3> HIDE DEF m
      <3> QED BY <1>0, <2>2, <3>3 DEF OnItsWay
    <2>3. CASE ~(j \in DOMAIN unsent /\ heard[j] <= unsent[j])
      BY <1>0, <1>3, <2>1, <2>3 DEF OnItsWay
    <2> QED BY <2>2, <2>3
  <1> QED BY <1>5, <1>6, <1>7, <1>8 DEF DataInv

LEMMA PostArrivesInv ==
    ASSUME ShareInv, NEW m \in posts, PostArrives(m)
    PROVE  DataInv'
  <1>0. /\ UNCHANGED <<truth, removed, heard, row, unsent, delayed, fulls, published, overlapped>>
        /\ posts' = posts \ {m}
        /\ content' = IF m.to \in published THEN [content EXCEPT ![m.to] = Over(m.data, @)] ELSE content
    BY DEF PostArrives, shareData
  <1>1. DataShapes /\ NoneIsNewer /\ m.to \in Links /\ m.data \in Data BY DEF ShareInv, DataShapes
  <1>2. content \in [Links -> [Keys -> 0 .. MaxVersion]] /\ DOMAIN m.data \subseteq Keys
    BY <1>1, DataFacts DEF DataShapes
  <1>3. content' \in [Links -> [Keys -> 0 .. MaxVersion]]
    <2>1. Over(m.data, content[m.to]) \in [Keys -> 0 .. MaxVersion] BY <1>1, <1>2, OverIsFull
    <2> QED BY <1>0, <1>2, <2>1
  <1>4. \A s \in Links \ {m.to} : content'[s] = content[s] BY <1>0, <1>2
  <1>5. ASSUME NEW k \in Keys
        PROVE  content'[m.to][k] = IF m.to \in published /\ k \in DOMAIN m.data
                                   THEN m.data[k] ELSE content[m.to][k]
    <2>1. CASE m.to \in published
      <3>1. content'[m.to] = Over(m.data, content[m.to]) BY <1>0, <1>1, <1>2, <2>1
      <3>2. DOMAIN content[m.to] = Keys BY <1>1, <1>2
      <3>3. CASE k \in DOMAIN m.data BY <2>1, <3>1, <3>3, OverFirst
      <3>4. CASE k \notin DOMAIN m.data
        <4>1. k \in DOMAIN content[m.to] \ DOMAIN m.data BY <3>2, <3>4
        <4>2. Over(m.data, content[m.to])[k] = content[m.to][k] BY <4>1, OverSecond
        <4> QED BY <3>1, <3>4, <4>2
      <3> QED BY <3>3, <3>4
    <2>2. CASE m.to \notin published BY <1>0, <2>2
    <2> QED BY <2>1, <2>2
  <1>6. missed' = (missed \ {k \in DOMAIN m.data : m.to = row /\ m.data[k] = truth[k]})
                      \cup {k \in DOMAIN m.data : m.data[k] < content[m.to][k]}
    BY DEF PostArrives
  <1>7. DataShapes'
    <2>1. missed' \subseteq Keys BY <1>1, <1>2, <1>6 DEF DataShapes
    <2> QED BY <1>0, <1>1, <1>3, <2>1 DEF DataShapes
  <1>8. NoneIsNewer'
    <2>1. ASSUME NEW s \in Links, NEW k \in Keys PROVE content'[s][k] <= truth[k]
      <3>1. CASE s = m.to BY <1>1, <1>5, <3>1 DEF NoneIsNewer
      <3>2. CASE s # m.to BY <1>1, <1>4, <3>2 DEF NoneIsNewer
      <3> QED BY <3>1, <3>2
    <2> QED BY <1>0, <1>1, <2>1 DEF NoneIsNewer
  <1>9. UnsentIsFlushed' BY <1>0 DEF ShareInv, UnsentIsFlushed
  <1>10. AllOnTheirWay'
    <2> SUFFICES ASSUME row # NoShare, row \in published, ~overlapped, NEW k \in Keys \ (missed' \cup removed)
                 PROVE  OnItsWay(k)'
      BY <1>0 DEF AllOnTheirWay
    <2>0. row \in Links /\ heard[k] \in Nat /\ content[row][k] \in Nat /\ content'[row][k] \in Nat
          /\ (k \in DOMAIN m.data => m.data[k] \in Nat) /\ heard[k] <= truth[k] /\ truth[k] \in Nat
      <3>1. row \in Links BY DEF ShareInv, CallShapes
      <3>2. heard[k] \in Nat /\ truth[k] \in Nat /\ heard[k] <= truth[k] BY <1>1 DEF DataShapes, NoneIsNewer
      <3>3. content[row][k] \in Nat BY <1>2, <3>1
      <3>4. content'[row][k] \in Nat BY <1>3, <3>1
      <3>5. k \in DOMAIN m.data => m.data[k] \in Nat BY <1>1, DataFacts
      <3> QED BY <3>1, <3>2, <3>3, <3>4, <3>5
    <2>1. CASE k \in DOMAIN m.data /\ m.to = row /\ heard[k] <= m.data[k]
      <3>1. content'[row][k] = m.data[k] BY <1>5, <2>1
      <3> QED BY <1>0, <2>1, <3>1 DEF OnItsWay
    <2>2. CASE ~(k \in DOMAIN m.data /\ m.to = row /\ heard[k] <= m.data[k])
      <3>1. k \notin missed BY <1>6, <2>0, <2>2
      <3>2. OnItsWay(k) BY <3>1 DEF ShareInv, AllOnTheirWay
      <3>3. content[row][k] <= content'[row][k]
        <4>1. CASE m.to = row /\ k \in DOMAIN m.data
          <5>1. ~(m.data[k] < content[row][k]) BY <1>6, <4>1
          <5>2. content'[row][k] = m.data[k] BY <1>5, <4>1
          <5> QED BY <2>0, <4>1, <5>1, <5>2
        <4>2. CASE m.to = row /\ k \notin DOMAIN m.data BY <1>5, <2>0, <4>2
        <4>3. CASE m.to # row BY <1>4, <2>0, <4>3
        <4> QED BY <4>1, <4>2, <4>3
      <3>4. heard[k] <= content[row][k] => heard[k] <= content'[row][k] BY <2>0, <3>3
      <3>5. ASSUME NEW n \in posts, n.to = row, k \in DOMAIN n.data, heard[k] <= n.data[k]
            PROVE  n \in posts'
        BY <1>0, <2>2, <3>5
      <3> QED BY <1>0, <3>2, <3>4, <3>5 DEF OnItsWay
    <2> QED BY <2>1, <2>2
  <1> QED BY <1>7, <1>8, <1>9, <1>10 DEF DataInv

LEMMA PostFailsInv ==
    ASSUME ShareInv, NEW m \in posts, PostFails(m)
    PROVE  DataInv'
  <1>0. /\ UNCHANGED <<truth, removed, heard, row, unsent, delayed, fulls, published, content, overlapped>>
        /\ posts' = posts \ {m} /\ missed' = missed \cup DOMAIN m.data
    BY DEF PostFails, shareData
  <1>1. DataShapes /\ NoneIsNewer BY DEF ShareInv
  <1>2. DataShapes'
    <2>1. m.data \in Data BY <1>1 DEF DataShapes
    <2>2. missed' \subseteq Keys BY <1>0, <1>1, <2>1, DataFacts DEF DataShapes
    <2> QED BY <1>0, <1>1, <2>2 DEF DataShapes
  <1>3. NoneIsNewer' BY <1>0, <1>1 DEF NoneIsNewer
  <1>4. UnsentIsFlushed' BY <1>0 DEF ShareInv, UnsentIsFlushed
  <1>5. AllOnTheirWay'
    <2> SUFFICES ASSUME row # NoShare, row \in published, ~overlapped, NEW k \in Keys \ (missed' \cup removed)
                 PROVE  OnItsWay(k)'
      BY <1>0 DEF AllOnTheirWay
    <2>1. OnItsWay(k) /\ k \notin DOMAIN m.data BY <1>0 DEF ShareInv, AllOnTheirWay
    <2> QED BY <1>0, <2>1 DEF OnItsWay
  <1> QED BY <1>2, <1>3, <1>4, <1>5 DEF DataInv

LEMMA FullReadsInv ==
    ASSUME ShareInv, NEW s \in Shares, FullReads(s)
    PROVE  DataInv'
  <1> DEFINE seen == [k \in Keys \ removed |-> truth[k]]
  <1>0. /\ UNCHANGED <<truth, removed, heard, row, unsent, delayed, posts, published, content, overlapped, missed>>
        /\ fulls[s].at = "starts"
        /\ fulls' = [fulls EXCEPT ![s] = IF deleted THEN [at |-> "none", data |-> Empty]
                                                   ELSE [at |-> "read", data |-> seen]]
    BY DEF FullReads, shareData, shareHist
  <1>1. DataShapes /\ NoneIsNewer BY DEF ShareInv
  <1>2. /\ seen \in Data /\ DOMAIN seen = Keys \ removed
        /\ \A k \in Keys \ removed : truth[k] \in Nat /\ seen[k] = truth[k]
    <2>1. seen \in [Keys \ removed -> 0 .. MaxVersion] BY <1>1 DEF DataShapes
    <2>2. seen \in Data BY <2>1, DataIs
    <2> QED BY <1>1, <2>2 DEF DataShapes
  <1> HIDE DEF seen
  <1>3. \A t \in Shares \ {s} : fulls'[t] = fulls[t] BY <1>0, <1>1 DEF DataShapes
  <1>4. fulls'[s] = IF deleted THEN [at |-> "none", data |-> Empty] ELSE [at |-> "read", data |-> seen]
    BY <1>0, <1>1 DEF DataShapes
  <1>5. DataShapes'
    <2>1. [at |-> "none", data |-> Empty] \in FullRecord /\ [at |-> "read", data |-> seen] \in FullRecord
      BY <1>2, EmptyIsData DEF FullRecord
    <2>2. fulls' \in [Shares -> FullRecord] BY <1>0, <1>1, <2>1 DEF DataShapes
    <2> QED BY <1>0, <1>1, <2>2 DEF DataShapes
  <1>6. NoneIsNewer'
    <2>1. ASSUME NEW t \in Shares
          PROVE  /\ \A k \in DOMAIN fulls'[t].data : fulls'[t].data[k] <= truth[k]
                 /\ fulls'[t].at = "read" => Keys \ removed \subseteq DOMAIN fulls'[t].data
      <3>1. CASE t # s BY <1>1, <1>3, <3>1 DEF NoneIsNewer
      <3>2. CASE t = s /\ deleted BY <1>4, <3>2, EmptyIsData
      <3>3. CASE t = s /\ ~deleted BY <1>2, <1>4, <3>3
      <3> QED BY <3>1, <3>2, <3>3
    <2> QED BY <1>0, <1>1, <2>1 DEF NoneIsNewer
  <1>7. UnsentIsFlushed' BY <1>0 DEF ShareInv, UnsentIsFlushed
  <1>8. AllOnTheirWay'
    <2> SUFFICES ASSUME row # NoShare, row \in published, ~overlapped, NEW k \in Keys \ (missed \cup removed)
                 PROVE  OnItsWay(k)'
      BY <1>0 DEF AllOnTheirWay
    <2>1. ~deleted BY DEF ShareInv, CacheAgrees
    <2>2. fulls'[s].at = "read" BY <1>4, <2>1
    <2> QED BY <2>2 DEF OnItsWay
  <1> QED BY <1>5, <1>6, <1>7, <1>8 DEF DataInv

\* A full sync that is over.
LEMMA FullEnds ==
    ASSUME DataShapes, NoneIsNewer, NEW s \in Shares,
           fulls' = [fulls EXCEPT ![s] = [at |-> "none", data |-> Empty]]
    PROVE  /\ fulls' \in [Shares -> FullRecord]
           /\ \A t \in Shares : \A k \in DOMAIN fulls'[t].data : fulls'[t].data[k] <= truth[k]
           /\ \A t \in Shares : fulls'[t].at = "read" => Keys \ removed \subseteq DOMAIN fulls'[t].data
  <1>1. [at |-> "none", data |-> Empty] \in FullRecord BY EmptyIsData DEF FullRecord
  <1>2. fulls' \in [Shares -> FullRecord] BY <1>1 DEF DataShapes
  <1>3. fulls'[s] = [at |-> "none", data |-> Empty] /\ \A t \in Shares \ {s} : fulls'[t] = fulls[t]
    BY DEF DataShapes
  <1>4. ASSUME NEW t \in Shares
        PROVE  /\ \A k \in DOMAIN fulls'[t].data : fulls'[t].data[k] <= truth[k]
               /\ fulls'[t].at = "read" => Keys \ removed \subseteq DOMAIN fulls'[t].data
    <2>1. CASE t = s BY <1>3, <2>1, EmptyIsData
    <2>2. CASE t # s BY <1>3, <2>2 DEF NoneIsNewer
    <2> QED BY <2>1, <2>2
  <1> QED BY <1>2, <1>4

LEMMA FullQueuesInv ==
    ASSUME ShareInv, NEW s \in Shares, FullQueues(s)
    PROVE  DataInv'
  <1> DEFINE data == fulls[s].data
  <1>0. /\ UNCHANGED <<truth, removed, heard, row, posts, published, content, overlapped>>
        /\ fulls[s].at = "read"
        /\ fulls' = [fulls EXCEPT ![s] = [at |-> "none", data |-> Empty]]
        /\ SyncData(data)
        /\ missed' = missed \cup {k \in DOMAIN data : data[k] < heard[k]}
    BY DEF FullQueues, shareData
  <1>1. DataShapes /\ NoneIsNewer BY DEF ShareInv
  <1>2. data \in Data /\ Keys \ removed \subseteq DOMAIN data /\ \A k \in DOMAIN data : data[k] <= truth[k]
    BY <1>0, <1>1 DEF DataShapes, FullRecord, NoneIsNewer
  <1> HIDE DEF data
  <1>3. /\ unsent' \in Data /\ delayed' \in Nat /\ UnsentIsFlushed'
        /\ \A j \in DOMAIN unsent' : unsent'[j] <= truth[j]
        /\ row # NoShare /\ ~overlapped => unsent' = Over(data, unsent)
    BY <1>0, <1>2, SyncDataQueues
  <1>4. DataShapes'
    <2>1. missed' \subseteq Keys /\ fulls' \in [Shares -> FullRecord]
      BY <1>0, <1>1, <1>2, DataFacts, FullEnds DEF DataShapes
    <2> QED BY <1>0, <1>1, <1>3, <2>1 DEF DataShapes
  <1>5. NoneIsNewer'
    <2>1. /\ \A t \in Shares : \A k \in DOMAIN fulls'[t].data : fulls'[t].data[k] <= truth[k]
          /\ \A t \in Shares : fulls'[t].at = "read" => Keys \ removed \subseteq DOMAIN fulls'[t].data
      BY <1>0, <1>1, FullEnds
    <2> QED BY <1>0, <1>1, <1>3, <2>1 DEF NoneIsNewer
  <1>6. AllOnTheirWay'
    <2> SUFFICES ASSUME row # NoShare, row \in published, ~overlapped, NEW k \in Keys \ (missed' \cup removed)
                 PROVE  OnItsWay(k)'
      BY <1>0 DEF AllOnTheirWay
    <2>1. k \in DOMAIN data /\ unsent' = Over(data, unsent) BY <1>2, <1>3
    <2>2. k \in DOMAIN Over(data, unsent) /\ Over(data, unsent)[k] = data[k] BY <2>1, OverFirst
    <2>3. data[k] \in Nat /\ heard[k] \in Nat BY <1>1, <1>2, DataFacts DEF DataShapes
    <2>4. ~(data[k] < heard[k]) BY <1>0, <2>1
    <2>5. k \in DOMAIN unsent' /\ heard[k] <= unsent'[k] BY <2>1, <2>2, <2>3, <2>4
    <2> QED BY <1>0, <2>5 DEF OnItsWay
  <1> QED BY <1>3, <1>4, <1>5, <1>6 DEF DataInv

LEMMA FullFailsInv ==
    ASSUME ShareInv, NEW s \in Shares, FullFails(s)
    PROVE  DataInv'
  <1>0. /\ UNCHANGED <<truth, removed, heard, row, unsent, delayed, posts, published, content, overlapped>>
        /\ fulls' = [fulls EXCEPT ![s] = [at |-> "none", data |-> Empty]]
        /\ missed' = Keys
    BY DEF FullFails, shareData
  <1>1. DataShapes /\ NoneIsNewer BY DEF ShareInv
  <1>2. DataShapes' BY <1>0, <1>1, FullEnds DEF DataShapes
  <1>3. NoneIsNewer'
    <2>1. /\ \A t \in Shares : \A k \in DOMAIN fulls'[t].data : fulls'[t].data[k] <= truth[k]
          /\ \A t \in Shares : fulls'[t].at = "read" => Keys \ removed \subseteq DOMAIN fulls'[t].data
      BY <1>0, <1>1, FullEnds
    <2> QED BY <1>0, <1>1, <2>1 DEF NoneIsNewer
  <1>4. UnsentIsFlushed' BY <1>0 DEF ShareInv, UnsentIsFlushed
  <1>5. AllOnTheirWay' BY <1>0 DEF AllOnTheirWay
  <1> QED BY <1>2, <1>3, <1>4, <1>5 DEF DataInv

LEMMA RedisposeInv ==
    ASSUME ShareInv, Redispose
    PROVE  DataInv'
  <1>0. /\ UNCHANGED <<truth, removed, row, content, overlapped>>
        /\ published' \subseteq published
        /\ heard' = truth /\ unsent' = Empty /\ delayed' = 0 /\ posts' = {}
        /\ fulls' = [s \in Shares |-> [at |-> "none", data |-> Empty]]
    BY DEF Redispose
  <1>1. DataShapes /\ NoneIsNewer BY DEF ShareInv
  <1>2. /\ missed \subseteq missed' /\ missed' \subseteq missed \cup Keys
        /\ \A k \in Keys \ missed' :
              /\ heard[k] = truth[k] /\ k \notin DOMAIN unsent
              /\ \A m \in posts : k \notin DOMAIN m.data
              /\ \A s \in Shares : fulls[s].at = "none"
    BY DEF Redispose
  <1>3. DataShapes'
    <2>1. [at |-> "none", data |-> Empty] \in FullRecord BY EmptyIsData DEF FullRecord
    <2>2. fulls' \in [Shares -> FullRecord] BY <1>0, <2>1
    <2>3. missed' \subseteq Keys BY <1>1, <1>2 DEF DataShapes
    <2> QED BY <1>0, <1>1, <2>2, <2>3, EmptyIsData DEF DataShapes
  <1>4. NoneIsNewer'
    <2>1. \A k \in Keys : heard'[k] <= truth[k] BY <1>0, <1>1 DEF DataShapes
    <2>2. \A s \in Shares : DOMAIN fulls'[s].data = {} /\ fulls'[s].at = "none"
      BY <1>0, EmptyIsData
    <2> QED BY <1>0, <1>1, <2>1, <2>2, EmptyIsData DEF NoneIsNewer
  <1>5. UnsentIsFlushed' BY <1>0 DEF UnsentIsFlushed
  <1>6. AllOnTheirWay'
    <2> SUFFICES ASSUME row # NoShare, row \in published', ~overlapped, NEW k \in Keys \ (missed' \cup removed)
                 PROVE  OnItsWay(k)'
      BY <1>0 DEF AllOnTheirWay
    <2>1. /\ k \notin missed /\ heard[k] = truth[k] /\ k \notin DOMAIN unsent
          /\ \A m \in posts : k \notin DOMAIN m.data
          /\ \A s \in Shares : fulls[s].at = "none"
      BY <1>2
    <2>2. OnItsWay(k) BY <1>0, <2>1 DEF ShareInv, AllOnTheirWay
    <2> QED BY <1>0, <2>1, <2>2 DEF OnItsWay
  <1> QED BY <1>3, <1>4, <1>5, <1>6 DEF DataInv

-----------------------------------------------------------------------------
\* The steps of calls send nothing: what was on its way to the share of the table
\* stays so, or the table has another share, or none, or calls overlap.
DataRests ==
    /\ UNCHANGED <<truth, removed, heard, delayed, posts, content, missed>>
    /\ unsent' = unsent \/ unsent' = Empty
    /\ fulls' = fulls \/ \E s \in Shares : fulls' = [fulls EXCEPT ![s].at = "starts"]
    /\ overlapped => overlapped'
    /\ \/ row' = NoShare \/ overlapped'
       \/ \E s \in Shares : fulls'[s].at = "starts"
       \/ UNCHANGED <<row, unsent, fulls>> /\ (row \in published' => row \in published)

LEMMA DataRestsInv ==
    ASSUME ShareInv, DataRests
    PROVE  DataInv'
  <1>0. DataShapes /\ NoneIsNewer /\ UnsentIsFlushed BY DEF ShareInv
  <1>1. UNCHANGED <<truth, removed, heard, delayed, posts, content, missed>> BY DEF DataRests
  <1>2. unsent' = unsent \/ unsent' = Empty BY DEF DataRests
  <1>3. /\ fulls' \in [Shares -> FullRecord]
        /\ \A s \in Shares : fulls'[s].data = fulls[s].data
        /\ \A s \in Shares : fulls'[s].at = "read" => fulls[s].at = "read"
    <2>1. CASE fulls' = fulls BY <1>0, <2>1 DEF DataShapes
    <2>2. ASSUME NEW s \in Shares, fulls' = [fulls EXCEPT ![s].at = "starts"]
          PROVE  /\ fulls' \in [Shares -> FullRecord]
                 /\ \A t \in Shares : fulls'[t].data = fulls[t].data
                 /\ \A t \in Shares : fulls'[t].at = "read" => fulls[t].at = "read"
      <3>1. fulls \in [Shares -> FullRecord] BY <1>0 DEF DataShapes
      <3> QED BY <2>2, <3>1 DEF FullRecord
    <2> QED BY <2>1, <2>2 DEF DataRests
  <1>4. DataShapes' BY <1>0, <1>1, <1>2, <1>3, EmptyIsData DEF DataShapes
  <1>5. NoneIsNewer'
    <2>1. \A k \in DOMAIN unsent' : unsent'[k] <= truth[k]
      BY <1>0, <1>2, EmptyIsData DEF NoneIsNewer
    <2> QED BY <1>0, <1>1, <1>3, <2>1 DEF NoneIsNewer
  <1>6. UnsentIsFlushed' BY <1>0, <1>1, <1>2 DEF UnsentIsFlushed
  <1>7. AllOnTheirWay'
    <2> SUFFICES ASSUME row' # NoShare, row' \in published', ~overlapped', NEW k \in Keys \ (missed \cup removed)
                 PROVE  OnItsWay(k)'
      BY <1>1 DEF AllOnTheirWay
    <2>1. CASE \E s \in Shares : fulls'[s].at = "starts" BY <2>1 DEF OnItsWay
    <2>2. CASE UNCHANGED <<row, unsent, fulls>> /\ (row \in published' => row \in published)
      <3>1. OnItsWay(k) BY <2>2 DEF DataRests, ShareInv, AllOnTheirWay
      <3> QED BY <1>1, <2>2, <3>1 DEF OnItsWay
    <2> QED BY <2>1, <2>2 DEF DataRests
  <1> QED BY <1>4, <1>5, <1>6, <1>7 DEF DataInv

LEMMA ShareBeginsInv ==
    ASSUME ShareInv, NEW s \in Shares, ShareBegins(s)
    PROVE  DataRests /\ CallInv'
  <1>0. /\ UNCHANGED <<truth, removed, heard, row, known, unsent, delayed, posts, fulls, content, url,
                      removing, victim, deleted, stale, missed, stranded>>
        /\ sharing[s] = "new" /\ ~deleted
        /\ overlapped' = (overlapped \/ UnderWay \/ row # NoShare)
    BY DEF ShareBegins, shareData, shareQueue
  <1>1. CallShapes /\ CacheAgrees /\ OneCall /\ PublicIsTold /\ BeginsFresh BY DEF ShareInv
  <1>2. \E how \in {"posted", "failed"} : sharing' = [sharing EXCEPT ![s] = how]
    BY DEF ShareBegins
  <1>3. sharing' \in [Shares -> SharingStates] /\ \A t \in Shares \ {s} : sharing'[t] = sharing[t]
    BY <1>1, <1>2 DEF CallShapes, SharingStates
  <1>4. published \subseteq published' /\ published' \subseteq published \cup {s} BY DEF ShareBegins
  <1>5. DataRests
    <2>1. row # s BY <1>0, <1>1 DEF CacheAgrees
    <2> QED BY <1>0, <1>4, <2>1 DEF DataRests
  <1>6. CallShapes'
    <2>1. failures' \in 0 .. MaxFailures /\ overlapped' \in BOOLEAN
      BY <1>0, <1>1, ShareAssumption DEF ShareBegins, Fails, CallShapes, UnderWay
    <2>2. published' \subseteq Links BY <1>1, <1>4 DEF CallShapes, Links
    <2> QED BY <1>0, <1>1, <1>3, <2>1, <2>2 DEF CallShapes
  <1>7. CacheAgrees'
    <2>1. row \in Shares => sharing'[row] \notin {"new", "posted"} BY <1>0, <1>1, <1>3 DEF CacheAgrees
    <2> QED BY <1>0, <1>1, <2>1 DEF CacheAgrees
  <1>8. ~overlapped' => /\ \A t \in Shares : SharesNow(t)' => t = s
                        /\ \A u \in Removers : ~RemovesNow(u) /\ ~RemovesNow(u)'
    BY <1>0, <1>3 DEF UnderWay, SharesNow, RemovesNow
  <1>9. OneCall' BY <1>8 DEF OneCall
  <1>f. NoCallFailed' => NoCallFailed BY <1>0, <1>3, FailedStays
  <1>10. PublicIsTold'
    <2> SUFFICES ASSUME ~overlapped', NoCallFailed' PROVE PublicIsTold' BY DEF PublicIsTold
    <2>1. sharing' = [sharing EXCEPT ![s] = "posted"] /\ published' = published \cup {s}
      BY <1>1 DEF ShareBegins, NoCallFailed, CallShapes
    <2>2. sharing'[s] = "posted" BY <1>1, <2>1 DEF CallShapes
    <2>3. row = NoShare /\ published = {} /\ url = NoShare
      BY <1>0, <1>1, <1>f, <2>1 DEF PublicIsTold, AtRest
    <2>4. WhileShared' BY <1>0, <1>8, <2>1, <2>2, <2>3 DEF WhileShared
    <2>5. WhileRemoved' BY <1>8 DEF WhileRemoved
    <2>6. WhileDeleted' BY <1>0 DEF WhileDeleted
    <2>7. AtRest' BY <2>2 DEF AtRest, UnderWay
    <2> QED BY <2>4, <2>5, <2>6, <2>7 DEF PublicIsTold
  <1>11. BeginsFresh' BY <1>0, <1>1 DEF BeginsFresh
  <1> QED BY <1>5, <1>6, <1>7, <1>9, <1>10, <1>11 DEF CallInv

LEMMA ShareStoresInv ==
    ASSUME ShareInv, NEW s \in Shares, ShareStores(s)
    PROVE  DataRests /\ CallInv'
  <1>0. /\ UNCHANGED <<truth, removed, heard, unsent, delayed, posts, content, url, published,
                      removing, victim, deleted, stale, missed, failures, overlapped>>
        /\ sharing[s] = "posted"
    BY DEF ShareStores, shareData
  <1>1. CallShapes /\ CacheAgrees /\ OneCall /\ PublicIsTold /\ BeginsFresh /\ DataShapes BY DEF ShareInv
  <1>f. NoCallFailed' => NoCallFailed
    <2>1. \E how \in {"failed", "stored"} : sharing' = [sharing EXCEPT ![s] = how] BY DEF ShareStores
    <2> QED BY <1>0, <1>1, <2>1, FailedStays DEF CallShapes
  <1>a. CASE deleted
    <2>1. sharing' = [sharing EXCEPT ![s] = "failed"] /\ UNCHANGED <<row, known, fulls, stranded>>
      BY <1>a DEF ShareStores
    <2>2. sharing' \in [Shares -> SharingStates] /\ sharing'[s] = "failed"
          /\ \A t \in Shares \ {s} : sharing'[t] = sharing[t]
      BY <1>1, <2>1 DEF CallShapes, SharingStates
    <2>3. DataRests BY <1>0, <2>1 DEF DataRests
    <2>4. CallShapes' BY <1>0, <1>1, <2>1, <2>2 DEF CallShapes
    <2>5. CacheAgrees' BY <1>0, <1>1, <2>1, <2>2 DEF CacheAgrees
    <2>6. OneCall'
      <3>1. /\ \A t \in Shares : SharesNow(t)' => SharesNow(t)
            /\ \A u \in Removers : RemovesNow(u)' => RemovesNow(u)
        BY <1>0, <2>2 DEF SharesNow, RemovesNow
      <3> QED BY <1>0, <1>1, <3>1, GoingOn
    <2>7. PublicIsTold'
      <3>1. SharesNow(s) BY <1>0 DEF SharesNow
      <3>2. ~(~overlapped /\ NoCallFailed) BY <1>1, <1>a, <3>1 DEF PublicIsTold, WhileShared
      <3> QED BY <1>0, <1>f, <3>2 DEF PublicIsTold
    <2>8. BeginsFresh' BY <1>0, <1>1 DEF BeginsFresh
    <2> QED BY <2>3, <2>4, <2>5, <2>6, <2>7, <2>8 DEF CallInv
  <1>b. CASE ~deleted
    <2>1. /\ sharing' = [sharing EXCEPT ![s] = "stored"] /\ row' = s /\ known' = s /\ stranded' = FALSE
          /\ fulls' = [fulls EXCEPT ![s].at = "starts"]
      BY <1>b DEF ShareStores
    <2>2. sharing' \in [Shares -> SharingStates] /\ sharing'[s] = "stored"
          /\ \A t \in Shares \ {s} : sharing'[t] = sharing[t]
      BY <1>1, <2>1 DEF CallShapes, SharingStates
    <2>3. DataRests
      <3>1. fulls'[s].at = "starts" BY <1>1, <2>1 DEF DataShapes, FullRecord
      <3> QED BY <1>0, <2>1, <3>1 DEF DataRests
    <2>4. CallShapes'
      <3>1. row' \in Links /\ known' \in Links BY <2>1 DEF Links
      <3> QED BY <1>0, <1>1, <2>1, <2>2, <3>1 DEF CallShapes
    <2>5. CacheAgrees' BY <1>0, <1>b, <2>1, <2>2 DEF CacheAgrees
    <2>6. OneCall'
      <3>1. /\ \A t \in Shares : SharesNow(t)' => SharesNow(t)
            /\ \A u \in Removers : RemovesNow(u)' => RemovesNow(u)
        BY <1>0, <2>2 DEF SharesNow, RemovesNow
      <3> QED BY <1>0, <1>1, <3>1, GoingOn
    <2>7. PublicIsTold'
      <3> SUFFICES ASSUME ~overlapped, NoCallFailed' PROVE PublicIsTold' BY <1>0 DEF PublicIsTold
      <3>1. SharesNow(s) BY <1>0 DEF SharesNow
      <3>2. /\ \A t \in Shares \ {s} : ~SharesNow(t)
            /\ \A u \in Removers : ~RemovesNow(u)
        BY <1>1, <3>1 DEF OneCall
      <3>3. WhileShared'
        <4>1. url = NoShare /\ published = {s} BY <1>1, <1>f, <3>1 DEF PublicIsTold, WhileShared
        <4>2. \A t \in Shares : SharesNow(t)' => t = s BY <2>2, <3>2 DEF SharesNow
        <4> QED BY <1>0, <1>b, <2>1, <2>2, <4>1, <4>2 DEF WhileShared
      <3>4. WhileRemoved' BY <1>0, <3>2 DEF WhileRemoved, RemovesNow
      <3>5. WhileDeleted' BY <1>0, <1>b DEF WhileDeleted
      <3>6. AtRest' BY <2>2 DEF AtRest, UnderWay
      <3> QED BY <3>3, <3>4, <3>5, <3>6 DEF PublicIsTold
    <2>8. BeginsFresh' BY <1>0, <1>1 DEF BeginsFresh
    <2> QED BY <2>3, <2>4, <2>5, <2>6, <2>7, <2>8 DEF CallInv
  <1> QED BY <1>a, <1>b

LEMMA ShareShowsInv ==
    ASSUME ShareInv, NEW s \in Shares, ShareShows(s)
    PROVE  DataRests /\ CallInv'
  <1>0. /\ UNCHANGED <<truth, removed, heard, row, known, unsent, delayed, posts, fulls, content, published,
                      removing, victim, deleted, stale, missed, failures, overlapped, stranded>>
        /\ sharing[s] = "stored" /\ sharing' = [sharing EXCEPT ![s] = "done"]
        /\ url' = IF deleted THEN url ELSE s
    BY DEF ShareShows, shareData, shareQueue, shareHist
  <1>1. CallShapes /\ CacheAgrees /\ OneCall /\ PublicIsTold /\ BeginsFresh BY DEF ShareInv
  <1>2. sharing' \in [Shares -> SharingStates] /\ sharing'[s] = "done"
        /\ \A t \in Shares \ {s} : sharing'[t] = sharing[t]
    BY <1>0, <1>1 DEF CallShapes, SharingStates
  <1>f. NoCallFailed' => NoCallFailed BY <1>0, <1>2, FailedStays
  <1>3. DataRests BY <1>0 DEF DataRests
  <1>4. CallShapes'
    <2>1. url' \in Links \cup {NoShare} BY <1>0, <1>1 DEF CallShapes, Links
    <2> QED BY <1>0, <1>1, <1>2, <2>1 DEF CallShapes
  <1>5. CacheAgrees' BY <1>0, <1>1, <1>2 DEF CacheAgrees
  <1>6. OneCall'
    <2>1. /\ \A t \in Shares : SharesNow(t)' => SharesNow(t)
          /\ \A u \in Removers : RemovesNow(u)' => RemovesNow(u)
      BY <1>0, <1>2 DEF SharesNow, RemovesNow
    <2> QED BY <1>0, <1>1, <2>1, GoingOn
  <1>7. PublicIsTold'
    <2> SUFFICES ASSUME ~overlapped, NoCallFailed' PROVE PublicIsTold' BY <1>0 DEF PublicIsTold
    <2>1. SharesNow(s) BY <1>0 DEF SharesNow
    <2>2. /\ \A t \in Shares \ {s} : ~SharesNow(t)
          /\ \A u \in Removers : ~RemovesNow(u)
      BY <1>1, <2>1 DEF OneCall
    <2>3. ~deleted /\ published = {s} /\ row = s
      BY <1>0, <1>1, <1>f, <2>1 DEF PublicIsTold, WhileShared
    <2>4. WhileShared' BY <1>2, <2>2 DEF WhileShared, SharesNow
    <2>5. WhileRemoved' BY <1>0, <2>2 DEF WhileRemoved, RemovesNow
    <2>6. WhileDeleted' BY <1>0, <2>3 DEF WhileDeleted
    <2>7. AtRest'
      <3>1. s # NoShare BY ShareAssumption
      <3> QED BY <1>0, <2>3, <3>1 DEF AtRest
    <2> QED BY <2>4, <2>5, <2>6, <2>7 DEF PublicIsTold
  <1>8. BeginsFresh' BY <1>0, <1>1 DEF BeginsFresh
  <1> QED BY <1>3, <1>4, <1>5, <1>6, <1>7, <1>8 DEF CallInv

LEMMA DeleteInv ==
    ASSUME ShareInv, Delete
    PROVE  DataRests /\ CallInv'
  <1>0. /\ UNCHANGED <<truth, removed, heard, known, unsent, delayed, posts, fulls, content, published,
                      sharing, removing, victim, stale, missed, failures, stranded>>
        /\ ~deleted /\ deleted' = TRUE /\ row' = NoShare /\ url' = NoShare
        /\ overlapped' = (overlapped \/ UnderWay)
    BY DEF Delete, shareData, shareQueue
  <1>1. CallShapes /\ CacheAgrees /\ OneCall /\ PublicIsTold /\ BeginsFresh BY DEF ShareInv
  <1>f. NoCallFailed' => NoCallFailed BY <1>0, FailedStays
  <1>2. DataRests BY <1>0 DEF DataRests
  <1>3. CallShapes' BY <1>0, <1>1 DEF CallShapes, UnderWay
  <1>4. CacheAgrees'
    <2>1. NoShare \notin Shares BY ShareAssumption
    <2> QED BY <1>0, <2>1 DEF CacheAgrees
  <1>5. OneCall' BY <1>0, <1>1 DEF OneCall, SharesNow, RemovesNow
  <1>6. PublicIsTold'
    <2> SUFFICES ASSUME ~overlapped', NoCallFailed' PROVE PublicIsTold' BY DEF PublicIsTold
    <2>1. ~overlapped /\ ~UnderWay BY <1>0
    <2>2. /\ \A t \in Shares : ~SharesNow(t)
          /\ \A u \in Removers : ~RemovesNow(u)
      BY <2>1 DEF UnderWay, SharesNow, RemovesNow
    <2>3. published = {row} \ {NoShare} BY <1>0, <1>1, <1>f, <2>1 DEF PublicIsTold, AtRest
    <2>4. WhileShared' BY <1>0, <2>2 DEF WhileShared, SharesNow
    <2>5. WhileRemoved' BY <1>0, <2>2 DEF WhileRemoved, RemovesNow
    <2>6. WhileDeleted'
      <3>1. known \in Links => row \in {known, NoShare}
        BY <1>0, <1>1, <2>1, ShareAssumption DEF CacheAgrees, Links
      <3>2. known \in Links => published \subseteq {known} BY <2>3, <3>1
      <3> QED BY <1>0, <1>1, <3>2 DEF WhileDeleted, BeginsFresh, Removers
    <2>7. AtRest' BY <1>0 DEF AtRest
    <2> QED BY <2>4, <2>5, <2>6, <2>7 DEF PublicIsTold
  <1>7. BeginsFresh' BY <1>0, <1>1 DEF BeginsFresh
  <1> QED BY <1>2, <1>3, <1>4, <1>5, <1>6, <1>7 DEF CallInv

LEMMA RemoveBeginsInv ==
    ASSUME ShareInv, NEW u \in Removers, RemoveBegins(u)
    PROVE  DataRests /\ CallInv'
  <1>0. /\ UNCHANGED <<truth, removed, heard, row, delayed, posts, fulls, content, published, url,
                      sharing, deleted, stale, missed, failures, stranded>>
        /\ removing[u] = "new" /\ (u = Watcher <=> deleted)
        /\ overlapped' = (overlapped \/ UnderWay)
    BY DEF RemoveBegins, shareData
  <1>1. CallShapes /\ CacheAgrees /\ OneCall /\ PublicIsTold /\ BeginsFresh BY DEF ShareInv
  <1>n. NoShare \notin Links /\ Unknown \notin Links BY ShareAssumption DEF Links
  <1>2. /\ ~overlapped' => ~overlapped /\ ~UnderWay
        /\ overlapped' \in BOOLEAN /\ (overlapped => overlapped')
    BY <1>0, <1>1 DEF CallShapes, UnderWay
  <1>3. ~overlapped' => /\ \A t \in Shares : ~SharesNow(t) /\ ~SharesNow(t)'
                        /\ \A v \in Removers : ~RemovesNow(v)
    BY <1>0, <1>2 DEF UnderWay, SharesNow, RemovesNow
  <1>f. NoCallFailed' => NoCallFailed
    <2>1. \E how \in {"removed", "deleting"} : removing' = [removing EXCEPT ![u] = how] BY DEF RemoveBegins
    <2> QED BY <1>0, <1>1, <2>1, FailedStays DEF CallShapes
  <1>a. CASE Cached = NoShare
    <2>1. /\ known' = Unknown /\ unsent' = Empty /\ victim' = victim
          /\ removing' = [removing EXCEPT ![u] = "removed"]
      BY <1>a DEF RemoveBegins
    <2>2. removing' \in [Removers -> RemovingStates] /\ removing'[u] = "removed"
          /\ \A v \in Removers \ {u} : removing'[v] = removing[v]
      BY <1>1, <2>1 DEF CallShapes, RemovingStates
    <2>3. ~overlapped' => row = NoShare BY <1>1, <1>2, <1>a, CachedIsRow
    <2>4. DataRests BY <1>0, <1>2, <2>1, <2>3 DEF DataRests
    <2>5. CallShapes' BY <1>0, <1>1, <1>2, <2>1, <2>2 DEF CallShapes
    <2>6. CacheAgrees' BY <1>0, <1>1, <1>2, <2>1 DEF CacheAgrees
    <2>7. OneCall' BY <1>3, <2>2 DEF OneCall, RemovesNow
    <2>8. PublicIsTold'
      <3> SUFFICES ASSUME ~overlapped', NoCallFailed' PROVE PublicIsTold' BY DEF PublicIsTold
      <3>1. ~deleted => published = {} /\ url = NoShare
        BY <1>1, <1>f, <1>2, <2>3 DEF PublicIsTold, AtRest
      <3>2. WhileShared' BY <1>3 DEF WhileShared
      <3>3. WhileRemoved'
        <4>1. \A v \in Removers : RemovesNow(v)' => v = u BY <1>3, <2>2 DEF RemovesNow
        <4>2. victim[u] = NoShare BY <1>0, <1>1 DEF BeginsFresh
        <4> QED BY <1>0, <2>1, <2>2, <2>3, <3>1, <4>1, <4>2 DEF WhileRemoved
      <3>4. WhileDeleted'
        <4>1. deleted => url = NoShare BY <1>1, <1>f, <1>2 DEF PublicIsTold, WhileDeleted
        <4> QED BY <1>0, <2>2, <4>1 DEF WhileDeleted
      <3>5. AtRest' BY <2>2 DEF AtRest, UnderWay
      <3> QED BY <3>2, <3>3, <3>4, <3>5 DEF PublicIsTold
    <2>9. BeginsFresh' BY <1>0, <1>1, <2>1, <2>2 DEF BeginsFresh
    <2> QED BY <2>4, <2>5, <2>6, <2>7, <2>8, <2>9 DEF CallInv
  <1>b. CASE Cached # NoShare
    <2>1. /\ known' = Cached /\ unsent' = unsent /\ victim' = [victim EXCEPT ![u] = Cached]
          /\ removing' = [removing EXCEPT ![u] = "deleting"]
      BY <1>b DEF RemoveBegins
    <2>2. removing' \in [Removers -> RemovingStates] /\ removing'[u] = "deleting"
          /\ \A v \in Removers \ {u} : removing'[v] = removing[v]
      BY <1>1, <2>1 DEF CallShapes, RemovingStates
    <2>3. Cached \in Links BY <1>1, <1>b, CachedIsRow
    <2>4. victim' \in [Removers -> Links \cup {NoShare}] /\ victim'[u] = Cached
          /\ \A v \in Removers \ {u} : victim'[v] = victim[v]
      BY <1>1, <2>1, <2>3 DEF CallShapes
    <2>5. DataRests BY <1>0, <1>2, <2>1 DEF DataRests
    <2>6. CallShapes' BY <1>0, <1>1, <1>2, <2>1, <2>2, <2>3, <2>4 DEF CallShapes
    <2>7. CacheAgrees' BY <1>0, <1>1, <1>2, <2>1, CachedIsRow DEF CacheAgrees
    <2>8. OneCall' BY <1>3, <2>2 DEF OneCall, RemovesNow
    <2>9. PublicIsTold'
      <3> SUFFICES ASSUME ~overlapped', NoCallFailed' PROVE PublicIsTold' BY DEF PublicIsTold
      <3>1. published \subseteq {Cached}
        <4>1. CASE ~deleted
          <5>1. row \in {Cached, NoShare} BY <1>1, <1>2, <4>1, CachedIsRow
          <5>2. published = {row} \ {NoShare} BY <1>1, <1>f, <1>2, <4>1 DEF PublicIsTold, AtRest
          <5> QED BY <1>b, <5>1, <5>2
        <4>2. CASE deleted
          <5>1. row = NoShare BY <1>1, <4>2 DEF CacheAgrees
          <5>2. Cached = known BY <1>b, <5>1 DEF Cached
          <5> QED BY <1>0, <1>1, <1>f, <1>2, <2>3, <4>2, <5>2 DEF PublicIsTold, WhileDeleted
        <4> QED BY <4>1, <4>2
      <3>2. WhileShared' BY <1>3 DEF WhileShared
      <3>3. WhileRemoved'
        <4>1. \A v \in Removers : RemovesNow(v)' => v = u BY <1>3, <2>2 DEF RemovesNow
        <4> QED BY <1>0, <2>2, <2>3, <2>4, <3>1, <4>1 DEF WhileRemoved
      <3>4. WhileDeleted'
        <4>1. deleted => url = NoShare BY <1>1, <1>f, <1>2 DEF PublicIsTold, WhileDeleted
        <4> QED BY <1>0, <2>2, <4>1 DEF WhileDeleted
      <3>5. AtRest' BY <2>2 DEF AtRest, UnderWay
      <3> QED BY <3>2, <3>3, <3>4, <3>5 DEF PublicIsTold
    <2>10. BeginsFresh' BY <1>0, <1>1, <2>2, <2>4 DEF BeginsFresh, Removers
    <2> QED BY <2>5, <2>6, <2>7, <2>8, <2>9, <2>10 DEF CallInv
  <1> QED BY <1>a, <1>b

LEMMA RemoveDeletesInv ==
    ASSUME ShareInv, NEW u \in Removers, RemoveDeletes(u)
    PROVE  DataRests /\ CallInv'
  <1>0. /\ UNCHANGED <<truth, removed, heard, row, known, unsent, delayed, posts, fulls, content, url,
                      sharing, victim, deleted, stale, missed, overlapped, stranded>>
        /\ removing[u] = "deleting" /\ published' \subseteq published
    BY DEF RemoveDeletes, shareData, shareQueue
  <1>1. CallShapes /\ CacheAgrees /\ OneCall /\ PublicIsTold /\ BeginsFresh BY DEF ShareInv
  <1>2. \E how \in {"deleted", "failed"} : removing' = [removing EXCEPT ![u] = how]
    BY DEF RemoveDeletes
  <1>3. removing' \in [Removers -> RemovingStates] /\ removing'[u] \in {"deleted", "failed"}
        /\ \A v \in Removers \ {u} : removing'[v] = removing[v]
    BY <1>1, <1>2 DEF CallShapes, RemovingStates
  <1>f. NoCallFailed' => NoCallFailed BY <1>0, <1>3, FailedStays
  <1>4. DataRests BY <1>0 DEF DataRests
  <1>5. CallShapes'
    <2>1. failures' \in 0 .. MaxFailures BY <1>1, ShareAssumption DEF RemoveDeletes, Fails, CallShapes
    <2> QED BY <1>0, <1>1, <1>3, <2>1 DEF CallShapes
  <1>6. CacheAgrees' BY <1>0, <1>1 DEF CacheAgrees
  <1>7. OneCall'
    <2>1. /\ \A t \in Shares : SharesNow(t)' => SharesNow(t)
          /\ \A v \in Removers : RemovesNow(v)' => RemovesNow(v)
      BY <1>0, <1>3 DEF SharesNow, RemovesNow
    <2> QED BY <1>0, <1>1, <2>1, GoingOn
  <1>8. PublicIsTold'
    <2> SUFFICES ASSUME ~overlapped, NoCallFailed' PROVE PublicIsTold' BY <1>0 DEF PublicIsTold
    <2>2. RemovesNow(u) BY <1>0 DEF RemovesNow
    <2>3. /\ \A t \in Shares : ~SharesNow(t)
          /\ \A v \in Removers \ {u} : ~RemovesNow(v)
      BY <1>1, <2>2 DEF OneCall
    <2>4. victim[u] \in Links /\ published \subseteq {victim[u]} /\ (u = Watcher <=> deleted)
      BY <1>0, <1>1, <1>f, <2>2 DEF PublicIsTold, WhileRemoved
    <2>5. removing'[u] = "deleted" /\ published' = {}
      <3>1. removing' # [removing EXCEPT ![u] = "failed"] BY <1>1, <1>3 DEF NoCallFailed, CallShapes
      <3>2. removing' = [removing EXCEPT ![u] = "deleted"] /\ published' = published \ {victim[u]}
        BY <3>1 DEF RemoveDeletes
      <3> QED BY <1>1, <2>4, <3>2 DEF CallShapes
    <2>6. WhileShared' BY <1>0, <2>3 DEF WhileShared, SharesNow
    <2>7. WhileRemoved'
      <3>1. \A v \in Removers : RemovesNow(v)' => v = u BY <1>3, <2>3 DEF RemovesNow
      <3> QED BY <1>0, <2>4, <2>5, <3>1 DEF WhileRemoved
    <2>8. WhileDeleted'
      <3>1. deleted => url = NoShare BY <1>1, <1>f DEF PublicIsTold, WhileDeleted
      <3> QED BY <1>0, <2>4, <2>5, <3>1 DEF WhileDeleted
    <2>9. AtRest' BY <2>5 DEF AtRest, UnderWay
    <2> QED BY <2>6, <2>7, <2>8, <2>9 DEF PublicIsTold
  <1>9. BeginsFresh'
    <2>1. u = Watcher => deleted BY <1>0, <1>1 DEF BeginsFresh
    <2> QED BY <1>0, <1>1, <1>3, <2>1 DEF BeginsFresh, Removers
  <1> QED BY <1>4, <1>5, <1>6, <1>7, <1>8, <1>9 DEF CallInv

LEMMA RemoveClearsInv ==
    ASSUME ShareInv, NEW u \in Removers, RemoveClears(u)
    PROVE  DataRests /\ CallInv'
  <1>0. /\ UNCHANGED <<truth, removed, heard, delayed, posts, fulls, content, published, url,
                      sharing, victim, deleted, stale, missed, failures, overlapped>>
        /\ removing[u] = "deleted" /\ removing' = [removing EXCEPT ![u] = "removed"]
        /\ row' = NoShare
        /\ IF u \in stale
           THEN stranded' = (known \in Links) /\ UNCHANGED <<known, unsent>>
           ELSE stranded' = FALSE /\ known' = Unknown /\ unsent' = Empty
    BY DEF RemoveClears, shareData
  <1>2. /\ unsent' \in {unsent, Empty} /\ known' \in {known, Unknown}
        /\ stranded' \in BOOLEAN
        /\ ~stranded' => known' = Unknown \/ known \notin Links
    <2>1. CASE u \in stale /\ known \in Links BY <1>0, <2>1
    <2>2. CASE u \in stale /\ known \notin Links BY <1>0, <2>2
    <2>3. CASE u \notin stale BY <1>0, <2>3
    <2> QED BY <2>1, <2>2, <2>3
  <1>1. CallShapes /\ CacheAgrees /\ OneCall /\ PublicIsTold /\ BeginsFresh BY DEF ShareInv
  <1>n. NoShare \notin Links /\ Unknown \notin Links /\ NoShare \notin Shares
    BY ShareAssumption DEF Links
  <1>3. removing' \in [Removers -> RemovingStates] /\ removing'[u] = "removed"
        /\ \A v \in Removers \ {u} : removing'[v] = removing[v]
    BY <1>0, <1>1 DEF CallShapes, RemovingStates
  <1>f. NoCallFailed' => NoCallFailed BY <1>0, <1>3, FailedStays
  <1>4. DataRests BY <1>0, <1>2 DEF DataRests
  <1>5. CallShapes'
    <2>1. known' \in Links \cup {NoShare, Unknown} BY <1>1, <1>2 DEF CallShapes
    <2> QED BY <1>0, <1>1, <1>2, <1>3, <2>1 DEF CallShapes
  <1>6. CacheAgrees' BY <1>0, <1>1, <1>2, <1>n DEF CacheAgrees, CallShapes
  <1>7. OneCall'
    <2>1. /\ \A t \in Shares : SharesNow(t)' => SharesNow(t)
          /\ \A v \in Removers : RemovesNow(v)' => RemovesNow(v)
      BY <1>0, <1>3 DEF SharesNow, RemovesNow
    <2> QED BY <1>0, <1>1, <2>1, GoingOn
  <1>8. PublicIsTold'
    <2> SUFFICES ASSUME ~overlapped, NoCallFailed' PROVE PublicIsTold' BY <1>0 DEF PublicIsTold
    <2>2. RemovesNow(u) BY <1>0 DEF RemovesNow
    <2>3. /\ \A t \in Shares : ~SharesNow(t)
          /\ \A v \in Removers \ {u} : ~RemovesNow(v)
      BY <1>1, <2>2 DEF OneCall
    <2>4. published = {} /\ (u = Watcher <=> deleted)
      BY <1>0, <1>1, <1>f, <2>2 DEF PublicIsTold, WhileRemoved
    <2>6. WhileShared' BY <1>0, <2>3 DEF WhileShared, SharesNow
    <2>7. WhileRemoved'
      <3>1. \A v \in Removers : RemovesNow(v)' => v = u BY <1>3, <2>3 DEF RemovesNow
      <3> QED BY <1>0, <1>3, <2>4, <3>1 DEF WhileRemoved
    <2>8. WhileDeleted'
      <3>1. deleted => url = NoShare BY <1>1, <1>f DEF PublicIsTold, WhileDeleted
      <3> QED BY <1>0, <1>3, <2>4, <3>1 DEF WhileDeleted
    <2>9. AtRest' BY <1>3 DEF AtRest, UnderWay
    <2> QED BY <2>6, <2>7, <2>8, <2>9 DEF PublicIsTold
  <1>9. BeginsFresh'
    <2>1. u = Watcher => deleted BY <1>0, <1>1 DEF BeginsFresh
    <2> QED BY <1>0, <1>1, <1>3, <2>1 DEF BeginsFresh, Removers
  <1> QED BY <1>4, <1>5, <1>6, <1>7, <1>8, <1>9 DEF CallInv

LEMMA RemoveShowsInv ==
    ASSUME ShareInv, NEW u \in Removers, RemoveShows(u)
    PROVE  DataRests /\ CallInv'
  <1>0. /\ UNCHANGED <<truth, removed, heard, row, known, unsent, delayed, posts, fulls, content, published,
                      sharing, victim, deleted, stale, missed, failures, overlapped, stranded>>
        /\ removing[u] = "removed" /\ removing' = [removing EXCEPT ![u] = "done"]
        /\ url' = IF u = Watcher THEN url ELSE NoShare
    BY DEF RemoveShows, shareData, shareQueue, shareHist
  <1>1. CallShapes /\ CacheAgrees /\ OneCall /\ PublicIsTold /\ BeginsFresh BY DEF ShareInv
  <1>3. removing' \in [Removers -> RemovingStates] /\ removing'[u] = "done"
        /\ \A v \in Removers \ {u} : removing'[v] = removing[v]
    BY <1>0, <1>1 DEF CallShapes, RemovingStates
  <1>f. NoCallFailed' => NoCallFailed BY <1>0, <1>3, FailedStays
  <1>4. DataRests BY <1>0 DEF DataRests
  <1>5. CallShapes'
    <2>1. url' \in Links \cup {NoShare} BY <1>0, <1>1 DEF CallShapes
    <2> QED BY <1>0, <1>1, <1>3, <2>1 DEF CallShapes
  <1>6. CacheAgrees' BY <1>0, <1>1 DEF CacheAgrees
  <1>7. OneCall'
    <2>1. /\ \A t \in Shares : SharesNow(t)' => SharesNow(t)
          /\ \A v \in Removers : RemovesNow(v)' => RemovesNow(v)
      BY <1>0, <1>3 DEF SharesNow, RemovesNow
    <2> QED BY <1>0, <1>1, <2>1, GoingOn
  <1>8. PublicIsTold'
    <2> SUFFICES ASSUME ~overlapped, NoCallFailed' PROVE PublicIsTold' BY <1>0 DEF PublicIsTold
    <2>2. RemovesNow(u) BY <1>0 DEF RemovesNow
    <2>3. /\ \A t \in Shares : ~SharesNow(t)
          /\ \A v \in Removers \ {u} : ~RemovesNow(v)
      BY <1>1, <2>2 DEF OneCall
    <2>4. /\ row = NoShare /\ (published = {} \/ (deleted /\ victim[u] = NoShare))
          /\ u = Watcher <=> deleted
      BY <1>0, <1>1, <1>f, <2>2 DEF PublicIsTold, WhileRemoved
    <2>6. WhileShared' BY <1>0, <2>3 DEF WhileShared, SharesNow
    <2>7. WhileRemoved' BY <1>3, <2>3 DEF WhileRemoved, RemovesNow
    <2>8. WhileDeleted'
      <3>1. deleted => url = NoShare BY <1>1, <1>f DEF PublicIsTold, WhileDeleted
      <3> QED BY <1>0, <1>3, <2>4, <3>1 DEF WhileDeleted
    <2>9. AtRest' BY <1>0, <2>4 DEF AtRest
    <2> QED BY <2>6, <2>7, <2>8, <2>9 DEF PublicIsTold
  <1>9. BeginsFresh'
    <2>1. u = Watcher => deleted BY <1>0, <1>1 DEF BeginsFresh
    <2> QED BY <1>0, <1>1, <1>3, <2>1 DEF BeginsFresh, Removers
  <1> QED BY <1>4, <1>5, <1>6, <1>7, <1>8, <1>9 DEF CallInv

-----------------------------------------------------------------------------
LEMMA InitShareInv == ShareInit => ShareInv
  <1> SUFFICES ASSUME ShareInit PROVE ShareInv OBVIOUS
  <1>0. MaxVersion \in Nat /\ MaxFailures \in Nat BY ShareAssumption
  <1>n. NoShare \notin Links /\ Unknown \notin Links /\ Earlier \notin Shares
    BY ShareAssumption DEF Links
  <1>1. DataShapes
    <2>1. [k \in Keys |-> 0] \in [Keys -> 0 .. MaxVersion] BY <1>0
    <2>2. [s \in Shares |-> [at |-> "none", data |-> Empty]] \in [Shares -> FullRecord]
      BY EmptyIsData DEF FullRecord
    <2>3. [s \in Links |-> [k \in Keys |-> 0]] \in [Links -> [Keys -> 0 .. MaxVersion]] BY <2>1
    <2> QED BY <2>1, <2>2, <2>3, EmptyIsData DEF ShareInit, DataShapes
  <1>2. CallShapes
    <2>1. row \in Links \cup {NoShare} /\ url \in Links \cup {NoShare} /\ published \subseteq Links
      BY DEF ShareInit, Links
    <2>2. failures \in 0 .. MaxFailures BY <1>0 DEF ShareInit
    <2> QED BY <2>1, <2>2 DEF ShareInit, CallShapes, SharingStates, RemovingStates
  <1>3. NoneIsNewer
    <2>1. \A s \in Links : \A k \in Keys : content[s][k] <= truth[k] BY DEF ShareInit
    <2>2. \A s \in Shares : fulls[s].at = "none" /\ DOMAIN fulls[s].data = {}
      BY EmptyIsData DEF ShareInit
    <2> QED BY <2>1, <2>2, EmptyIsData DEF ShareInit, NoneIsNewer
  <1>4. UnsentIsFlushed BY DEF ShareInit, UnsentIsFlushed
  <1>5. CacheAgrees BY <1>n DEF ShareInit, CacheAgrees, Links
  <1>6. AllOnTheirWay
    <2> SUFFICES ASSUME NEW k \in Keys, row # NoShare PROVE OnItsWay(k) BY DEF AllOnTheirWay
    <2>1. row \in Links BY DEF ShareInit, Links
    <2>2. heard[k] = 0 /\ content[row][k] = 0 BY <2>1 DEF ShareInit
    <2> QED BY <2>2 DEF OnItsWay
  <1>7. (\A s \in Shares : ~SharesNow(s)) /\ (\A u \in Removers : ~RemovesNow(u))
    BY DEF ShareInit, SharesNow, RemovesNow
  <1>8. OneCall BY <1>7 DEF OneCall
  <1>9. PublicIsTold
    <2>1. WhileShared /\ WhileRemoved BY <1>7 DEF WhileShared, WhileRemoved
    <2>2. WhileDeleted /\ AtRest BY DEF ShareInit, WhileDeleted, AtRest
    <2> QED BY <2>1, <2>2 DEF PublicIsTold
  <1>10. BeginsFresh BY DEF ShareInit, BeginsFresh, Removers
  <1> QED BY <1>1, <1>2, <1>3, <1>4, <1>5, <1>6, <1>8, <1>9, <1>10 DEF ShareInv

LEMMA StepShareInv == ShareInv /\ [ShareNext]_shareVars => ShareInv'
  <1> SUFFICES ASSUME ShareInv, [ShareNext]_shareVars PROVE ShareInv' OBVIOUS
  <1>0. CallInv BY DEF ShareInv, CallInv
  <1>1. ASSUME CallsRest, DataInv' PROVE ShareInv'
    <2>1. CallInv' BY <1>0, <1>1, CallsRestInv
    <2> QED BY <1>1, <2>1 DEF DataInv, CallInv, ShareInv
  <1>2. ASSUME DataRests, CallInv' PROVE ShareInv'
    <2>1. DataInv' BY <1>2, DataRestsInv
    <2> QED BY <1>2, <2>1 DEF DataInv, CallInv, ShareInv
  <1>3. ASSUME NEW k \in Keys, Change(k) \/ Hear(k) PROVE ShareInv'
    <2>1. DataInv' BY <1>3, ChangeInv, HearInv
    <2> QED BY <1>0, <1>1, <1>3, <2>1, DataStepsLeaveCalls
  <1>4. CASE Flush
    <2>1. DataInv' BY <1>4, FlushInv
    <2> QED BY <1>0, <1>1, <1>4, <2>1, DataStepsLeaveCalls
  <1>11. ASSUME NEW k \in Removable \ removed, RemoveItem(k) PROVE ShareInv'
    <2>1. DataInv' BY <1>11, RemoveItemInv
    <2> QED BY <1>0, <1>1, <1>11, <2>1, DataStepsLeaveCalls
  <1>12. CASE Redispose
    <2>1. DataInv' /\ CallInv' BY <1>0, <1>12, RedisposeInv, RedisposeCalls
    <2> QED BY <2>1 DEF DataInv, CallInv, ShareInv
  <1>5. ASSUME NEW m \in posts, PostArrives(m) \/ PostFails(m) PROVE ShareInv'
    <2>1. DataInv' BY <1>5, PostArrivesInv, PostFailsInv
    <2> QED BY <1>0, <1>1, <1>5, <2>1, DataStepsLeaveCalls
  <1>6. ASSUME NEW s \in Shares, FullReads(s) \/ FullQueues(s) \/ FullFails(s) PROVE ShareInv'
    <2>1. DataInv' BY <1>6, FullReadsInv, FullQueuesInv, FullFailsInv
    <2> QED BY <1>0, <1>1, <1>6, <2>1, DataStepsLeaveCalls
  <1>7. ASSUME NEW s \in Shares, ShareBegins(s) \/ ShareStores(s) \/ ShareShows(s) PROVE ShareInv'
    BY <1>2, <1>7, ShareBeginsInv, ShareStoresInv, ShareShowsInv
  <1>8. CASE Delete BY <1>2, <1>8, DeleteInv
  <1>9. ASSUME NEW u \in Removers,
               RemoveBegins(u) \/ RemoveDeletes(u) \/ RemoveClears(u) \/ RemoveShows(u)
        PROVE  ShareInv'
    BY <1>2, <1>9, RemoveBeginsInv, RemoveDeletesInv, RemoveClearsInv, RemoveShowsInv
  <1>10. CASE UNCHANGED shareVars
    <2> USE <1>10 DEF shareVars, shareData, shareQueue, shareCalls, shareHist
    <2>1. DataShapes' /\ NoneIsNewer' /\ UnsentIsFlushed' /\ AllOnTheirWay'
      BY DEF ShareInv, DataShapes, NoneIsNewer, UnsentIsFlushed, AllOnTheirWay, OnItsWay
    <2>2. CallShapes' /\ CacheAgrees' /\ OneCall' /\ BeginsFresh'
      BY <1>0 DEF CallInv, CallShapes, CacheAgrees, OneCall, BeginsFresh, SharesNow, RemovesNow
    <2>3. PublicIsTold'
      BY <1>0 DEF CallInv, PublicIsTold, NoCallFailed, WhileShared, WhileRemoved, WhileDeleted, AtRest, UnderWay,
                  SharesNow, RemovesNow
    <2> QED BY <2>1, <2>2, <2>3 DEF ShareInv
  <1> QED BY <1>3, <1>4, <1>5, <1>6, <1>7, <1>8, <1>9, <1>10, <1>11, <1>12 DEF ShareNext

LEMMA QuietIsCurrent == ShareInv => SharedIsCurrent
  <1> SUFFICES ASSUME ShareInv, Quiet, row # NoShare, row \in published, ~overlapped,
                      NEW k \in Keys \ (missed \cup removed)
               PROVE  content[row][k] = truth[k]
    BY DEF SharedIsCurrent
  <1>1. heard = truth /\ DOMAIN unsent = {} /\ posts = {} /\ \A s \in Shares : fulls[s].at = "none"
    BY EmptyIsData DEF Quiet
  <1>2. OnItsWay(k) BY DEF ShareInv, AllOnTheirWay
  <1>3. truth[k] <= content[row][k] BY <1>1, <1>2 DEF OnItsWay
  <1>4. row \in Links BY DEF ShareInv, CallShapes
  <1>5. content[row][k] \in Nat /\ truth[k] \in Nat /\ content[row][k] <= truth[k]
    BY <1>4 DEF ShareInv, DataShapes, NoneIsNewer
  <1> QED BY <1>3, <1>5

LEMMA QuietIsKnown == ShareInv => PublicIsKnown
  <1> SUFFICES ASSUME ShareInv, Quiet, ~overlapped, NoCallFailed
               PROVE  \/ published = {row} \ {NoShare} /\ url = row
                      \/ deleted /\ victim[Watcher] = NoShare
    BY DEF PublicIsKnown
  <1>0. ~UnderWay /\ WhileDeleted /\ AtRest /\ Watcher \in Removers
    BY DEF ShareInv, PublicIsTold, Quiet, Removers
  <1>1. CASE ~deleted BY <1>0, <1>1 DEF AtRest
  <1>2. CASE deleted
    <2>1. removing[Watcher] \in RemovingStates /\ removing[Watcher] # "failed"
      BY <1>0 DEF ShareInv, CallShapes, NoCallFailed
    <2>2. removing[Watcher] = "done" BY <1>0, <1>2, <2>1 DEF Quiet, UnderWay, RemovingStates
    <2>3. row = NoShare /\ url = NoShare BY <1>0, <1>2 DEF ShareInv, CacheAgrees, WhileDeleted
    <2> QED BY <1>0, <1>2, <2>2, <2>3 DEF WhileDeleted
  <1> QED BY <1>1, <1>2

\* The inductive invariant of a share: the last version of a key is on the server or
\* on its way there, and how far the one call is tells what is public.
THEOREM ShareInvHolds == ShareSpec => []ShareInv
  BY InitShareInv, StepShareInv, PTL DEF ShareSpec

\* What the server has is what the session has, and what the session says is there
\* (share-next.ts), for any keys, calls, versions and failures - with the exceptions
\* the contract names.
THEOREM ShareIsKept == ShareSpec => []ShareContract
  <1>1. ShareInv => ShareContract
    <2> SUFFICES ASSUME ShareInv PROVE ShareContract OBVIOUS
    <2>1. ShareTypeOK
      <3>1. \A s \in Shares : fulls[s].at \in {"none", "starts", "read"} /\ fulls[s].data \in Data
        BY DEF ShareInv, DataShapes, FullRecord
      <3> QED BY <3>1 DEF ShareInv, DataShapes, CallShapes, SharingStates, RemovingStates, ShareTypeOK
    <2>2. CacheIsRow BY DEF ShareInv, CacheAgrees, CacheIsRow
    <2> QED BY <2>1, <2>2, QuietIsCurrent, QuietIsKnown DEF ShareInv, ShareContract
  <1> QED BY <1>1, ShareInvHolds, PTL

-----------------------------------------------------------------------------
(* Revert: for any number of prompts, reverts and unreverts.               *)

\* The proofs of the steps look at functions, and at single values where they
\* matter; the sets of all values stay folded.
TurnSet == {"new", "cleaned", "stored", "runs", "done"}
UndoSet == {"new", "read", "shot", "undone", "done", "refused"}
MarkSet == [to : Numbers \cup {0}, snapshot : SUBSET Numbers, shown : SUBSET Numbers]

RevertShapes ==
    /\ messages \subseteq Numbers
    /\ files \subseteq Numbers
    /\ mark \in MarkSet
    /\ turnAt \in [Turns -> TurnSet]
    /\ number \in [Turns -> Numbers \cup {0}]
    /\ undo \in [Undoers -> UndoSet]
    /\ target \in [Reverts -> Numbers \cup {0}]
    /\ listed \in [Reverts -> SUBSET Numbers]
    /\ held \in [Undoers -> MarkSet]
    /\ raced \in BOOLEAN

Undoes(u) == undo[u] \in {"read", "shot", "undone"}

\* A mark names a message that was there when it was made.
Names(k) == k = NoRevert \/ (k.to # 0 /\ k.to \in k.shown)

MarksAreOfMessages ==
    /\ Names(mark)
    /\ \A u \in Undoers : Names(held[u])
    /\ \A r \in Reverts : Undoes(r) => target[r] # 0 /\ target[r] \in listed[r]

\* Every prompt has a number of its own, behind those of the messages before it.
Stored(t) == turnAt[t] \in {"stored", "runs", "done"}

NumbersAreOwn ==
    /\ \A t \in Turns : turnAt[t] = "new" <=> number[t] = 0
    /\ \A t \in Turns : number[t] # 0 => number[t] \in Before + 1 .. NextNumber - 1
    /\ \A s, t \in Turns : number[s] # 0 /\ number[s] = number[t] => s = t
    /\ \A x \in messages : x \in 1 .. Before \/ \E t \in Turns : Stored(t) /\ number[t] = x

\* Unless calls raced: one of them undoes at a time, without a prompt beside it,
\* and a mark stands as long as no prompt begins.
UndoersAreAlone == raced \/
    /\ Undoing => ~Prompting /\ ~SessionBusy
    /\ \A u, v \in Undoers : Undoes(u) /\ Undoes(v) => u = v
    /\ mark # NoRevert => ~Prompting /\ ~SessionBusy /\ messages \subseteq mark.shown

\* The messages whose changes are still to come.
Running == {x \in messages : \E t \in Turns : turnAt[t] \in {"stored", "runs"} /\ number[t] = x}

FilesRest ==
    IF mark = NoRevert
    THEN files = messages \ Running
    ELSE files = {x \in messages : x < mark.to} /\ mark.snapshot = messages

\* What a revert makes of the session when it is done.
Holds(r) == held[r].to = target[r] /\ held[r].snapshot = messages /\ held[r].shown = messages

\* Unless calls raced: where the files are on the way from one mark to the next.
FilesAreOnTheWay == raced \/
    /\ (\A u \in Undoers : undo[u] \notin {"shot", "undone"}) => FilesRest
    /\ \A t \in Turns : turnAt[t] \in {"stored", "runs"} => number[t] \in messages
    /\ \A r \in Reverts : Undoes(r) => listed[r] = messages
    /\ \A u \in Undoers : undo[u] = "read" => held[u] = mark
    /\ \A r \in Reverts : undo[r] = "shot" => files = messages /\ Holds(r)
    /\ \A r \in Reverts : undo[r] = "undone" =>
         files = {x \in messages : x < target[r]} /\ Holds(r)
    /\ \A u \in Unreverts : undo[u] = "read" => mark # NoRevert
    /\ \A u \in Unreverts : undo[u] # "shot"
    /\ \A u \in Unreverts : undo[u] = "undone" => files = messages

RevertInv ==
    /\ RevertShapes /\ MarksAreOfMessages /\ NumbersAreOwn
    /\ UndoersAreAlone /\ FilesAreOnTheWay

-----------------------------------------------------------------------------
LEMMA NumbersAreNat == \A x \in Numbers : x \in Nat /\ x # 0
  <1>1. Cardinality(Turns) \in Nat /\ Before \in Nat
    BY RevertAssumption, FS_CardinalityType
  <1> QED
    BY <1>1 DEF Numbers

LEMMA NoMark == NoRevert \in MarkSet /\ NoRevert.to = 0 /\ Names(NoRevert)
  BY DEF NoRevert, MarkSet, Names

\* The number that a prompt draws is free.
LEMMA NextIsFree ==
    ASSUME RevertShapes, NEW t \in Turns, number[t] = 0,
           number' = [number EXCEPT ![t] = NextNumber]
    PROVE  NextNumber \in Numbers /\ NextNumber > Before /\ NextNumber' = NextNumber + 1
  <1> DEFINE D == {s \in Turns : number[s] # 0}
             E == {s \in Turns : number'[s] # 0}
  <1>1. /\ IsFiniteSet(Turns) /\ Before \in Nat
        /\ IsFiniteSet(D) /\ Cardinality(D) \in Nat /\ Cardinality(Turns) \in Nat
    BY RevertAssumption, FS_Subset, FS_CardinalityType
  <1>2. NextNumber = Cardinality(D) + Before + 1 /\ NextNumber' = Cardinality(E) + Before + 1
    BY DEF NextNumber
  <1>3. NextNumber # 0
    BY <1>1, <1>2
  <1>4. E = D \cup {t}
    BY <1>3 DEF RevertShapes
  <1>5. Cardinality(D \cup {t}) = Cardinality(D) + 1
    BY <1>1, FS_AddElement
  <1>6. Cardinality(D \cup {t}) <= Cardinality(Turns)
    BY <1>1, FS_Subset
  <1> HIDE DEF D, E
  <1> QED
    BY <1>1, <1>2, <1>4, <1>5, <1>6 DEF Numbers

LEMMA InitInv == RevertInit => RevertInv
  <1> SUFFICES ASSUME RevertInit PROVE RevertInv
    OBVIOUS
  <1>1. Before \in Nat /\ Cardinality(Turns) \in Nat
    BY RevertAssumption, FS_CardinalityType
  <1>2. 1 .. Before \subseteq Numbers
    BY <1>1 DEF Numbers
  <1>3. RevertShapes
    BY <1>2, NoMark DEF RevertInit, RevertShapes, TurnSet, UndoSet
  <1>4. MarksAreOfMessages
    BY NoMark DEF RevertInit, MarksAreOfMessages, Undoes, Undoers
  <1>5. NumbersAreOwn
    BY DEF RevertInit, NumbersAreOwn
  <1>6. UndoersAreAlone
    BY DEF RevertInit, UndoersAreAlone, Undoes, Undoing
  <1>7. FilesAreOnTheWay
    BY DEF RevertInit, FilesAreOnTheWay, FilesRest, Running, Undoes, Undoers
  <1> QED
    BY <1>3, <1>4, <1>5, <1>6, <1>7 DEF RevertInv

-----------------------------------------------------------------------------
\* Prompts.
LEMMA TurnBeginsInv ==
    ASSUME RevertInv, NEW t \in Turns, TurnBegins(t)
    PROVE  RevertInv'
  <1>1. /\ turnAt[t] = "new" /\ number[t] = 0
        /\ turnAt' = [turnAt EXCEPT ![t] = "cleaned"]
        /\ number' = [number EXCEPT ![t] = NextNumber]
        /\ messages' = IF mark = NoRevert THEN messages ELSE {x \in messages : x < mark.to}
        /\ mark' = NoRevert
        /\ raced' = (raced \/ Undoing)
        /\ UNCHANGED <<files, undo, target, listed, held>>
    BY DEF TurnBegins, revertCalls, RevertInv, NumbersAreOwn
  <1>2. NextNumber \in Numbers /\ NextNumber > Before /\ NextNumber' = NextNumber + 1
    BY <1>1, NextIsFree DEF RevertInv
  <1>3. NextNumber \in Nat /\ NextNumber # 0 /\ Before \in Nat
    BY <1>2, NumbersAreNat, RevertAssumption
  <1>4. /\ \A s \in Turns : turnAt'[s] = IF s = t THEN "cleaned" ELSE turnAt[s]
        /\ \A s \in Turns : number'[s] = IF s = t THEN NextNumber ELSE number[s]
    BY <1>1 DEF RevertInv, RevertShapes
  <1>5. RevertShapes'
    BY <1>1, <1>2, NoMark DEF RevertInv, RevertShapes, TurnSet
  <1>6. MarksAreOfMessages'
    BY <1>1, NoMark DEF RevertInv, MarksAreOfMessages, Undoes, Names
  <1>7. NumbersAreOwn'
    <2>1. \A s \in Turns : turnAt'[s] = "new" <=> number'[s] = 0
      BY <1>3, <1>4 DEF RevertInv, NumbersAreOwn
    <2>2. \A s \in Turns : number'[s] # 0 => number'[s] \in Before + 1 .. NextNumber' - 1
      BY <1>2, <1>3, <1>4 DEF RevertInv, NumbersAreOwn
    <2>3. \A s \in Turns : number[s] # NextNumber
      BY <1>3 DEF RevertInv, NumbersAreOwn
    <2>4. \A r, s \in Turns : number'[r] # 0 /\ number'[r] = number'[s] => r = s
      BY <1>4, <2>3 DEF RevertInv, NumbersAreOwn
    <2>5. messages' \subseteq messages
      BY <1>1
    <2>6. \A x \in messages' :
            x \in 1 .. Before \/ \E s \in Turns : Stored(s)' /\ number'[s] = x
      BY <1>1, <1>4, <2>5 DEF RevertInv, NumbersAreOwn, Stored
    <2> QED
      BY <2>1, <2>2, <2>4, <2>6 DEF NumbersAreOwn
  <1>8. CASE raced \/ Undoing
    BY <1>1, <1>5, <1>6, <1>7, <1>8 DEF RevertInv, UndoersAreAlone, FilesAreOnTheWay
  <1>9. CASE ~raced /\ ~Undoing
    <2>1. \A u \in Undoers : ~Undoes(u) /\ ~Undoes(u)'
      BY <1>1, <1>9 DEF Undoing, Undoes
    <2>2. UndoersAreAlone'
      BY <1>1, <2>1 DEF UndoersAreAlone, Undoing, Undoes
    <2>3. FilesRest
      BY <1>9, <2>1 DEF RevertInv, FilesAreOnTheWay, Undoes
    <2>4. mark # NoRevert => \A s \in Turns : turnAt[s] \notin {"cleaned", "stored", "runs"}
      BY <1>9 DEF RevertInv, UndoersAreAlone, Prompting, SessionBusy
    <2>5. \A s \in Turns : turnAt'[s] \in {"stored", "runs"} =>
            number'[s] \in messages' /\ turnAt[s] = turnAt'[s] /\ number[s] = number'[s]
      BY <1>1, <1>4, <1>9, <2>4 DEF RevertInv, FilesAreOnTheWay
    <2>6. \A s \in Turns : turnAt[s] \in {"stored", "runs"} =>
            turnAt'[s] = turnAt[s] /\ number'[s] = number[s]
      BY <1>1, <1>4
    <2>7. files' = messages' \ Running'
      <3>1. CASE mark = NoRevert
        BY <1>1, <2>3, <2>5, <2>6, <3>1 DEF FilesRest, Running
      <3>2. CASE mark # NoRevert
        BY <1>1, <2>3, <2>4, <2>5, <3>2 DEF FilesRest, Running
      <3> QED
        BY <3>1, <3>2
    <2>8. FilesRest'
      BY <1>1, <2>7 DEF FilesRest
    <2>9. FilesAreOnTheWay'
      BY <2>1, <2>5, <2>8 DEF FilesAreOnTheWay, Undoes, Undoers
    <2> QED
      BY <1>5, <1>6, <1>7, <2>2, <2>9 DEF RevertInv
  <1> QED
    BY <1>8, <1>9 DEF RevertInv, RevertShapes

\* A prompt beside which nothing undoes.
LEMMA TurnIsAlone ==
    ASSUME RevertInv, ~raced, NEW t \in Turns, turnAt[t] \in {"cleaned", "stored", "runs"}
    PROVE  mark = NoRevert /\ FilesRest /\ \A u \in Undoers : ~Undoes(u)
  <1>1. Prompting \/ SessionBusy
    BY DEF Prompting, SessionBusy
  <1>2. mark = NoRevert /\ ~Undoing
    BY <1>1 DEF RevertInv, UndoersAreAlone
  <1> QED
    BY <1>2 DEF RevertInv, FilesAreOnTheWay, Undoing, Undoes

\* A prompt goes on: the files are at rest before and after it.
LEMMA TurnKeeps ==
    ASSUME RevertInv, RevertShapes', NumbersAreOwn', NEW t \in Turns,
           turnAt[t] \in {"cleaned", "stored", "runs"},
           UNCHANGED <<mark, number, undo, target, listed, held, raced>>,
           ~raced => /\ files' = messages' \ Running'
                     /\ \A s \in Turns :
                          turnAt'[s] \in {"stored", "runs"} => number[s] \in messages'
    PROVE  RevertInv'
  <1>1. MarksAreOfMessages'
    BY DEF RevertInv, MarksAreOfMessages, Undoes, Names
  <1>2. CASE raced
    BY <1>1, <1>2 DEF RevertInv, UndoersAreAlone, FilesAreOnTheWay
  <1>3. CASE ~raced
    <2>1. mark = NoRevert /\ \A u \in Undoers : ~Undoes(u)
      BY <1>3, TurnIsAlone
    <2>2. \A u \in Undoers : ~Undoes(u)'
      BY <2>1 DEF Undoes
    <2>3. UndoersAreAlone'
      BY <2>1, <2>2 DEF UndoersAreAlone, Undoing, Undoes
    <2>4. FilesRest'
      BY <1>3, <2>1 DEF FilesRest
    <2>5. FilesAreOnTheWay'
      BY <1>3, <2>2, <2>4 DEF FilesAreOnTheWay, Undoes, Undoers
    <2> QED
      BY <1>1, <2>3, <2>5 DEF RevertInv
  <1> QED
    BY <1>2, <1>3 DEF RevertInv, RevertShapes

LEMMA TurnStoresInv ==
    ASSUME RevertInv, NEW t \in Turns, TurnStores(t)
    PROVE  RevertInv'
  <1>1. /\ turnAt[t] = "cleaned" /\ turnAt' = [turnAt EXCEPT ![t] = "stored"]
        /\ messages' = messages \cup {number[t]}
        /\ UNCHANGED <<files, mark, number, undo, target, listed, held, raced>>
    BY DEF TurnStores, revertCalls
  <1>2. \A s \in Turns : turnAt'[s] = IF s = t THEN "stored" ELSE turnAt[s]
    BY <1>1 DEF RevertInv, RevertShapes
  <1>3. number[t] # 0 /\ number[t] \in Numbers
    BY <1>1 DEF RevertInv, RevertShapes, NumbersAreOwn
  <1>4. RevertShapes'
    BY <1>1, <1>3 DEF RevertInv, RevertShapes, TurnSet
  <1>5. NextNumber' = NextNumber
    BY <1>1 DEF NextNumber
  <1>6. NumbersAreOwn'
    <2>1. /\ \A s \in Turns : turnAt'[s] = "new" <=> number'[s] = 0
          /\ \A s \in Turns : number'[s] # 0 => number'[s] \in Before + 1 .. NextNumber' - 1
          /\ \A r, s \in Turns : number'[r] # 0 /\ number'[r] = number'[s] => r = s
      BY <1>1, <1>2, <1>5 DEF RevertInv, NumbersAreOwn
    <2>2. \A x \in messages' :
            x \in 1 .. Before \/ \E s \in Turns : Stored(s)' /\ number'[s] = x
      BY <1>1, <1>2 DEF RevertInv, NumbersAreOwn, Stored
    <2> QED
      BY <2>1, <2>2 DEF NumbersAreOwn
  <1>7. ASSUME ~raced
        PROVE  /\ files' = messages' \ Running'
               /\ \A s \in Turns : turnAt'[s] \in {"stored", "runs"} => number[s] \in messages'
    <2>1. files = messages \ Running
      BY <1>1, <1>7, TurnIsAlone DEF FilesRest
    <2>2. number[t] \notin messages
      <3>1. number[t] \notin 1 .. Before
        BY <1>3, RevertAssumption DEF RevertInv, NumbersAreOwn
      <3>2. \A s \in Turns : number[s] = number[t] => s = t
        BY <1>3 DEF RevertInv, NumbersAreOwn
      <3> QED
        BY <1>1, <3>1, <3>2 DEF RevertInv, NumbersAreOwn, Stored
    <2>3. \A s \in Turns : turnAt'[s] \in {"stored", "runs"} => number[s] \in messages'
      BY <1>1, <1>2, <1>7 DEF RevertInv, FilesAreOnTheWay
    <2>4. \A x \in messages' : x \in Running' <=> x \in Running \/ x = number[t]
      BY <1>1, <1>2, <2>2 DEF Running
    <2> QED
      BY <1>1, <2>1, <2>2, <2>3, <2>4
  <1> QED
    BY <1>1, <1>4, <1>6, <1>7, TurnKeeps

LEMMA TurnRunsInv ==
    ASSUME RevertInv, NEW t \in Turns, TurnRuns(t)
    PROVE  RevertInv'
  <1>1. /\ turnAt[t] = "stored" /\ turnAt' = [turnAt EXCEPT ![t] = "runs"]
        /\ UNCHANGED <<messages, files, mark, number, undo, target, listed, held, raced>>
    BY DEF TurnRuns, revertCalls
  <1>2. \A s \in Turns : turnAt'[s] = IF s = t THEN "runs" ELSE turnAt[s]
    BY <1>1 DEF RevertInv, RevertShapes
  <1>3. RevertShapes'
    BY <1>1 DEF RevertInv, RevertShapes, TurnSet
  <1>4. NextNumber' = NextNumber
    BY <1>1 DEF NextNumber
  <1>5. NumbersAreOwn'
    BY <1>1, <1>2, <1>4 DEF RevertInv, NumbersAreOwn, Stored
  <1>6. ASSUME ~raced
        PROVE  /\ files' = messages' \ Running'
               /\ \A s \in Turns : turnAt'[s] \in {"stored", "runs"} => number[s] \in messages'
    <2>1. files = messages \ Running
      BY <1>1, <1>6, TurnIsAlone DEF FilesRest
    <2>2. \A x \in messages : x \in Running' <=> x \in Running
      BY <1>1, <1>2 DEF Running
    <2>3. \A s \in Turns : turnAt'[s] \in {"stored", "runs"} => number[s] \in messages'
      BY <1>1, <1>2, <1>6 DEF RevertInv, FilesAreOnTheWay
    <2> QED
      BY <1>1, <2>1, <2>2, <2>3
  <1> QED
    BY <1>1, <1>3, <1>5, <1>6, TurnKeeps

LEMMA TurnEndedInv ==
    ASSUME RevertInv, NEW t \in Turns, TurnEnded(t)
    PROVE  RevertInv'
  <1>1. /\ turnAt[t] = "runs" /\ turnAt' = [turnAt EXCEPT ![t] = "done"]
        /\ files' = files \cup {number[t]}
        /\ UNCHANGED <<messages, mark, number, undo, target, listed, held, raced>>
    BY DEF TurnEnded, revertCalls
  <1>2. \A s \in Turns : turnAt'[s] = IF s = t THEN "done" ELSE turnAt[s]
    BY <1>1 DEF RevertInv, RevertShapes
  <1>3. number[t] # 0 /\ number[t] \in Numbers
    BY <1>1 DEF RevertInv, RevertShapes, NumbersAreOwn
  <1>4. RevertShapes'
    BY <1>1, <1>3 DEF RevertInv, RevertShapes, TurnSet
  <1>5. NextNumber' = NextNumber
    BY <1>1 DEF NextNumber
  <1>6. NumbersAreOwn'
    BY <1>1, <1>2, <1>5 DEF RevertInv, NumbersAreOwn, Stored
  <1>7. ASSUME ~raced
        PROVE  /\ files' = messages' \ Running'
               /\ \A s \in Turns : turnAt'[s] \in {"stored", "runs"} => number[s] \in messages'
    <2>1. files = messages \ Running
      BY <1>1, <1>7, TurnIsAlone DEF FilesRest
    <2>2. number[t] \in messages
      BY <1>1, <1>7 DEF RevertInv, FilesAreOnTheWay
    <2>3. \A s \in Turns : number[s] = number[t] => s = t
      BY <1>3 DEF RevertInv, NumbersAreOwn
    <2>4. \A x \in messages : x \in Running' <=> x \in Running /\ x # number[t]
      BY <1>1, <1>2, <2>3 DEF Running
    <2>5. \A s \in Turns : turnAt'[s] \in {"stored", "runs"} => number[s] \in messages'
      BY <1>1, <1>2, <1>7 DEF RevertInv, FilesAreOnTheWay
    <2> QED
      BY <1>1, <2>1, <2>2, <2>4, <2>5
  <1> QED
    BY <1>1, <1>4, <1>6, <1>7, TurnKeeps

-----------------------------------------------------------------------------
\* Reverts and unreverts.  A step of u changes the state of u, and no prompt.
UndoStep(u, to) ==
    /\ undo' = [undo EXCEPT ![u] = to]
    /\ UNCHANGED <<messages, turnAt, number>>

LEMMA UndoKeepsNumbers ==
    ASSUME RevertInv, UNCHANGED <<messages, turnAt, number>>
    PROVE  NumbersAreOwn'
  <1>1. NextNumber' = NextNumber
    BY DEF NextNumber
  <1> QED
    BY <1>1 DEF RevertInv, NumbersAreOwn, Stored

\* Who undoes is alone, and no message waits for its changes.
LEMMA UndoerIsAlone ==
    ASSUME RevertInv, ~raced, NEW u \in Undoers, Undoes(u)
    PROVE  /\ ~Prompting /\ ~SessionBusy /\ Running = {}
           /\ \A v \in Undoers : Undoes(v) => v = u
           /\ undo[u] = "read" => FilesRest
  <1>1. Undoing
    BY DEF Undoing, Undoes
  <1>2. ~Prompting /\ ~SessionBusy /\ \A v \in Undoers : Undoes(v) => v = u
    BY <1>1 DEF RevertInv, UndoersAreAlone
  <1>3. Running = {}
    BY <1>2 DEF Running, Prompting, SessionBusy
  <1>4. undo[u] = "read" => FilesRest
    BY <1>2 DEF RevertInv, FilesAreOnTheWay, Undoes
  <1> QED
    BY <1>2, <1>3, <1>4

LEMMA RevertBeginsInv ==
    ASSUME RevertInv, NEW r \in Reverts, NEW m \in Numbers, RevertBegins(r, m)
    PROVE  RevertInv'
  <1>1. undo[r] = "new" /\ r \in Undoers /\ UNCHANGED <<messages, files, mark, turnAt, number>>
    BY DEF RevertBegins, Undoers
  <1>2. NumbersAreOwn'
    BY <1>1, UndoKeepsNumbers
  <1>3. CASE SessionBusy \/ m \notin messages
    <2>1. /\ UNCHANGED <<target, listed, held, raced>>
          /\ undo' = [undo EXCEPT ![r] = IF SessionBusy THEN "refused" ELSE "done"]
      BY <1>3 DEF RevertBegins, UndoGoes
    <2>2. /\ \A u \in Undoers : u # r => undo'[u] = undo[u]
          /\ undo'[r] \in {"refused", "done"}
      BY <1>1, <2>1 DEF RevertInv, RevertShapes
    <2>3. RevertShapes'
      BY <1>1, <2>1 DEF RevertInv, RevertShapes, UndoSet
    <2>4. \A u \in Undoers : /\ Undoes(u)' = Undoes(u)
                             /\ undo'[u] = undo[u] \/ u = r
      BY <1>1, <2>2 DEF Undoes
    <2>5. MarksAreOfMessages'
      BY <1>1, <2>1, <2>4 DEF RevertInv, MarksAreOfMessages, Names, Undoers
    <2>6. /\ Undoing' = Undoing /\ Prompting' = Prompting /\ SessionBusy' = SessionBusy
          /\ Running' = Running
      BY <1>1, <2>4 DEF Undoing, Undoes, Prompting, SessionBusy, Running
    <2>7. UndoersAreAlone'
      BY <1>1, <2>1, <2>4, <2>6 DEF RevertInv, UndoersAreAlone
    <2>8. FilesRest' = FilesRest
      BY <1>1, <2>6 DEF FilesRest
    <2>9. FilesAreOnTheWay'
      BY <1>1, <2>1, <2>2, <2>4, <2>8
         DEF RevertInv, FilesAreOnTheWay, Holds, Undoers
    <2> QED
      BY <1>2, <2>3, <2>5, <2>7, <2>9 DEF RevertInv
  <1>4. CASE ~(SessionBusy \/ m \notin messages)
    <2>1. /\ undo' = [undo EXCEPT ![r] = "read"]
          /\ target' = [target EXCEPT ![r] = m]
          /\ listed' = [listed EXCEPT ![r] = messages]
          /\ held' = [held EXCEPT ![r] = mark]
          /\ raced' = (raced \/ Undoing \/ Prompting)
      BY <1>4 DEF RevertBegins, UndoGoes
    <2>2. /\ \A u \in Undoers : undo'[u] = IF u = r THEN "read" ELSE undo[u]
          /\ \A u \in Undoers : held'[u] = IF u = r THEN mark ELSE held[u]
          /\ \A q \in Reverts : target'[q] = IF q = r THEN m ELSE target[q]
          /\ \A q \in Reverts : listed'[q] = IF q = r THEN messages ELSE listed[q]
      BY <1>1, <2>1 DEF RevertInv, RevertShapes
    <2>3. RevertShapes'
      BY <1>1, <2>1 DEF RevertInv, RevertShapes, UndoSet
    <2>4. MarksAreOfMessages'
      <3>1. m # 0 /\ m \in messages
        BY <1>4, NumbersAreNat
      <3>2. Names(mark)' /\ \A u \in Undoers : Names(held[u])'
        BY <1>1, <2>2 DEF RevertInv, MarksAreOfMessages, Names
      <3>3. \A q \in Reverts : Undoes(q)' => target'[q] # 0 /\ target'[q] \in listed'[q]
        BY <2>2, <3>1 DEF RevertInv, MarksAreOfMessages, Undoes, Undoers
      <3> QED
        BY <3>2, <3>3 DEF MarksAreOfMessages
    <2>5. CASE raced'
      BY <1>2, <2>3, <2>4, <2>5 DEF RevertInv, UndoersAreAlone, FilesAreOnTheWay
    <2>6. CASE ~raced'
      <3>1. ~raced /\ ~Undoing /\ ~Prompting /\ ~SessionBusy
        BY <1>4, <2>1, <2>6
      <3>2. /\ \A u \in Undoers : undo[u] \notin {"read", "shot", "undone"}
            /\ \A u \in Undoers : Undoes(u)' => u = r
            /\ \A u \in Undoers : undo'[u] \notin {"shot", "undone"}
        BY <2>2, <3>1 DEF Undoing, Undoes
      <3>3. ~Prompting' /\ ~SessionBusy' /\ Running' = Running
        BY <1>1, <3>1 DEF Prompting, SessionBusy, Running
      <3>4. UndoersAreAlone'
        BY <1>1, <3>1, <3>2, <3>3 DEF RevertInv, UndoersAreAlone
      <3>5. FilesRest'
        <4>1. FilesRest
          BY <3>1, <3>2 DEF RevertInv, FilesAreOnTheWay
        <4> QED
          BY <1>1, <3>3, <4>1 DEF FilesRest
      <3>6. \A t \in Turns : turnAt'[t] \in {"stored", "runs"} => number'[t] \in messages'
        BY <1>1, <3>1 DEF RevertInv, FilesAreOnTheWay
      <3>7. \A q \in Reverts : Undoes(q)' => listed'[q] = messages'
        BY <1>1, <2>2, <3>2 DEF Undoers
      <3>8. \A u \in Undoers : undo'[u] = "read" => held'[u] = mark' /\ u = r
        BY <1>1, <2>2, <3>2 DEF Undoes
      <3>9. \A u \in Unreverts : u \in Undoers /\ u # r
        BY RevertAssumption DEF Undoers
      <3>10. \A q \in Reverts : q \in Undoers
        BY DEF Undoers
      <3>11. FilesAreOnTheWay'
        BY <3>2, <3>5, <3>6, <3>7, <3>8, <3>9, <3>10 DEF FilesAreOnTheWay
      <3> QED
        BY <1>2, <2>3, <2>4, <3>4, <3>11 DEF RevertInv
    <2> QED
      BY <2>5, <2>6
  <1> QED
    BY <1>3, <1>4

\* A step of one who undoes and goes on: what it has to bring about.
LEMMA UndoKeeps ==
    ASSUME RevertInv, RevertShapes', MarksAreOfMessages', NEW u \in Undoers, NEW to,
           Undoes(u), UndoStep(u, to), to \in {"shot", "undone"},
           UNCHANGED <<mark, target, listed, raced>>,
           u \in Unreverts => to # "shot",
           ~raced => /\ to = "shot" => files' = messages /\ Holds(u)'
                     /\ to = "undone" /\ u \in Reverts =>
                           files' = {x \in messages : x < target[u]} /\ Holds(u)'
                     /\ to = "undone" /\ u \in Unreverts => files' = messages
    PROVE  RevertInv'
  <1>1. NumbersAreOwn'
    BY UndoKeepsNumbers DEF UndoStep
  <1>2. CASE raced
    BY <1>1, <1>2 DEF RevertInv, UndoersAreAlone, FilesAreOnTheWay
  <1>3. CASE ~raced
    <2>1. /\ ~Prompting /\ ~SessionBusy
          /\ \A v \in Undoers : Undoes(v) => v = u
      BY <1>3, UndoerIsAlone
    <2>2. \A v \in Undoers : undo'[v] = IF v = u THEN to ELSE undo[v]
      BY DEF UndoStep, RevertInv, RevertShapes
    <2>3. \A v \in Undoers : Undoes(v)' => v = u
      BY <2>1, <2>2 DEF Undoes
    <2>4. ~Prompting' /\ ~SessionBusy'
      BY <2>1 DEF UndoStep, Prompting, SessionBusy
    <2>5. UndoersAreAlone'
      BY <1>3, <2>3, <2>4 DEF UndoStep, RevertInv, UndoersAreAlone
    <2>6. ~(\A v \in Undoers : undo'[v] \notin {"shot", "undone"})
      BY <2>2
    <2>7. \A t \in Turns : turnAt'[t] \in {"stored", "runs"} => number'[t] \in messages'
      BY <1>3 DEF UndoStep, RevertInv, FilesAreOnTheWay
    <2>8. \A q \in Reverts : Undoes(q)' => listed'[q] = messages'
      BY <1>3, <2>3 DEF UndoStep, RevertInv, FilesAreOnTheWay, Undoers
    <2>9. \A v \in Undoers : undo'[v] # "read"
      BY <2>2, <2>3 DEF Undoes
    <2>10. \A v \in Undoers : undo'[v] \in {"shot", "undone"} => v = u /\ undo'[v] = to
      BY <2>2, <2>3 DEF Undoes
    <2>11. messages' = messages /\ target' = target
      BY DEF UndoStep
    <2>12. \A q \in Reverts : undo'[q] = "shot" => files' = messages' /\ Holds(q)'
      BY <1>3, <2>10, <2>11 DEF Undoers
    <2>13. \A q \in Reverts : undo'[q] = "undone" =>
             files' = {x \in messages' : x < target'[q]} /\ Holds(q)'
      BY <1>3, <2>10, <2>11 DEF Undoers
    <2>14. \A v \in Unreverts : undo'[v] # "shot" /\ undo'[v] # "read"
      BY <2>9, <2>10 DEF Undoers
    <2>15. \A v \in Unreverts : undo'[v] = "undone" => files' = messages'
      BY <1>3, <2>10, <2>11 DEF Undoers
    <2>16. FilesAreOnTheWay'
      BY <2>6, <2>7, <2>8, <2>9, <2>12, <2>13, <2>14, <2>15 DEF FilesAreOnTheWay
    <2> QED
      BY <1>1, <2>5, <2>16 DEF RevertInv
  <1> QED
    BY <1>2, <1>3 DEF RevertInv, RevertShapes

LEMMA RevertTracksInv ==
    ASSUME RevertInv, NEW r \in Reverts, RevertTracks(r)
    PROVE  RevertInv'
  <1> DEFINE shot == IF held[r] = NoRevert THEN files ELSE held[r].snapshot
             made == [to |-> target[r], shown |-> listed[r], snapshot |-> shot]
  <1>1. /\ undo[r] = "read" /\ r \in Undoers /\ Undoes(r) /\ UndoStep(r, "shot")
        /\ held' = [held EXCEPT ![r] = made]
        /\ files' = IF held[r] = NoRevert THEN files ELSE files \cup held[r].snapshot
        /\ UNCHANGED <<mark, target, listed, raced>>
    BY DEF RevertTracks, UndoGoes, UndoStep, Undoers, Undoes, RevertInv, RevertShapes
  <1>2. target[r] # 0 /\ target[r] \in listed[r]
    BY <1>1 DEF RevertInv, MarksAreOfMessages
  <1>3. shot \subseteq Numbers /\ held[r].snapshot \subseteq Numbers
    BY <1>1 DEF RevertInv, RevertShapes, MarkSet
  <1>4. made \in MarkSet /\ Names(made) /\ made.to = target[r] /\ made.snapshot = shot
        /\ made.shown = listed[r]
    BY <1>1, <1>2, <1>3 DEF RevertInv, RevertShapes, MarkSet, Names
  <1> HIDE DEF made
  <1>5. \A u \in Undoers : held'[u] = IF u = r THEN made ELSE held[u]
    BY <1>1 DEF RevertInv, RevertShapes
  <1>6. RevertShapes'
    <2>1. held' \in [Undoers -> MarkSet]
      BY <1>1, <1>4 DEF RevertInv, RevertShapes
    <2>2. files' \subseteq Numbers
      BY <1>1, <1>3 DEF RevertInv, RevertShapes
    <2>3. undo' \in [Undoers -> UndoSet]
      BY <1>1 DEF RevertInv, RevertShapes, UndoStep, UndoSet
    <2> QED
      BY <1>1, <2>1, <2>2, <2>3 DEF RevertInv, RevertShapes, UndoStep
  <1>7. MarksAreOfMessages'
    <2>1. \A u \in Undoers : Undoes(u)' => Undoes(u)
      BY <1>1 DEF Undoes, UndoStep, RevertInv, RevertShapes
    <2>2. \A u \in Undoers : Names(held[u])'
      BY <1>4, <1>5 DEF RevertInv, MarksAreOfMessages, Names
    <2> QED
      BY <1>1, <2>1, <2>2 DEF RevertInv, MarksAreOfMessages, Names, Undoers
  <1>8. ASSUME ~raced PROVE files' = messages /\ Holds(r)'
    <2>1. FilesRest /\ Running = {}
      BY <1>1, <1>8, UndoerIsAlone
    <2>2. held[r] = mark /\ listed[r] = messages
      BY <1>1, <1>8 DEF RevertInv, FilesAreOnTheWay
    <2>3. files' = messages /\ shot = messages
      <3>1. CASE mark = NoRevert
        BY <1>1, <2>1, <2>2, <3>1 DEF FilesRest
      <3>2. CASE mark # NoRevert
        BY <1>1, <2>1, <2>2, <3>2 DEF FilesRest
      <3> QED
        BY <3>1, <3>2
    <2> QED
      BY <1>1, <1>4, <1>5, <2>2, <2>3 DEF Holds, UndoStep
  <1>9. r \notin Unreverts
    BY RevertAssumption
  <1> QED
    BY <1>1, <1>6, <1>7, <1>8, <1>9, UndoKeeps

LEMMA RevertUndoesInv ==
    ASSUME RevertInv, NEW r \in Reverts, RevertUndoes(r)
    PROVE  RevertInv'
  <1>1. /\ undo[r] = "shot" /\ r \in Undoers /\ Undoes(r) /\ UndoStep(r, "undone")
        /\ files' = files \ {x \in listed[r] : x >= target[r]}
        /\ UNCHANGED <<mark, target, listed, held, raced>>
    BY DEF RevertUndoes, UndoGoes, UndoStep, Undoers, Undoes
  <1>2. RevertShapes'
    BY <1>1 DEF RevertInv, RevertShapes, UndoStep, UndoSet
  <1>3. MarksAreOfMessages'
    <2>1. \A u \in Undoers : Undoes(u)' => Undoes(u)
      BY <1>1 DEF Undoes, UndoStep, RevertInv, RevertShapes
    <2> QED
      BY <1>1, <2>1 DEF RevertInv, MarksAreOfMessages, Names, Undoers
  <1>4. ASSUME ~raced PROVE files' = {x \in messages : x < target[r]} /\ Holds(r)'
    <2>1. files = messages /\ Holds(r) /\ listed[r] = messages
      BY <1>1, <1>4 DEF RevertInv, FilesAreOnTheWay
    <2>2. \A x \in messages : x \in Nat
      BY NumbersAreNat DEF RevertInv, RevertShapes
    <2>3. target[r] \in Nat
      BY NumbersAreNat DEF RevertInv, RevertShapes
    <2>4. \A x \in messages : x < target[r] <=> ~(x >= target[r])
      BY <2>2, <2>3
    <2>5. files' = {x \in messages : x < target[r]}
      BY <1>1, <2>1, <2>4
    <2> QED
      BY <1>1, <2>1, <2>5 DEF Holds, UndoStep
  <1>5. r \notin Unreverts
    BY RevertAssumption
  <1> QED
    BY <1>1, <1>2, <1>3, <1>4, <1>5, UndoKeeps

LEMMA UnrevertRestoresInv ==
    ASSUME RevertInv, NEW u \in Unreverts, UnrevertRestores(u)
    PROVE  RevertInv'
  <1>1. /\ undo[u] = "read" /\ u \in Undoers /\ Undoes(u) /\ UndoStep(u, "undone")
        /\ files' = files \cup held[u].snapshot
        /\ UNCHANGED <<mark, target, listed, held, raced>>
    BY DEF UnrevertRestores, UndoGoes, UndoStep, Undoers, Undoes
  <1>2. RevertShapes'
    <2>1. held[u].snapshot \subseteq Numbers
      BY <1>1 DEF RevertInv, RevertShapes, MarkSet
    <2> QED
      BY <1>1, <2>1 DEF RevertInv, RevertShapes, UndoStep, UndoSet
  <1>3. MarksAreOfMessages'
    <2>1. \A v \in Undoers : Undoes(v)' => Undoes(v)
      BY <1>1 DEF Undoes, UndoStep, RevertInv, RevertShapes
    <2> QED
      BY <1>1, <2>1 DEF RevertInv, MarksAreOfMessages, Names, Undoers
  <1>4. ASSUME ~raced PROVE files' = messages
    <2>1. FilesRest
      BY <1>1, <1>4, UndoerIsAlone
    <2>2. held[u] = mark /\ mark # NoRevert
      BY <1>1, <1>4 DEF RevertInv, FilesAreOnTheWay
    <2> QED
      BY <1>1, <2>1, <2>2 DEF FilesRest
  <1>5. u \notin Reverts
    BY RevertAssumption
  <1> QED
    BY <1>1, <1>2, <1>3, <1>4, <1>5, UndoKeeps

-----------------------------------------------------------------------------
\* One who undoes is done, and the mark says what the files are then.
LEMMA UndoEnds ==
    ASSUME RevertInv, NEW u \in Undoers, Undoes(u), UndoStep(u, "done"),
           UNCHANGED <<files, target, listed, held, raced>>,
           mark' \in MarkSet, Names(mark'),
           ~raced => /\ mark' = NoRevert => files = messages
                     /\ mark' # NoRevert =>
                          /\ files = {x \in messages : x < mark'.to}
                          /\ mark'.snapshot = messages /\ messages \subseteq mark'.shown
    PROVE  RevertInv'
  <1>1. NumbersAreOwn'
    BY UndoKeepsNumbers DEF UndoStep
  <1>2. RevertShapes'
    BY DEF RevertInv, RevertShapes, UndoStep, UndoSet
  <1>3. \A v \in Undoers : undo'[v] = IF v = u THEN "done" ELSE undo[v]
    BY DEF UndoStep, RevertInv, RevertShapes
  <1>4. \A v \in Undoers : Undoes(v)' => Undoes(v) /\ v # u
    BY <1>3 DEF Undoes
  <1>5. MarksAreOfMessages'
    BY <1>4 DEF RevertInv, MarksAreOfMessages, Names, Undoers
  <1>6. CASE raced
    BY <1>1, <1>2, <1>5, <1>6 DEF RevertInv, UndoersAreAlone, FilesAreOnTheWay
  <1>7. CASE ~raced
    <2>1. /\ ~Prompting /\ ~SessionBusy /\ Running = {}
          /\ \A v \in Undoers : Undoes(v) => v = u
      BY <1>7, UndoerIsAlone
    <2>2. \A v \in Undoers : ~Undoes(v)'
      BY <1>4, <2>1
    <2>3. ~Prompting' /\ ~SessionBusy' /\ Running' = Running
      BY <2>1 DEF UndoStep, Prompting, SessionBusy, Running
    <2>4. UndoersAreAlone'
      BY <1>7, <2>2, <2>3 DEF UndoStep, UndoersAreAlone
    <2>5. FilesRest'
      BY <1>7, <2>1, <2>3 DEF UndoStep, FilesRest
    <2>6. \A t \in Turns : turnAt'[t] \in {"stored", "runs"} => number'[t] \in messages'
      BY <1>7 DEF UndoStep, RevertInv, FilesAreOnTheWay
    <2>7. FilesAreOnTheWay'
      BY <2>2, <2>5, <2>6 DEF FilesAreOnTheWay, Undoes, Undoers
    <2> QED
      BY <1>1, <1>2, <1>5, <2>4, <2>7 DEF RevertInv
  <1> QED
    BY <1>6, <1>7 DEF RevertInv, RevertShapes

LEMMA RevertStoresInv ==
    ASSUME RevertInv, NEW r \in Reverts, RevertStores(r)
    PROVE  RevertInv'
  <1>1. /\ undo[r] = "undone" /\ r \in Undoers /\ Undoes(r) /\ UndoStep(r, "done")
        /\ mark' = held[r]
        /\ UNCHANGED <<files, target, listed, held, raced>>
    BY DEF RevertStores, UndoGoes, UndoStep, Undoers, Undoes
  <1>2. mark' \in MarkSet /\ Names(mark')
    BY <1>1 DEF RevertInv, RevertShapes, MarksAreOfMessages
  <1>3. ASSUME ~raced
        PROVE  /\ mark' # NoRevert /\ files = {x \in messages : x < mark'.to}
               /\ mark'.snapshot = messages /\ messages \subseteq mark'.shown
    <2>1. files = {x \in messages : x < target[r]} /\ Holds(r)
      BY <1>1, <1>3 DEF RevertInv, FilesAreOnTheWay
    <2>2. target[r] # 0
      BY <1>1 DEF RevertInv, MarksAreOfMessages
    <2> QED
      BY <1>1, <2>1, <2>2, NoMark DEF Holds
  <1> QED
    BY <1>1, <1>2, <1>3, UndoEnds

LEMMA UnrevertClearsInv ==
    ASSUME RevertInv, NEW u \in Unreverts, UnrevertClears(u)
    PROVE  RevertInv'
  <1>1. /\ undo[u] = "undone" /\ u \in Undoers /\ Undoes(u) /\ UndoStep(u, "done")
        /\ mark' = NoRevert
        /\ UNCHANGED <<files, target, listed, held, raced>>
    BY DEF UnrevertClears, UndoGoes, UndoStep, Undoers, Undoes
  <1>2. mark' \in MarkSet /\ Names(mark')
    BY <1>1, NoMark
  <1>3. ~raced => files = messages
    BY <1>1 DEF RevertInv, FilesAreOnTheWay
  <1> QED
    BY <1>1, <1>2, <1>3, UndoEnds

LEMMA UnrevertBeginsInv ==
    ASSUME RevertInv, NEW u \in Unreverts, UnrevertBegins(u)
    PROVE  RevertInv'
  <1>1. /\ undo[u] = "new" /\ u \in Undoers /\ u \notin Reverts
        /\ UNCHANGED <<messages, files, mark, turnAt, number, target, listed>>
    BY RevertAssumption DEF UnrevertBegins, Undoers
  <1>2. NumbersAreOwn'
    BY <1>1, UndoKeepsNumbers
  <1>3. \A r \in Reverts : r \in Undoers /\ r # u
    BY <1>1 DEF Undoers
  <1>4. Prompting' = Prompting /\ SessionBusy' = SessionBusy /\ Running' = Running
    BY <1>1 DEF Prompting, SessionBusy, Running
  <1>5. FilesRest' = FilesRest
    BY <1>1, <1>4 DEF FilesRest
  <1>6. ASSUME NEW to \in {"refused", "done"}, undo' = [undo EXCEPT ![u] = to], raced' = raced,
               held' = held \/ held' = [held EXCEPT ![u] = mark]
        PROVE  RevertInv'
    <2>1. \A v \in Undoers : v # u => undo'[v] = undo[v] /\ held'[v] = held[v]
      BY <1>6 DEF RevertInv, RevertShapes
    <2>2. undo'[u] = to
      BY <1>1, <1>6 DEF RevertInv, RevertShapes
    <2>3. RevertShapes'
      BY <1>1, <1>6 DEF RevertInv, RevertShapes, UndoSet
    <2>4. \A v \in Undoers : Undoes(v)' = Undoes(v)
      BY <1>1, <2>1, <2>2 DEF Undoes
    <2>5. \A v \in Undoers : Names(held[v])'
      BY <1>1, <1>6 DEF RevertInv, RevertShapes, MarksAreOfMessages, Names
    <2>6. MarksAreOfMessages'
      BY <1>1, <1>3, <2>4, <2>5 DEF RevertInv, MarksAreOfMessages, Names
    <2>7. Undoing' = Undoing
      BY <2>4 DEF Undoing, Undoes
    <2>8. UndoersAreAlone'
      BY <1>1, <1>4, <1>6, <2>4, <2>7 DEF RevertInv, UndoersAreAlone
    <2>9. \A v \in Undoers : undo'[v] = undo[v] \/ v = u
      BY <2>1
    <2>10. \A v \in Undoers : Holds(v)' = Holds(v) \/ v \notin Reverts
      BY <1>1, <1>3, <2>1 DEF Holds
    <2>11. CASE raced
      BY <1>2, <1>6, <2>3, <2>6, <2>8, <2>11 DEF RevertInv, FilesAreOnTheWay
    <2>12. CASE ~raced
      <3>1. (\A v \in Undoers : undo'[v] \notin {"shot", "undone"}) => FilesRest'
        BY <1>1, <1>5, <2>1, <2>12 DEF RevertInv, FilesAreOnTheWay
      <3>2. \A t \in Turns : turnAt'[t] \in {"stored", "runs"} => number'[t] \in messages'
        BY <1>1, <2>12 DEF RevertInv, FilesAreOnTheWay
      <3>3. \A r \in Reverts : Undoes(r)' => listed'[r] = messages'
        BY <1>1, <1>3, <2>4, <2>12 DEF RevertInv, FilesAreOnTheWay
      <3>4. \A v \in Undoers : undo'[v] = "read" => held'[v] = mark'
        BY <1>1, <2>1, <2>2, <2>12 DEF RevertInv, FilesAreOnTheWay
      <3>5. \A r \in Reverts : undo'[r] = "shot" => files' = messages' /\ Holds(r)'
        BY <1>1, <1>3, <2>1, <2>10, <2>12 DEF RevertInv, FilesAreOnTheWay
      <3>6. \A r \in Reverts : undo'[r] = "undone" =>
              files' = {x \in messages' : x < target'[r]} /\ Holds(r)'
        BY <1>1, <1>3, <2>1, <2>10, <2>12 DEF RevertInv, FilesAreOnTheWay
      <3>7. \A v \in Unreverts : v \in Undoers
        BY DEF Undoers
      <3>8. \A v \in Unreverts : /\ undo'[v] = "read" => mark' # NoRevert
                                 /\ undo'[v] # "shot"
                                 /\ undo'[v] = "undone" => files' = messages'
        BY <1>1, <2>1, <2>2, <2>12, <3>7 DEF RevertInv, FilesAreOnTheWay
      <3> QED
        BY <1>2, <2>3, <2>6, <2>8, <3>1, <3>2, <3>3, <3>4, <3>5, <3>6, <3>8
           DEF RevertInv, FilesAreOnTheWay
    <2> QED
      BY <2>11, <2>12 DEF RevertInv, RevertShapes
  <1>7. CASE SessionBusy
    <2>1. undo' = [undo EXCEPT ![u] = "refused"] /\ held' = held /\ raced' = raced
      BY <1>7 DEF UnrevertBegins, UndoGoes
    <2> QED
      BY <1>6, <2>1
  <1>8. CASE ~SessionBusy /\ mark = NoRevert
    <2>1. /\ undo' = [undo EXCEPT ![u] = "done"] /\ held' = [held EXCEPT ![u] = mark]
          /\ raced' = (raced \/ FALSE)
      BY <1>8 DEF UnrevertBegins, UndoGoes
    <2>2. raced' = raced
      BY <2>1 DEF RevertInv, RevertShapes
    <2> QED
      BY <1>6, <2>1, <2>2
  <1>9. CASE ~SessionBusy /\ mark # NoRevert
    <2>1. /\ undo' = [undo EXCEPT ![u] = "read"] /\ held' = [held EXCEPT ![u] = mark]
          /\ raced' = (raced \/ Undoing \/ Prompting)
      BY <1>9 DEF UnrevertBegins, UndoGoes
    <2>2. /\ \A v \in Undoers : undo'[v] = IF v = u THEN "read" ELSE undo[v]
          /\ \A v \in Undoers : held'[v] = IF v = u THEN mark ELSE held[v]
      BY <2>1 DEF RevertInv, RevertShapes
    <2>3. RevertShapes'
      BY <1>1, <2>1 DEF RevertInv, RevertShapes, UndoSet
    <2>4. MarksAreOfMessages'
      BY <1>1, <1>3, <2>2 DEF RevertInv, MarksAreOfMessages, Names, Undoes
    <2>5. CASE raced'
      BY <1>2, <2>3, <2>4, <2>5 DEF RevertInv, UndoersAreAlone, FilesAreOnTheWay
    <2>6. CASE ~raced'
      <3>1. ~raced /\ ~Undoing /\ ~Prompting /\ ~SessionBusy
        BY <1>9, <2>1, <2>6
      <3>2. /\ \A v \in Undoers : Undoes(v)' => v = u
            /\ \A v \in Undoers : undo'[v] \notin {"shot", "undone"}
            /\ \A v \in Undoers : undo[v] \notin {"shot", "undone"}
        BY <2>2, <3>1 DEF Undoing, Undoes
      <3>3. UndoersAreAlone'
        BY <1>1, <1>4, <3>1, <3>2 DEF RevertInv, UndoersAreAlone
      <3>4. FilesRest'
        BY <1>5, <3>1, <3>2 DEF RevertInv, FilesAreOnTheWay
      <3>5. \A t \in Turns : turnAt'[t] \in {"stored", "runs"} => number'[t] \in messages'
        BY <1>1, <3>1 DEF RevertInv, FilesAreOnTheWay
      <3>6. \A v \in Undoers : undo'[v] = "read" => v = u /\ held'[v] = mark'
        BY <1>1, <2>2, <3>2 DEF Undoes
      <3>7. \A r \in Reverts : ~Undoes(r)' /\ undo'[r] \notin {"shot", "undone"}
        BY <1>3, <3>2
      <3>8. \A v \in Unreverts : v \in Undoers
        BY DEF Undoers
      <3>9. FilesAreOnTheWay'
        BY <1>1, <1>9, <3>2, <3>4, <3>5, <3>6, <3>7, <3>8 DEF FilesAreOnTheWay
      <3> QED
        BY <1>2, <2>3, <2>4, <3>3, <3>9 DEF RevertInv
    <2> QED
      BY <2>5, <2>6
  <1> QED
    BY <1>7, <1>8, <1>9

LEMMA StepInv ==
    ASSUME RevertInv, [RevertNext]_revertVars
    PROVE  RevertInv'
  <1>1. ASSUME NEW t \in Turns, TurnBegins(t) \/ TurnStores(t) \/ TurnRuns(t) \/ TurnEnded(t)
        PROVE  RevertInv'
    BY <1>1, TurnBeginsInv, TurnStoresInv, TurnRunsInv, TurnEndedInv
  <1>2. ASSUME NEW r \in Reverts,
               \/ \E m \in Numbers : RevertBegins(r, m)
               \/ RevertTracks(r) \/ RevertUndoes(r) \/ RevertStores(r)
        PROVE  RevertInv'
    BY <1>2, RevertBeginsInv, RevertTracksInv, RevertUndoesInv, RevertStoresInv
  <1>3. ASSUME NEW u \in Unreverts,
               UnrevertBegins(u) \/ UnrevertRestores(u) \/ UnrevertClears(u)
        PROVE  RevertInv'
    BY <1>3, UnrevertBeginsInv, UnrevertRestoresInv, UnrevertClearsInv
  <1>4. ASSUME UNCHANGED revertVars
        PROVE  RevertInv'
    <2>1. UNCHANGED <<messages, files, mark, turnAt, number, undo, target, listed, held, raced>>
      BY <1>4 DEF revertVars, revertCalls
    <2>2. RevertShapes' /\ MarksAreOfMessages'
      BY <2>1 DEF RevertInv, RevertShapes, MarksAreOfMessages, Undoes, Names
    <2>3. NumbersAreOwn'
      BY <2>1, UndoKeepsNumbers
    <2>4. Undoing' = Undoing /\ Prompting' = Prompting /\ SessionBusy' = SessionBusy
      BY <2>1 DEF Undoing, Prompting, SessionBusy
    <2>5. UndoersAreAlone'
      BY <2>1, <2>4 DEF RevertInv, UndoersAreAlone, Undoes
    <2>6. Running' = Running
      BY <2>1 DEF Running
    <2>7. FilesRest' = FilesRest
      BY <2>1, <2>6 DEF FilesRest
    <2>8. \A r \in Reverts : Holds(r)' = Holds(r) /\ Undoes(r)' = Undoes(r)
      BY <2>1 DEF Holds, Undoes
    <2>9. FilesAreOnTheWay'
      BY <2>1, <2>7, <2>8 DEF RevertInv, FilesAreOnTheWay
    <2> QED
      BY <2>2, <2>3, <2>5, <2>9 DEF RevertInv
  <1> QED
    BY <1>1, <1>2, <1>3, <1>4 DEF RevertNext

\* The invariant in which the others are contained.
THEOREM RevertInvHolds == RevertSpec => []RevertInv
  <1>1. RevertInit => RevertInv
    BY InitInv
  <1>2. RevertInv /\ [RevertNext]_revertVars => RevertInv'
    BY StepInv
  <1> QED
    BY <1>1, <1>2, PTL DEF RevertSpec

\* Unless calls race, files, messages and the mark of the session agree when nothing
\* is under way, and no run works on the files beside a revert.
THEOREM RevertsAreKept == RevertSpec => []RevertContract
  <1>1. ASSUME RevertInv PROVE RevertContract
    <2>1. RevertTypeOK
      <3>1. mark.to # 0 => mark.to \in mark.shown
        BY <1>1, NoMark DEF RevertInv, MarksAreOfMessages, Names
      <3> QED
        BY <1>1, <3>1 DEF RevertInv, RevertShapes, RevertTypeOK, MarkSet, TurnSet, UndoSet
    <2>2. FilesFollowMessages
      <3> SUFFICES ASSUME ~raced, ~Undoing, ~Prompting, ~SessionBusy
                   PROVE  IF mark = NoRevert
                          THEN files = messages
                          ELSE files = {x \in messages : x < mark.to} /\ mark.snapshot = messages
        BY DEF FilesFollowMessages
      <3>1. Running = {}
        BY DEF Running, Prompting, SessionBusy
      <3>2. FilesRest
        BY <1>1 DEF RevertInv, FilesAreOnTheWay, Undoing
      <3> QED
        BY <3>1, <3>2 DEF FilesRest
    <2>3. RunsAlone
      BY <1>1 DEF RevertInv, UndoersAreAlone, RunsAlone
    <2> QED
      BY <2>1, <2>2, <2>3 DEF RevertContract
  <1>2. RevertInv => RevertContract
    BY <1>1
  <1> QED
    BY <1>2, RevertInvHolds, PTL

\* What a prompt removes for good was hidden by a revert that had seen it.
THEOREM RemovalIsOfTheShown == RevertSpec => RemovedWasShown
  <1> DEFINE Shown == \A x \in messages \ messages' : raced \/ (x \in mark.shown /\ x >= mark.to)
  <1>1. ASSUME RevertInv, [RevertNext]_revertVars PROVE [Shown]_revertVars
    <2>1. ASSUME NEW t \in Turns, TurnBegins(t) PROVE Shown
      <3> SUFFICES ASSUME NEW x \in messages, x \notin messages', ~raced
                   PROVE  x \in mark.shown /\ x >= mark.to
        OBVIOUS
      <3>1. mark # NoRevert /\ ~(x < mark.to)
        BY <2>1 DEF TurnBegins
      <3>2. x \in mark.shown
        BY <1>1, <3>1 DEF RevertInv, UndoersAreAlone
      <3>3. x \in Nat /\ mark.to \in Nat
        BY <1>1, NumbersAreNat DEF RevertInv, RevertShapes, MarkSet
      <3> QED
        BY <3>1, <3>2, <3>3
    <2>2. ASSUME messages \subseteq messages' PROVE Shown
      BY <2>2
    <2>3. ASSUME NEW t \in Turns, TurnStores(t) \/ TurnRuns(t) \/ TurnEnded(t)
          PROVE  messages \subseteq messages'
      BY <2>3 DEF TurnStores, TurnRuns, TurnEnded
    <2>4. ASSUME NEW r \in Reverts,
                 \/ \E m \in Numbers : RevertBegins(r, m)
                 \/ RevertTracks(r) \/ RevertUndoes(r) \/ RevertStores(r)
          PROVE  messages \subseteq messages'
      BY <2>4 DEF RevertBegins, RevertTracks, RevertUndoes, RevertStores
    <2>5. ASSUME NEW u \in Unreverts,
                 UnrevertBegins(u) \/ UnrevertRestores(u) \/ UnrevertClears(u)
          PROVE  messages \subseteq messages'
      BY <2>5 DEF UnrevertBegins, UnrevertRestores, UnrevertClears
    <2> QED
      BY <1>1, <2>1, <2>2, <2>3, <2>4, <2>5 DEF RevertNext
  <1>2. RevertInv /\ [RevertNext]_revertVars => [Shown]_revertVars
    BY <1>1
  <1> QED
    BY <1>2, RevertInvHolds, PTL DEF RevertSpec, RemovedWasShown

-----------------------------------------------------------------------------
(* Identifier: for any clock, any number of draws and restarts.            *)

\* A number is what its quotient and its remainder say, and only they.
LEMMA Remainders ==
    ASSUME NEW M \in Nat \ {0}, NEW n \in Int
    PROVE  /\ n \div M \in Int /\ n % M \in 0 .. M - 1
           /\ n = (n \div M) * M + (n % M)
  OBVIOUS

LEMMA RemainderIsOne ==
    ASSUME NEW M \in Nat \ {0}, NEW q \in Int, NEW r \in 0 .. M - 1
    PROVE  (q * M + r) % M = r /\ (q * M + r) \div M = q
  OBVIOUS

\* A multiple of a smaller number is smaller by one multiple at least.
LEMMA Multiples ==
    ASSUME NEW P \in Nat \ {0}, NEW a \in Int, NEW b \in Int, a < b
    PROVE  a * P + P <= b * P
  OBVIOUS

Width == Ticks * PerTick

LEMMA WidthIsPositive == Width \in Nat \ {0}
  <1>1. Ticks \in Nat \ {0} /\ PerTick \in Nat \ {0} BY IdAssumption
  <1> QED BY <1>1 DEF Width

\* What is left of a time and a counter in the 48 bits, and read out of them.
LEMMA BitsOf ==
    ASSUME NEW ms \in Nat, NEW count \in Nat, count < PerTick
    PROVE  LET n == (ms % Ticks) * PerTick + count
           IN  /\ n \in Nat /\ n < Width
               /\ Bits(ms, count, "ascending") = n
               /\ Bits(ms, count, "descending") = Width - 1 - n
               /\ TimestampOf(n) = ms % Ticks
  <1> DEFINE q == ms \div Ticks  r == ms % Ticks  n == r * PerTick + count
  <1>1. Ticks \in Nat \ {0} /\ PerTick \in Nat \ {0} /\ Width \in Nat \ {0}
    BY IdAssumption, WidthIsPositive
  <1>2. q \in Int /\ r \in 0 .. Ticks - 1 /\ ms = q * Ticks + r
    BY <1>1, Remainders
  <1> HIDE DEF q, r
  <1>3. r * PerTick + PerTick <= Ticks * PerTick
    BY <1>1, <1>2, Multiples
  <1>4. r * PerTick \in Nat
    BY <1>1, <1>2
  <1>5. n \in Nat /\ n < Width
    BY <1>1, <1>3, <1>4 DEF Width
  <1>6. ms * PerTick + count = q * Width + n
    <2>1. ms * PerTick = q * Ticks * PerTick + r * PerTick BY <1>1, <1>2
    <2>2. q * Ticks * PerTick = q * Width BY <1>1, <1>2 DEF Width
    <2> QED BY <1>1, <1>2, <1>4, <2>1, <2>2
  <1>7. (q * Width + n) % Width = n
    <2> HIDE DEF n
    <2> QED BY <1>1, <1>2, <1>5, RemainderIsOne
  <1>8. Bits(ms, count, "ascending") = n
    BY <1>6, <1>7 DEF Bits, Cut, Width
  <1>9. Bits(ms, count, "descending") = Width - 1 - n
    <2> DEFINE m == Width - 1 - n
    <2>1. m \in 0 .. Width - 1 /\ -q - 1 \in Int BY <1>1, <1>2, <1>5
    <2>2. -(q * Width + n) - 1 = (-q - 1) * Width + m
      <3> HIDE DEF n
      <3> QED BY <1>1, <1>2, <1>5
    <2> HIDE DEF m
    <2>3. ((-q - 1) * Width + m) % Width = m BY <1>1, <2>1, RemainderIsOne
    <2> USE DEF m
    <2> QED BY <1>6, <2>2, <2>3 DEF Bits, Cut, Width
  <1>10. n \div PerTick = r
    BY <1>1, <1>2, RemainderIsOne
  <1> QED BY <1>5, <1>8, <1>9, <1>10 DEF TimestampOf, r

\* Times before the 48 bits wrap again sort as their remainders.
LEMMA RemaindersSort ==
    ASSUME NEW a \in Nat, NEW b \in Nat, a \div Ticks = b \div Ticks
    PROVE  a < b <=> a % Ticks < b % Ticks
  <1>1. Ticks \in Nat \ {0} BY IdAssumption
  <1>2. /\ a = (a \div Ticks) * Ticks + (a % Ticks) /\ b = (b \div Ticks) * Ticks + (b % Ticks)
        /\ a % Ticks \in Int /\ b % Ticks \in Int
        /\ (a \div Ticks) * Ticks \in Int /\ (b \div Ticks) * Ticks \in Int
    BY <1>1, Remainders
  <1> QED BY <1>2

\* Ids sort as time and counter, from one wrap to the next.
LEMMA BitsSort ==
    ASSUME NEW a \in Nat, NEW b \in Nat, NEW c \in Nat, NEW d \in Nat,
           c < PerTick, d < PerTick, a \div Ticks = b \div Ticks,
           a < b \/ (a = b /\ c < d)
    PROVE  /\ Bits(a, c, "ascending") < Bits(b, d, "ascending")
           /\ Bits(a, c, "descending") > Bits(b, d, "descending")
  <1> DEFINE x == a % Ticks  y == b % Ticks  m == x * PerTick + c  n == y * PerTick + d
  <1>1. Ticks \in Nat \ {0} /\ PerTick \in Nat \ {0} /\ Width \in Nat \ {0}
    BY IdAssumption, WidthIsPositive
  <1>2. x \in Nat /\ y \in Nat BY <1>1, Remainders
  <1>3. x < y \/ (x = y /\ c < d) BY RemaindersSort
  <1>4. /\ m \in Nat /\ n \in Nat
        /\ Bits(a, c, "ascending") = m /\ Bits(a, c, "descending") = Width - 1 - m
        /\ Bits(b, d, "ascending") = n /\ Bits(b, d, "descending") = Width - 1 - n
    BY BitsOf
  <1> HIDE DEF x, y
  <1>5. m < n
    <2>1. CASE x < y
      <3>1. x * PerTick + PerTick <= y * PerTick BY <1>1, <1>2, <2>1, Multiples
      <3>2. x * PerTick \in Nat /\ y * PerTick \in Nat BY <1>1, <1>2
      <3> QED BY <1>1, <3>1, <3>2
    <2>2. CASE x = y /\ c < d
      <3>1. x * PerTick \in Nat BY <1>1, <1>2
      <3> QED BY <2>2, <3>1
    <2> QED BY <1>3, <2>1, <2>2
  <1> HIDE DEF m, n
  <1> QED BY <1>1, <1>4, <1>5

-----------------------------------------------------------------------------
\* An id says what it was made of, and of the ids since the last timestamp went
\* back the counter and the timestamp know the newest.
IdsAreMade == \A i \in DOMAIN drawn :
    /\ drawn[i].bits = Bits(drawn[i].ms, drawn[i].count, drawn[i].way)
    /\ drawn[i].restarts <= restarts
    /\ drawn[i].restarts = restarts =>
          /\ drawn[i].ms <= lastTimestamp
          /\ drawn[i].ms = lastTimestamp => drawn[i].count <= counter

\* The counter goes up within a millisecond.
CountsGoUp == \A i, j \in DOMAIN drawn :
    i < j /\ drawn[i].ms = drawn[j].ms /\ drawn[i].restarts = drawn[j].restarts =>
        drawn[i].count < drawn[j].count

FilesAscend == \A i \in stored : drawn[i].way = "ascending"

IdInv == IdTypeOK /\ IdsAreMade /\ CountsGoUp /\ FilesAscend

DrawnRecord == [bits : Nat, ms : Nat, count : Nat, way : Directions, restarts : Nat]

LEMMA ConstantsAreNat ==
    /\ PerTick \in Nat \ {0} /\ Ticks \in Nat \ {0}
    /\ Retention \in Nat /\ MaxClock \in Nat /\ MaxDraws \in Nat /\ MaxRestarts \in Nat
  BY IdAssumption

LEMMA DrawnAreRecords == IdInv => \A i \in DOMAIN drawn : drawn[i] \in DrawnRecord
  <1> SUFFICES ASSUME IdInv, NEW i \in DOMAIN drawn PROVE drawn[i] \in DrawnRecord OBVIOUS
  <1>1. drawn \in Seq(DrawnRecord) BY DEF IdInv, IdTypeOK, DrawnRecord
  <1> HIDE DEF IdInv
  <1> QED BY <1>1

LEMMA BitsAreNat ==
    ASSUME NEW ms \in Nat, NEW count \in Nat, NEW way \in Directions
    PROVE  Bits(ms, count, way) \in Nat
  <1> DEFINE n == IF way = "descending" THEN -(ms * PerTick + count) - 1 ELSE ms * PerTick + count
  <1>1. ms * PerTick \in Nat BY ConstantsAreNat
  <1>2. n \in Int BY <1>1
  <1> HIDE DEF n
  <1>3. n % Width \in Nat BY <1>2, WidthIsPositive, Remainders
  <1> USE DEF n
  <1> QED BY <1>3 DEF Bits, Cut, Width

\* What a new counter says: it is ahead of the ids since the timestamp went back.
LEMMA CountsAhead ==
    ASSUME IdInv, NEW ms \in Nat, Counts(ms)
    PROVE  /\ counter' \in Nat /\ lastTimestamp' = ms /\ restarts' \in Nat /\ restarts <= restarts'
           /\ \A i \in DOMAIN drawn : drawn[i].restarts = restarts' =>
                 drawn[i].ms <= ms /\ (drawn[i].ms = ms => drawn[i].count < counter')
  <1>1. /\ counter \in Nat /\ lastTimestamp \in Nat /\ restarts \in Nat
        /\ \A i \in DOMAIN drawn : drawn[i] \in DrawnRecord
    BY DrawnAreRecords DEF IdInv, IdTypeOK
  <1>2. counter' \in Nat /\ lastTimestamp' = ms /\ restarts' \in Nat /\ restarts <= restarts'
    BY <1>1 DEF Counts
  <1>3. ASSUME NEW i \in DOMAIN drawn, drawn[i].restarts = restarts'
        PROVE  drawn[i].ms <= ms /\ (drawn[i].ms = ms => drawn[i].count < counter')
    <2>1. drawn[i].ms \in Nat /\ drawn[i].count \in Nat /\ drawn[i].restarts \in Nat
      BY <1>1 DEF DrawnRecord
    <2>2. restarts' = restarts /\ ms >= lastTimestamp
      BY <1>1, <1>3, <2>1 DEF Counts, IdInv, IdsAreMade
    <2>3. drawn[i].ms <= lastTimestamp /\ (drawn[i].ms = lastTimestamp => drawn[i].count <= counter)
      BY <1>3, <2>2 DEF IdInv, IdsAreMade
    <2> QED BY <1>1, <2>1, <2>2, <2>3 DEF Counts
  <1> QED BY <1>2, <1>3

\* The ids that were drawn stay, whatever the counter does.
LEMMA IdsStay ==
    ASSUME IdInv, UNCHANGED drawn, clock' \in Nat, lastTimestamp' \in Nat, counter' \in Nat,
           restarts' \in Nat, stored' \subseteq stored,
           \/ restarts' > restarts
           \/ restarts' = restarts /\ (UNCHANGED <<lastTimestamp, counter>> \/ Counts(lastTimestamp'))
    PROVE  IdInv'
  <1>1. \A i \in DOMAIN drawn : drawn[i] \in DrawnRecord
    BY DrawnAreRecords
  <1>2. IdTypeOK' BY DEF IdInv, IdTypeOK
  <1>3. CountsGoUp' /\ FilesAscend' BY DEF IdInv, CountsGoUp, FilesAscend
  <1>4. ASSUME NEW i \in DOMAIN drawn
        PROVE  /\ drawn[i].restarts <= restarts'
               /\ drawn[i].restarts = restarts' =>
                     /\ drawn[i].ms <= lastTimestamp'
                     /\ drawn[i].ms = lastTimestamp' => drawn[i].count <= counter'
    <2>0. drawn[i].ms \in Nat /\ drawn[i].count \in Nat /\ drawn[i].restarts \in Nat /\ restarts \in Nat
      BY <1>1 DEF DrawnRecord, IdInv, IdTypeOK
    <2>1. drawn[i].restarts <= restarts BY DEF IdInv, IdsAreMade
    <2>2. CASE restarts' > restarts BY <2>0, <2>1, <2>2
    <2>3. CASE restarts' = restarts /\ UNCHANGED <<lastTimestamp, counter>>
      BY <2>3 DEF IdInv, IdsAreMade
    <2>4. CASE restarts' = restarts /\ Counts(lastTimestamp')
      BY <2>0, <2>1, <2>4, CountsAhead
    <2> QED BY <2>2, <2>3, <2>4
  <1>5. IdsAreMade' BY <1>4 DEF IdInv, IdsAreMade
  <1> QED BY <1>2, <1>3, <1>5 DEF IdInv

LEMMA DrawKeeps ==
    ASSUME IdInv, NEW way \in Directions, NEW file \in BOOLEAN, Draw(way, file)
    PROVE  IdInv'
  <1> DEFINE id == [bits |-> Bits(clock, counter', way), ms |-> clock, count |-> counter',
                    way |-> way, restarts |-> restarts']
  <1>0. clock \in Nat /\ counter \in Nat /\ restarts \in Nat /\ drawn \in Seq(DrawnRecord)
        /\ stored \subseteq DOMAIN drawn
    BY DEF IdInv, IdTypeOK, DrawnRecord
  <1>1. Counts(clock) /\ UNCHANGED clock BY DEF Draw
  <1>2. /\ counter' \in Nat /\ lastTimestamp' = clock /\ restarts' \in Nat /\ restarts <= restarts'
        /\ \A i \in DOMAIN drawn : drawn[i].restarts = restarts' =>
              drawn[i].ms <= clock /\ (drawn[i].ms = clock => drawn[i].count < counter')
    BY <1>0, <1>1, CountsAhead
  <1>3. id \in DrawnRecord BY <1>0, <1>2, BitsAreNat DEF DrawnRecord
  <1>4. drawn' = Append(drawn, id) BY DEF Draw
  <1>5. /\ id.bits = Bits(id.ms, id.count, id.way) /\ id.restarts = restarts' /\ id.ms = clock
        /\ id.count = counter' /\ id.way = way
    OBVIOUS
  <1>6. stored' \subseteq stored \cup {Len(drawn')} /\ (way # "ascending" => stored' \subseteq stored)
    BY DEF Draw
  <1> HIDE DEF id
  <1>7. /\ drawn' \in Seq(DrawnRecord) /\ Len(drawn') = Len(drawn) + 1 /\ Len(drawn) \in Nat
        /\ DOMAIN drawn = 1 .. Len(drawn) /\ DOMAIN drawn' = 1 .. Len(drawn) + 1
        /\ \A i \in DOMAIN drawn : drawn'[i] = drawn[i] /\ drawn[i] \in DrawnRecord
        /\ drawn'[Len(drawn) + 1] = id
    BY <1>0, <1>3, <1>4
  <1>8. IdTypeOK'
    BY SMTT(30), <1>0, <1>1, <1>2, <1>6, <1>7 DEF IdTypeOK, DrawnRecord
  <1>9. IdsAreMade'
    <2>1. ASSUME NEW i \in DOMAIN drawn PROVE
             /\ drawn'[i].bits = Bits(drawn'[i].ms, drawn'[i].count, drawn'[i].way)
             /\ drawn'[i].restarts <= restarts'
             /\ drawn'[i].restarts = restarts' =>
                   /\ drawn'[i].ms <= lastTimestamp'
                   /\ drawn'[i].ms = lastTimestamp' => drawn'[i].count <= counter'
      <3>1. drawn'[i] = drawn[i] /\ drawn[i].count \in Nat /\ drawn[i].restarts \in Nat
        BY <1>7 DEF DrawnRecord
      <3>2. drawn[i].bits = Bits(drawn[i].ms, drawn[i].count, drawn[i].way) /\ drawn[i].restarts <= restarts
        BY DEF IdInv, IdsAreMade
      <3> QED BY <1>0, <1>2, <3>1, <3>2
    <2>2. LET i == Len(drawn) + 1 IN
             /\ drawn'[i].bits = Bits(drawn'[i].ms, drawn'[i].count, drawn'[i].way)
             /\ drawn'[i].restarts <= restarts'
             /\ drawn'[i].restarts = restarts' =>
                   /\ drawn'[i].ms <= lastTimestamp'
                   /\ drawn'[i].ms = lastTimestamp' => drawn'[i].count <= counter'
      BY <1>0, <1>2, <1>5, <1>7
    <2>3. \A i \in DOMAIN drawn' : i \in DOMAIN drawn \/ i = Len(drawn) + 1 BY <1>7
    <2>4. \A ms, count, w : Bits(ms, count, w)' = Bits(ms, count, w) BY DEF Bits, Cut
    <2> QED BY <2>1, <2>2, <2>3, <2>4 DEF IdsAreMade
  <1>10. CountsGoUp'
    <2>1. ASSUME NEW i \in DOMAIN drawn', NEW j \in DOMAIN drawn', i < j,
                 drawn'[i].ms = drawn'[j].ms, drawn'[i].restarts = drawn'[j].restarts
          PROVE  drawn'[i].count < drawn'[j].count
      <3>1. i \in DOMAIN drawn BY <1>7, <2>1
      <3>2. CASE j \in DOMAIN drawn
        BY <1>7, <2>1, <3>1, <3>2 DEF IdInv, CountsGoUp
      <3>3. CASE j = Len(drawn) + 1
        BY <1>2, <1>5, <1>7, <2>1, <3>1, <3>3
      <3> QED BY <1>7, <3>2, <3>3
    <2> QED BY <2>1 DEF CountsGoUp
  <1>11. FilesAscend'
    <2>1. way \in {"ascending", "descending"} BY DEF Directions
    <2> QED BY <1>0, <1>5, <1>6, <1>7, <2>1 DEF IdInv, FilesAscend
  <1> QED BY <1>8, <1>9, <1>10, <1>11 DEF IdInv

LEMMA StepIdInv == IdInv /\ [IdNext]_idVars => IdInv'
  <1> SUFFICES ASSUME IdInv, [IdNext]_idVars PROVE IdInv' OBVIOUS
  <1>0. /\ clock \in Nat /\ lastTimestamp \in Nat /\ counter \in Nat /\ restarts \in Nat
        /\ Retention \in Nat /\ restarts + 1 > restarts /\ restarts + 1 \in Nat
    BY ConstantsAreNat DEF IdInv, IdTypeOK
  <1>1. ASSUME NEW way \in Directions, NEW file \in BOOLEAN, Draw(way, file) PROVE IdInv'
    BY <1>1, DrawKeeps
  <1>2. CASE Cleanup
    <2>1. clock - Retention \in Nat BY <1>0, <1>2 DEF Cleanup
    <2>2. Counts(clock - Retention) /\ UNCHANGED <<clock, drawn>> /\ stored' \subseteq stored
      BY <1>2 DEF Cleanup
    <2>3. /\ counter' \in Nat /\ lastTimestamp' = clock - Retention
          /\ restarts' = restarts \/ restarts' = restarts + 1
      BY <1>0, <2>2 DEF Counts
    <2> QED BY <1>0, <2>1, <2>2, <2>3, IdsStay
  <1>3. CASE Tick BY <1>0, <1>3, IdsStay DEF Tick
  <1>4. CASE StepBack
    <2>1. clock' \in Nat BY <1>0, <1>4 DEF StepBack
    <2> QED BY <1>0, <1>4, <2>1, IdsStay DEF StepBack
  <1>5. CASE RestartProcess BY <1>0, <1>5, IdsStay DEF RestartProcess
  <1>6. CASE UNCHANGED idVars BY <1>0, <1>6, IdsStay DEF idVars
  <1> QED BY <1>1, <1>2, <1>3, <1>4, <1>5, <1>6 DEF IdNext

LEMMA InitIdInv == IdInit => IdInv
  <1> SUFFICES ASSUME IdInit PROVE IdInv OBVIOUS
  <1>1. clock \in Nat BY ConstantsAreNat DEF IdInit
  <1>2. drawn = <<>> /\ DOMAIN drawn = {} /\ stored = {} BY DEF IdInit
  <1>3. IdTypeOK BY <1>1, <1>2 DEF IdInit, IdTypeOK
  <1> QED BY <1>2, <1>3 DEF IdInv, IdsAreMade, CountsGoUp, FilesAscend

LEMMA InvFollowsTime == IdInv => IdsFollowTime
  <1> SUFFICES ASSUME IdInv, NEW i \in DOMAIN drawn, NEW j \in DOMAIN drawn, i < j,
                      Ordered(drawn[i], drawn[j]), drawn[i].way = drawn[j].way
               PROVE  IF drawn[i].way = "ascending"
                      THEN drawn[i].bits < drawn[j].bits
                      ELSE drawn[i].bits > drawn[j].bits
    BY DEF IdsFollowTime
  <1>1. drawn[i] \in DrawnRecord /\ drawn[j] \in DrawnRecord
    BY DrawnAreRecords
  <1>2. /\ drawn[i].bits = Bits(drawn[i].ms, drawn[i].count, drawn[i].way)
        /\ drawn[j].bits = Bits(drawn[j].ms, drawn[j].count, drawn[j].way)
    BY DEF IdInv, IdsAreMade
  <1>3. drawn[i].ms < drawn[j].ms \/ (drawn[i].ms = drawn[j].ms /\ drawn[i].count < drawn[j].count)
    BY DEF Ordered, IdInv, CountsGoUp
  <1>4. /\ Bits(drawn[i].ms, drawn[i].count, "ascending") < Bits(drawn[j].ms, drawn[j].count, "ascending")
        /\ Bits(drawn[i].ms, drawn[i].count, "descending") > Bits(drawn[j].ms, drawn[j].count, "descending")
    BY <1>1, <1>3, BitsSort DEF Ordered, DrawnRecord
  <1>5. drawn[i].way \in {"ascending", "descending"} BY <1>1 DEF DrawnRecord, Directions
  <1> QED BY <1>2, <1>4, <1>5

LEMMA CleanupIsOld ==
    ASSUME IdInv, Cleanup, counter' < PerTick
    PROVE  \A i \in stored :
              /\ drawn[i].count < PerTick
              /\ drawn[i].ms \div Ticks = (clock - Retention) \div Ticks
              => (i \notin stored' <=> drawn[i].ms < clock - Retention)
  <1> SUFFICES ASSUME NEW i \in stored, drawn[i].count < PerTick,
                      drawn[i].ms \div Ticks = (clock - Retention) \div Ticks
               PROVE  i \notin stored' <=> drawn[i].ms < clock - Retention
    OBVIOUS
  <1> DEFINE then == clock - Retention
  <1>1. clock \in Nat /\ Retention \in Nat /\ counter \in Nat /\ then \in Nat
    BY ConstantsAreNat DEF IdInv, IdTypeOK, Cleanup
  <1>2. counter' \in Nat BY <1>1 DEF Cleanup, Counts
  <1>3. i \in DOMAIN drawn /\ drawn[i] \in DrawnRecord /\ drawn[i].way = "ascending"
    BY DrawnAreRecords DEF IdInv, IdTypeOK, FilesAscend
  <1>4. drawn[i].ms \in Nat /\ drawn[i].count \in Nat BY <1>3 DEF DrawnRecord
  <1>5. TimestampOf(drawn[i].bits) = drawn[i].ms % Ticks
    <2>1. drawn[i].bits = Bits(drawn[i].ms, drawn[i].count, "ascending")
      BY <1>3 DEF IdInv, IdsAreMade
    <2> QED BY <1>4, <2>1, BitsOf
  <1>6. TimestampOf(Bits(then, counter', "ascending")) = then % Ticks
    BY <1>1, <1>2, BitsOf
  <1>7. i \in stored' <=> TimestampOf(drawn[i].bits) >= TimestampOf(Bits(then, counter', "ascending"))
    BY DEF Cleanup
  <1>8. drawn[i].ms % Ticks \in Int /\ then % Ticks \in Int
    <2> HIDE DEF then
    <2>1. Ticks \in Nat \ {0} /\ drawn[i].ms \in Int /\ then \in Int BY <1>1, <1>4, ConstantsAreNat
    <2> QED BY <2>1, Remainders
  <1>9. drawn[i].ms < then <=> drawn[i].ms % Ticks < then % Ticks
    <2>1. drawn[i].ms \div Ticks = then \div Ticks OBVIOUS
    <2> HIDE DEF then
    <2> QED BY <1>1, <1>4, <2>1, RemaindersSort
  <1> HIDE DEF then
  <1>10. i \in stored' <=> drawn[i].ms % Ticks >= then % Ticks BY <1>5, <1>6, <1>7
  <1> USE DEF then
  <1> QED BY <1>8, <1>9, <1>10

\* The inductive invariant of ids: each says what it was made of, and the counter
\* is ahead of those that were drawn since the last timestamp went back.
THEOREM IdInvHolds == IdSpec => []IdInv
  BY InitIdInv, StepIdInv, PTL DEF IdSpec

\* Ids of one kind sort in the order they were drawn (id/id.ts), for every width,
\* clock and number of ids, with the exceptions Ordered names.
THEOREM IdsSort == IdSpec => []IdContract
  <1>1. IdInv => IdContract BY InvFollowsTime DEF IdInv, IdContract
  <1> QED BY <1>1, IdInvHolds, PTL

\* A cleanup (tool/truncate.ts) removes the files that are older than the
\* retention and no others, unless the bits wrapped in between.
THEOREM CleanupKeepsTheNew == IdSpec => OnlyOldFilesGo
  <1>1. IdInv /\ [IdNext]_idVars =>
          [Cleanup /\ counter' < PerTick =>
             \A i \in stored :
                /\ drawn[i].count < PerTick
                /\ drawn[i].ms \div Ticks = (clock - Retention) \div Ticks
                => (i \notin stored' <=> drawn[i].ms < clock - Retention)]_idVars
    BY CleanupIsOld
  <1> QED BY <1>1, IdInvHolds, PTL DEF IdSpec, OnlyOldFilesGo
=============================================================================
