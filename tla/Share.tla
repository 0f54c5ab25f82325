-------------------------------- MODULE Share --------------------------------
(***************************************************************************)
(* packages/ravens/src/share/share-next.ts and share/session.ts: a session *)
(* that is published, with a queue of its changes that is sent one second  *)
(* after its first entry.                                                  *)
(*                                                                         *)
(* Data is a map from keys (the session, a message, a part, ...) to        *)
(* versions.  The server keeps what it is sent, as it comes; it is         *)
(* modelled from the requests of the code.  Every await of a request is    *)
(* the end of an action; between two of them nothing else runs.            *)
(***************************************************************************)
EXTENDS Naturals, FiniteSets, FiniteSetsExt

CONSTANTS
    Keys,         \* key(item)
    Removable,    \* those of messages and parts
    Shares,       \* calls of share, each names the share that the server makes
    Unshares,     \* calls of unshare
    Watcher,      \* the handler of Session.Event.Deleted, which calls remove too
    Earlier,      \* a share of an earlier process
    NoShare,
    Unknown,
    MaxVersion,   \* bound on the changes of a key
    MaxFailures     \* bound on failing requests

\* The server makes a new share for every call.
ASSUME ShareAssumption ==
    /\ Removable \subseteq Keys
    /\ Watcher \notin Unshares
    /\ {NoShare, Unknown} \cap (Shares \cup {Earlier}) = {}
    /\ NoShare # Unknown
    /\ Earlier \notin Shares
    /\ MaxVersion \in Nat /\ MaxFailures \in Nat

Links    == Shares \cup {Earlier}
Removers == Unshares \cup {Watcher}
Empty    == [k \in {} |-> 0]
Data     == UNION {[K -> 0 .. MaxVersion] : K \in SUBSET Keys}

VARIABLES
    truth,      \* of a key: the version in the database
    heard,      \* of a key: the version of the last event that was handled
    row,        \* SessionShareTable
    known,      \* s.shared
    unsent,     \* s.queue
    delayed,    \* flushes that wait for their second
    posts,      \* flushes whose request is on its way
    fulls,      \* of a share: its full sync, and what that has read
    published,  \* shares the server has
    content,    \* of a share: what the server was sent
    url,        \* session.share.url
    sharing,    \* of a call of share: where it is
    removing,   \* of a call of remove: where it is
    victim,     \* of a call of remove: the share it read
    deleted,    \* the session is deleted
    removed,    \* keys of messages and parts that were removed
    stale,      \* calls of remove whose state was disposed: s, in remove
    missed,     \* keys that a failure or a late request cost a version
    failures,   \* requests that failed, and disposals
    overlapped, \* a call began while one was under way, or shared what is shared
    stranded    \* a stale call removed the share that the new state has cached

shareData  == <<truth, heard, removed>>
shareQueue == <<unsent, delayed, posts, fulls>>
shareCalls == <<sharing, removing, victim, deleted, stale>>
shareHist  == <<missed, failures, overlapped, stranded>>
shareVars  == <<shareData, row, known, shareQueue, published, content, url, shareCalls, shareHist>>

ShareTypeOK ==
    /\ truth \in [Keys -> 0 .. MaxVersion]
    /\ heard \in [Keys -> 0 .. MaxVersion]
    /\ row \in Links \cup {NoShare}
    /\ known \in Links \cup {NoShare, Unknown}
    /\ unsent \in Data
    /\ delayed \in Nat
    /\ \A m \in posts : m.to \in Links /\ m.data \in Data \ {Empty}
    /\ \A s \in Shares : fulls[s].at \in {"none", "starts", "read"} /\ fulls[s].data \in Data
    /\ published \subseteq Links
    /\ content \in [Links -> [Keys -> 0 .. MaxVersion]]
    /\ url \in Links \cup {NoShare}
    /\ sharing \in [Shares -> {"new", "posted", "stored", "done", "failed"}]
    /\ removing \in [Removers -> {"new", "deleting", "deleted", "removed", "done", "failed"}]
    /\ victim \in [Removers -> Links \cup {NoShare}]
    /\ deleted \in BOOLEAN
    /\ removed \subseteq Removable
    /\ stale \subseteq Unshares
    /\ missed \subseteq Keys
    /\ failures \in 0 .. MaxFailures
    /\ overlapped \in BOOLEAN
    /\ stranded \in BOOLEAN

\* A process starts, with a session that was or was not shared before.
ShareInit ==
    /\ truth = [k \in Keys |-> 0]
    /\ heard = truth
    /\ row \in {NoShare, Earlier}
    /\ known = Unknown
    /\ unsent = Empty
    /\ delayed = 0
    /\ posts = {}
    /\ fulls = [s \in Shares |-> [at |-> "none", data |-> Empty]]
    /\ published = {row} \ {NoShare}
    /\ content = [s \in Links |-> [k \in Keys |-> 0]]
    /\ url = row
    /\ sharing = [s \in Shares |-> "new"]
    /\ removing = [u \in Removers |-> "new"]
    /\ victim = [u \in Removers |-> NoShare]
    /\ deleted = FALSE
    /\ removed = {}
    /\ stale = {}
    /\ missed = {}
    /\ failures = 0
    /\ overlapped = FALSE
    /\ stranded = FALSE

-----------------------------------------------------------------------------
\* getCached
Cached == IF known = Unknown THEN row ELSE known

\* Data, and from other data what it has not.
Over(data, other) ==
    [k \in DOMAIN data \cup DOMAIN other |-> IF k \in DOMAIN data THEN data[k] ELSE other[k]]

\* Variant: a queue that is there already is replaced.
SyncReplaces(data) ==
    /\ known' = Cached
    /\ IF Cached = NoShare
       THEN UNCHANGED <<unsent, delayed>>
       ELSE /\ unsent' = data
            /\ delayed' = IF unsent = Empty THEN delayed + 1 ELSE delayed

\* sync: data is put into the queue; who makes the queue forks its flush.
SyncData(data) ==
    /\ known' = Cached
    /\ IF Cached = NoShare
       THEN UNCHANGED <<unsent, delayed>>
       ELSE /\ unsent' = Over(data, unsent)
            /\ delayed' = IF unsent = Empty THEN delayed + 1 ELSE delayed

\* Something of the session changes; the event is published.
Change(k) ==
    /\ ~deleted
    /\ k \notin removed
    /\ truth[k] < MaxVersion
    /\ truth' = [truth EXCEPT ![k] = @ + 1]
    /\ UNCHANGED <<heard, removed, row, known, shareQueue, published, content, url, shareCalls,
                   shareHist>>

\* A message or a part is removed, by a revert.  Nothing here listens to that.
RemoveItem(k) ==
    /\ ~deleted
    /\ removed' = removed \cup {k}
    /\ UNCHANGED <<truth, heard, row, known, shareQueue, published, content, url, shareCalls,
                   shareHist>>

\* A watcher handles the next event of a key.
Hear(k) ==
    /\ heard[k] < truth[k]
    /\ heard' = [heard EXCEPT ![k] = @ + 1]
    /\ SyncData([j \in {k} |-> heard'[k]])
    /\ UNCHANGED <<truth, removed, row, posts, fulls, published, content, url, shareCalls,
                   shareHist>>

\* flush: the second is over, the queue is taken and its data is on its way.
Flush ==
    /\ delayed > 0
    /\ delayed' = delayed - 1
    /\ unsent' = Empty
    /\ known' = IF unsent = Empty THEN known ELSE Cached
    /\ posts' = IF unsent = Empty \/ Cached = NoShare THEN posts
                ELSE posts \cup {[to |-> Cached, data |-> unsent,
                                  n |-> Min((1 .. Cardinality(posts) + 1) \ {m.n : m \in posts})]}
    /\ UNCHANGED <<shareData, row, fulls, published, content, url, shareCalls, shareHist>>

\* The server gets the data of a flush; the requests of several flushes may
\* overtake each other.
PostArrives(m) ==
    /\ posts' = posts \ {m}
    /\ content' = IF m.to \in published THEN [content EXCEPT ![m.to] = Over(m.data, @)] ELSE content
    /\ missed' = (missed \ {k \in DOMAIN m.data : m.to = row /\ m.data[k] = truth[k]})
                     \cup {k \in DOMAIN m.data : m.data[k] < content[m.to][k]}
    /\ UNCHANGED <<shareData, row, known, unsent, delayed, fulls, published, url, shareCalls,
                   failures, overlapped, stranded>>

\* A flush fails, which is logged: its data is lost.
PostFails(m) ==
    /\ failures < MaxFailures
    /\ failures' = failures + 1
    /\ posts' = posts \ {m}
    /\ missed' = missed \cup DOMAIN m.data
    /\ UNCHANGED <<shareData, row, known, unsent, delayed, fulls, published, content, url,
                   shareCalls, overlapped, stranded>>

-----------------------------------------------------------------------------
UnderWay ==
    \/ \E s \in Shares : sharing[s] \in {"posted", "stored"}
    \/ \E u \in Removers : removing[u] \in {"deleting", "deleted", "removed"}

Fails(n) == failures + n <= MaxFailures /\ failures' = failures + n

\* create: the server makes the share.  Its answer, or the request, may be lost.
ShareBegins(s) ==
    /\ sharing[s] = "new"
    /\ ~deleted
    /\ overlapped' = (overlapped \/ UnderWay \/ row # NoShare)
    /\ \/ /\ sharing' = [sharing EXCEPT ![s] = "posted"]
          /\ published' = published \cup {s}
          /\ UNCHANGED failures
       \/ /\ sharing' = [sharing EXCEPT ![s] = "failed"]
          /\ published' \in {published, published \cup {s}}
          /\ Fails(1)
    /\ UNCHANGED <<shareData, row, known, shareQueue, content, url, removing, victim, deleted,
                   stale, missed, stranded>>

\* The share is stored, in the place of another, and a full sync forked.  The row
\* of a session that was deleted meanwhile is refused.
ShareStores(s) ==
    /\ sharing[s] = "posted"
    /\ IF deleted
       THEN sharing' = [sharing EXCEPT ![s] = "failed"] /\ UNCHANGED <<row, known, fulls, stranded>>
       ELSE /\ sharing' = [sharing EXCEPT ![s] = "stored"]
            /\ row' = s
            /\ known' = s
            /\ fulls' = [fulls EXCEPT ![s].at = "starts"]
            /\ stranded' = FALSE
    /\ UNCHANGED <<shareData, unsent, delayed, posts, published, content, url,
                   removing, victim, deleted, stale, missed, failures, overlapped>>

\* share: the session shows its link.
ShareShows(s) ==
    /\ sharing[s] = "stored"
    /\ sharing' = [sharing EXCEPT ![s] = "done"]
    /\ url' = IF deleted THEN url ELSE s
    /\ UNCHANGED <<shareData, row, known, shareQueue, published, content, removing, victim,
                   deleted, stale, shareHist>>

\* full: everything is read; the models are asked for; then all of it is queued.
FullReads(s) ==
    /\ fulls[s].at = "starts"
    /\ fulls' = [fulls EXCEPT ![s] = IF deleted
                                   THEN [at |-> "none", data |-> Empty]
                                   ELSE [at |-> "read", data |-> [k \in Keys \ removed |-> truth[k]]]]
    /\ UNCHANGED <<shareData, row, known, unsent, delayed, posts, published, content, url,
                   shareCalls, shareHist>>

FullQueues(s) ==
    /\ fulls[s].at = "read"
    /\ fulls' = [fulls EXCEPT ![s] = [at |-> "none", data |-> Empty]]
    /\ SyncData(fulls[s].data)
    /\ missed' = missed \cup {k \in DOMAIN fulls[s].data : fulls[s].data[k] < heard[k]}
    /\ UNCHANGED <<shareData, row, posts, published, content, url, shareCalls, failures,
                   overlapped, stranded>>

FullFails(s) ==
    /\ fulls[s].at = "read"
    /\ Fails(1)
    /\ fulls' = [fulls EXCEPT ![s] = [at |-> "none", data |-> Empty]]
    /\ missed' = Keys
    /\ UNCHANGED <<shareData, row, known, unsent, delayed, posts, published, content, url,
                   shareCalls, overlapped, stranded>>

-----------------------------------------------------------------------------
\* The session is deleted: its share row goes with it, the event is published.
Delete ==
    /\ ~deleted
    /\ deleted' = TRUE
    /\ row' = NoShare
    /\ url' = NoShare
    /\ overlapped' = (overlapped \/ UnderWay)
    /\ UNCHANGED <<shareData, known, shareQueue, published, content, sharing, removing, victim,
                   stale,
                   missed, failures, stranded>>

\* remove: looks for the share ...
RemoveBegins(u) ==
    /\ removing[u] = "new"
    /\ u = Watcher <=> deleted
    /\ overlapped' = (overlapped \/ UnderWay)
    /\ IF Cached = NoShare
       THEN /\ known' = Unknown
            /\ unsent' = Empty
            /\ removing' = [removing EXCEPT ![u] = "removed"]
            /\ UNCHANGED victim
       ELSE /\ known' = Cached
            /\ removing' = [removing EXCEPT ![u] = "deleting"]
            /\ victim' = [victim EXCEPT ![u] = Cached]
            /\ UNCHANGED unsent
    /\ UNCHANGED <<shareData, row, delayed, posts, fulls, published, content, url, sharing,
                   deleted, stale,
                   missed, failures, stranded>>

\* ... has the server delete it; the request or its answer may be lost ...
RemoveDeletes(u) ==
    /\ removing[u] = "deleting"
    /\ \/ /\ victim[u] \in published
          /\ published' = published \ {victim[u]}
          /\ removing' = [removing EXCEPT ![u] = "deleted"]
          /\ UNCHANGED failures
       \/ /\ victim[u] \notin published
          /\ removing' = [removing EXCEPT ![u] = "failed"]
          /\ UNCHANGED <<published, failures>>
       \/ /\ published' \in {published, published \ {victim[u]}}
          /\ removing' = [removing EXCEPT ![u] = "failed"]
          /\ Fails(1)
    /\ UNCHANGED <<shareData, row, known, shareQueue, content, url, sharing, victim, deleted, stale,
                   missed, overlapped, stranded>>

\* ... and then deletes what the process has of it - in the state that it began with.
RemoveClears(u) ==
    /\ removing[u] = "deleted"
    /\ removing' = [removing EXCEPT ![u] = "removed"]
    /\ row' = NoShare
    /\ IF u \in stale
       THEN stranded' = (known \in Links) /\ UNCHANGED <<known, unsent>>
       ELSE stranded' = FALSE /\ known' = Unknown /\ unsent' = Empty
    /\ UNCHANGED <<shareData, delayed, posts, fulls, published, content, url, sharing, victim,
                   deleted, stale,
                   missed, failures, overlapped>>

\* unshare: the session no longer shows its link.
RemoveShows(u) ==
    /\ removing[u] = "removed"
    /\ removing' = [removing EXCEPT ![u] = "done"]
    /\ url' = IF u = Watcher THEN url ELSE NoShare
    /\ UNCHANGED <<shareData, row, known, shareQueue, published, content, sharing, victim, deleted,
                   stale, shareHist>>

\* The instance is disposed and made again, at any time: what waits to be sent is
\* dropped and the handler of Deleted is interrupted; calls of share and unshare go on.
Redispose ==
    /\ failures < MaxFailures
    /\ failures' = failures + 1
    /\ heard' = truth
    /\ known' = Unknown
    /\ unsent' = Empty
    /\ delayed' = 0
    /\ posts' = {}
    /\ fulls' = [s \in Shares |-> [at |-> "none", data |-> Empty]]
    /\ missed' = missed \cup {k \in Keys :
          \/ heard[k] # truth[k] \/ k \in DOMAIN unsent
          \/ \E m \in posts : k \in DOMAIN m.data
          \/ \E s \in Shares : fulls[s].at # "none"}
    /\ stranded' = FALSE
    /\ stale' = stale \cup {u \in Unshares : removing[u] \in {"deleting", "deleted"}}
    /\ IF deleted /\ removing[Watcher] \in {"new", "deleting", "deleted"}
       THEN /\ removing' = [removing EXCEPT ![Watcher] = "failed"]
            /\ \/ UNCHANGED published
               \/ removing[Watcher] = "deleting" /\ published' = published \ {victim[Watcher]}
       ELSE UNCHANGED <<removing, published>>
    /\ UNCHANGED <<truth, removed, row, content, url, sharing, victim, deleted, overlapped>>

-----------------------------------------------------------------------------
ShareNext ==
    \/ \E k \in Keys : Change(k) \/ Hear(k)
    \/ \E k \in Removable \ removed : RemoveItem(k)
    \/ Flush \/ Delete \/ Redispose
    \/ \E m \in posts : PostArrives(m) \/ PostFails(m)
    \/ \E s \in Shares :
         ShareBegins(s) \/ ShareStores(s) \/ ShareShows(s) \/ FullReads(s) \/ FullQueues(s) \/ FullFails(s)
    \/ \E u \in Removers : RemoveBegins(u) \/ RemoveDeletes(u) \/ RemoveClears(u) \/ RemoveShows(u)

ShareSpec == ShareInit /\ [][ShareNext]_shareVars

-----------------------------------------------------------------------------
\* Nothing is under way or waits to be sent.
Quiet ==
    /\ ~UnderWay
    /\ heard = truth
    /\ unsent = Empty /\ posts = {}
    /\ \A s \in Shares : fulls[s].at = "none"
    /\ deleted => removing[Watcher] \notin {"new", "deleting"}

\* What waits to be sent has a flush that will send it.
UnsentIsFlushed == unsent # Empty => delayed > 0

\* When all was sent the server has the last version of everything the session has,
\* except what a failed request, a disposal, a later arrival of an older version, or
\* a full sync that read before an event was handled cost it - until the key changes
\* again.  What the session has removed it may have too: nobody tells it.
SharedIsCurrent ==
    Quiet /\ row # NoShare /\ row \in published /\ ~overlapped =>
        \A k \in Keys \ (missed \cup removed) : content[row][k] = truth[k]

NoCallFailed ==
    /\ \A s \in Shares : sharing[s] # "failed"
    /\ \A u \in Removers : removing[u] # "failed"

\* What is public is what the session says is: unless calls overlapped or failed, a
\* share that the server has is the one in the table, and the one that is shown, also
\* after a disposal in the middle of a call.  The exception: a session that is
\* deleted while its share was not looked up since the process started or the
\* instance was made - the table has forgotten it.
PublicIsKnown ==
    Quiet /\ ~overlapped /\ NoCallFailed =>
        \/ /\ published = {row} \ {NoShare}
           /\ url = row
        \/ deleted /\ victim[Watcher] = NoShare

\* Nothing is sent to a share of the session that was removed: what the process
\* has cached is in the table, also while a call is under way.  The exception: the
\* instance was disposed while the server was asked to remove the share, the new state
\* looked the share up before the row went, and the call cleared the old state.
CacheIsRow == ~overlapped /\ ~deleted /\ ~stranded => known \in {Unknown, row}

\* What the server has of the session is what the session has, except what was removed
\* of it, and what the session says is there.
ShareContract ==
    ShareTypeOK /\ UnsentIsFlushed /\ SharedIsCurrent /\ PublicIsKnown /\ CacheIsRow
=============================================================================
