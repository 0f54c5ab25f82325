----------------------------- MODULE SyncProofs -----------------------------
(***************************************************************************)
(* Proofs about Sync, for any workspaces, warps, faults and lengths of     *)
(* logs: no replay meets a gap, the log of a single writer continues every *)
(* other, and after a claim nothing from outside gets in.                  *)
(***************************************************************************)
EXTENDS Sync, SequenceTheorems, WellFoundedInduction, TLAPS

-----------------------------------------------------------------------------
\* Sequences of events.
Extends(s, t) == Len(s) <= Len(t) /\ \A i \in 1 .. Len(s) : s[i] = t[i]

LEMMA PrefixIsExtended ==
    ASSUME NEW s \in Seq(Event), NEW t \in Seq(Event)
    PROVE  IsPrefix(s, t) <=> Extends(s, t)
  <1>1. CASE Len(s) <= Len(t)
    <2>1. /\ SubSeq(s, 1, Len(s)) \in Seq(Event) /\ Len(SubSeq(s, 1, Len(s))) = Len(s)
          /\ SubSeq(t, 1, Len(s)) \in Seq(Event) /\ Len(SubSeq(t, 1, Len(s))) = Len(s)
          /\ \A i \in 1 .. Len(s) : SubSeq(s, 1, Len(s))[i] = s[i] /\ SubSeq(t, 1, Len(s))[i] = t[i]
      BY <1>1
    <2>2. SubSeq(s, 1, Len(s)) = SubSeq(t, 1, Len(s)) <=> \A i \in 1 .. Len(s) : s[i] = t[i]
      BY <2>1, SeqEqual
    <2> QED
      BY <1>1, <2>2 DEF IsPrefix, Extends
  <1> QED
    BY <1>1 DEF IsPrefix, Extends

LEMMA AppendExtends ==
    ASSUME NEW s \in Seq(Event), NEW e \in Event
    PROVE  /\ Append(s, e) \in Seq(Event)
           /\ Len(Append(s, e)) = Len(s) + 1
           /\ Append(s, e)[Len(s) + 1] = e
           /\ Extends(s, Append(s, e))
  BY DEF Extends

\* A replay leaves a log alone, or continues it with rows of the other up to the last.
LEMMA ReplayedExtends ==
    ASSUME NEW l \in Seq(Event), NEW from \in Seq(Event), NEW owned \in BOOLEAN,
           NEW a \in Nat \ {0}, NEW b \in Nat, b <= Len(from)
    PROVE  /\ Replayed(l, owned, from, a, b) \in Seq(Event)
           /\ Extends(l, Replayed(l, owned, from, a, b))
           /\ Len(Replayed(l, owned, from, a, b)) \in {Len(l), b}
           /\ \A i \in Len(l) + 1 .. Len(Replayed(l, owned, from, a, b)) :
                Replayed(l, owned, from, a, b)[i] = from[i]
           /\ owned => Replayed(l, owned, from, a, b) = l
           /\ ~owned /\ a <= Len(l) + 1 => b <= Len(Replayed(l, owned, from, a, b))
  <1>1. CASE owned \/ b <= Len(l) \/ a > Len(l) + 1
    BY <1>1 DEF Replayed, Extends
  <1>2. CASE ~(owned \/ b <= Len(l) \/ a > Len(l) + 1)
    <2> DEFINE tail == SubSeq(from, Len(l) + 1, b)
    <2>1. /\ tail \in Seq(Event) /\ Len(tail) = b - Len(l)
          /\ \A i \in 1 .. b - Len(l) : tail[i] = from[Len(l) + i]
      BY <1>2
    <2>2. /\ l \o tail \in Seq(Event) /\ Len(l \o tail) = b
          /\ \A i \in 1 .. Len(l) : (l \o tail)[i] = l[i]
          /\ \A i \in Len(l) + 1 .. b : (l \o tail)[i] = from[i]
      BY <1>2, <2>1
    <2>3. Replayed(l, owned, from, a, b) = l \o tail
      BY <1>2 DEF Replayed
    <2> QED
      BY <1>2, <2>2, <2>3 DEF Extends
  <1> QED
    BY <1>1, <1>2

LEMMA ExtendsIsTransitive ==
    ASSUME NEW s \in Seq(Event), NEW t \in Seq(Event), NEW u \in Seq(Event),
           Extends(s, t), Extends(t, u)
    PROVE  Extends(s, u)
  BY DEF Extends

LEMMA MaxIsIn ==
    ASSUME NEW n \in Nat, NEW S \in SUBSET (0 .. n), S # {}
    PROVE  Max(S) \in S
  <1> DEFINE R == OpToRel(<, Nat)
             T == {n - x : x \in S}
  <1>1. IsWellFoundedOn(R, Nat)
    BY NatLessThanWellFounded DEF R
  <1> HIDE DEF R, T
  <1>2. T \subseteq Nat /\ T # {}
    <2>1. \A x \in S : x \in 0 .. n
      OBVIOUS
    <2>2. \A x \in S : n - x \in Nat
      BY <2>1
    <2> QED
      BY <2>2 DEF T
  <1>3. PICK m \in T : \A y \in T : <<y, m>> \notin R
    BY <1>1, <1>2, WFMin
  <1>4. \A x, y \in Nat : x < y => <<x, y>> \in R
    BY DEF R, OpToRel
  <1>5. PICK x \in S : m = n - x
    BY DEF T
  <1>6. \A y \in S : x >= y
    <2> SUFFICES ASSUME NEW y \in S, y > x PROVE FALSE
      OBVIOUS
    <2>1. n - y \in T
      BY DEF T
    <2>2. n - y \in Nat /\ n - x \in Nat /\ n - y < n - x
      OBVIOUS
    <2> QED
      BY <1>3, <1>4, <1>5, <2>1, <2>2
  <1> QED
    BY <1>6 DEF Max

\* Where the projectors of a log leave the session.
LEMMA PlaceIsSpace ==
    ASSUME NEW l \in Seq(Event)
    PROVE  Place(l) \in Spaces
  <1> DEFINE moves == {i \in DOMAIN l : l[i].to # Stay}
  <1>1. \A i \in DOMAIN l : i \in 0 .. Len(l) /\ l[i].to \in Spaces \cup {Stay}
    <2>1. \A i \in DOMAIN l : i \in 1 .. Len(l) /\ l[i] \in Event
      OBVIOUS
    <2> QED
      BY <2>1 DEF Event
  <1>2. CASE moves = {}
    BY <1>2 DEF Place, Spaces
  <1>3. CASE moves # {}
    <2>1. Max(moves) \in moves
      <3>1. moves \in SUBSET (0 .. Len(l)) /\ Len(l) \in Nat
        BY <1>1
      <3> QED
        BY <1>3, <3>1, MaxIsIn
    <2>2. l[Max(moves)].to \in Spaces
      BY <1>1, <2>1
    <2> QED
      BY <1>3, <2>2 DEF Place
  <1> QED
    BY <1>2, <1>3

-----------------------------------------------------------------------------
\* The types of links and warps stay folded where single fields do.
LinkSet ==
    [loop : {"ended", "connecting", "failed", "linked", "asked", "answered", "live"},
     pos : Nat, known : Nat, until : Nat]
WarpSet ==
    [pc : {"none", "sync", "asked", "answered", "cancel", "claim", "deliver", "post", "steal"},
     from : Spaces, to : Spaces, known : Nat, until : Nat, sent : Nat]

\* What is said of logs.
LogsTyped == log \in [Machines -> Seq(Event)]

\* What a remote log has of others is at the control plane too.
ForeignIsHome ==
    \A r \in Remotes : \A i \in 1 .. Len(log[r]) : log[r][i].at # r => i <= Len(log[Home])

HolderExtends == ~strayed => \A m \in Machines : Extends(log[m], log[holder])

LogsInv ==
    /\ LogsTyped /\ ForeignIsHome /\ HolderExtends /\ ShutOut
    /\ holder \in Machines /\ strayed \in BOOLEAN /\ claimed \in Nat
    /\ owner \in Spaces \cup {NoOwner}

\* What a loop remembers of its stream and its history fits the logs.
LinkFits(r) ==
    /\ link[r].loop \in {"linked", "asked", "answered", "live"} =>
         link[r].pos \in 1 .. Len(log[r]) + 1
    /\ link[r].loop \in {"asked", "answered"} => link[r].known <= Len(log[Home])
    /\ link[r].loop = "answered" =>
         link[r].until <= Len(log[r]) /\ link[r].pos <= link[r].until + 1
    /\ link[r].loop = "live" => owner # NoOwner \/ link[r].pos <= Len(log[Home]) + 1

LinksInv == link \in [Remotes -> LinkSet] /\ \A r \in Remotes : LinkFits(r)

\* What a warp remembers fits the logs.
WarpFits ==
    /\ warp.pc \in {"sync", "asked", "answered"} => warp.from \in Remotes
    /\ warp.pc \in {"asked", "answered"} => warp.known <= Len(log[Home])
    /\ warp.pc = "answered" => warp.until <= Len(log[warp.from])
    /\ warp.pc \in {"post", "steal"} => warp.to \in Remotes
    /\ warp.pc \notin {"post", "steal"} => warp.sent = 0
    /\ warp.pc = "post" =>
         /\ warp.until <= Len(log[Home])
         /\ warp.sent <= warp.until
         /\ warp.sent <= Len(log[warp.to])

WarpInv == warp \in WarpSet /\ WarpFits

CountersTyped ==
    turn \in [Machines -> BOOLEAN] /\ warps \in 0 .. MaxWarps /\ faults \in 0 .. MaxFaults

SyncInv == LogsInv /\ LinksInv /\ WarpInv /\ CountersTyped

-----------------------------------------------------------------------------
\* Logs grow.
Grows == \A m \in Machines : Len(log[m]) <= Len(log'[m])

Unclaimed == UNCHANGED <<owner, claimed>>

\* A machine that writes an event of its own, and takes the session with it.
LEMMA EventAdds ==
    ASSUME LogsInv, Unclaimed, NEW m \in Machines, NEW e \in Event, e.at = m,
           log' = [log EXCEPT ![m] = Append(@, e)],
           \/ holder' = holder /\ strayed' = (strayed \/ m # holder)
           \/ holder' = m /\ strayed' = (strayed \/ ~IsPrefix(log[holder], log[m]))
    PROVE  LogsInv' /\ Grows
  <1>1. /\ LogsTyped' /\ Grows /\ \A n \in Machines : n # m => log'[n] = log[n]
        /\ log'[m] = Append(log[m], e) /\ Extends(log[m], log'[m])
        /\ Len(log'[m]) = Len(log[m]) + 1 /\ log'[m][Len(log[m]) + 1] = e
    <2>1. log[m] \in Seq(Event)
      BY DEF LogsInv, LogsTyped
    <2>2. /\ Append(log[m], e) \in Seq(Event)
          /\ Len(Append(log[m], e)) = Len(log[m]) + 1
          /\ Append(log[m], e)[Len(log[m]) + 1] = e
          /\ Extends(log[m], Append(log[m], e))
      BY <2>1, AppendExtends
    <2>3. log' \in [Machines -> Seq(Event)]
      BY <2>2 DEF LogsInv, LogsTyped
    <2>4. log'[m] = Append(log[m], e) /\ \A n \in Machines : n # m => log'[n] = log[n]
      BY DEF LogsInv, LogsTyped
    <2>5. \A n \in Machines : Len(log[n]) \in Nat
      BY DEF LogsInv, LogsTyped
    <2> QED
      BY <2>1, <2>2, <2>3, <2>4, <2>5 DEF LogsTyped, Grows
  <1>2. holder' \in Machines /\ strayed' \in BOOLEAN /\ claimed' \in Nat
        /\ owner' \in Spaces \cup {NoOwner}
    BY DEF LogsInv, Unclaimed
  <1>3. ForeignIsHome'
    <2> SUFFICES ASSUME NEW r \in Remotes, NEW i \in 1 .. Len(log'[r]), log'[r][i].at # r
                 PROVE  i <= Len(log'[Home])
      BY DEF ForeignIsHome
    <2>1. r \in Machines /\ Home \in Machines /\ Len(log[r]) \in Nat /\ Len(log[Home]) \in Nat
      BY DEF Machines, LogsInv, LogsTyped
    <2>2. i \in 1 .. Len(log[r]) /\ log[r][i] = log'[r][i]
      BY <1>1, <2>1 DEF Extends
    <2>3. i <= Len(log[Home])
      BY <2>2 DEF LogsInv, ForeignIsHome
    <2> QED
      BY <1>1, <2>1, <2>3 DEF Grows, LogsTyped
  <1>4. HolderExtends'
    <2> SUFFICES ASSUME ~strayed', NEW n \in Machines PROVE Extends(log'[n], log'[holder'])
      BY DEF HolderExtends
    <2>1. log[n] \in Seq(Event) /\ log'[n] \in Seq(Event) /\ log[m] \in Seq(Event)
          /\ log'[m] \in Seq(Event) /\ log[holder] \in Seq(Event)
      BY <1>1 DEF LogsInv, LogsTyped
    <2>2. holder' = m /\ ~strayed /\ Extends(log[holder], log[m])
      <3>1. CASE holder' = holder /\ strayed' = (strayed \/ m # holder)
        <4>1. m = holder /\ ~strayed
          BY <3>1
        <4> QED
          BY <2>1, <3>1, <4>1 DEF Extends
      <3>2. CASE holder' = m /\ strayed' = (strayed \/ ~IsPrefix(log[holder], log[m]))
        BY <3>2, <2>1, PrefixIsExtended DEF LogsInv
      <3> QED
        BY <3>1, <3>2
    <2>3. Extends(log[n], log[holder])
      BY <2>2 DEF LogsInv, HolderExtends
    <2>4. Extends(log[n], log'[m])
      <3>1. Extends(log[n], log[m])
        BY <2>1, <2>2, <2>3, ExtendsIsTransitive
      <3> QED
        BY <1>1, <2>1, <3>1, ExtendsIsTransitive
    <2>5. CASE n = m
      BY <2>1, <2>2, <2>5 DEF Extends
    <2>6. CASE n # m
      BY <1>1, <2>2, <2>4, <2>6
    <2> QED
      BY <2>5, <2>6
  <1>5. ShutOut'
    <2> SUFFICES ASSUME owner # NoOwner, NEW i \in claimed + 1 .. Len(log'[Home])
                 PROVE  log'[Home][i].at = Home
      BY DEF ShutOut, Unclaimed
    <2>1. Home \in Machines /\ Len(log[Home]) \in Nat /\ claimed \in Nat
      BY DEF Machines, LogsInv, LogsTyped
    <2>2. CASE i <= Len(log[Home])
      <3>1. log'[Home][i] = log[Home][i]
        BY <1>1, <2>1, <2>2 DEF Extends
      <3> QED
        BY <2>1, <2>2, <3>1 DEF LogsInv, ShutOut
    <2>3. CASE i > Len(log[Home])
      BY <1>1, <2>1, <2>3
    <2> QED
      BY <2>1, <2>2, <2>3
  <1> QED
    BY <1>1, <1>2, <1>3, <1>4, <1>5 DEF LogsInv

\* A machine that replays rows of another.
LEMMA ReplayAdds ==
    ASSUME LogsInv, Unclaimed, UNCHANGED <<holder, strayed>>,
           NEW m \in Machines, NEW n \in Machines,
           m = Home \/ n = Home,
           NEW a \in Nat \ {0}, NEW b \in Nat, b <= Len(log[n]),
           log' = [log EXCEPT ![m] = ReplayAt(m, log[n], a, b)]
    PROVE  /\ LogsInv' /\ Grows
           /\ (m = Home => owner = NoOwner) /\ a <= Len(log[m]) + 1 => b <= Len(log'[m])
  <1> DEFINE owned == m = Home /\ owner # NoOwner
  <1>1. /\ log'[m] = Replayed(log[m], owned, log[n], a, b)
        /\ \A k \in Machines : k # m => log'[k] = log[k]
        /\ log[m] \in Seq(Event) /\ log[n] \in Seq(Event)
    BY DEF LogsInv, LogsTyped, ReplayAt
  <1>2. /\ log'[m] \in Seq(Event)
        /\ Extends(log[m], log'[m])
        /\ Len(log'[m]) \in {Len(log[m]), b}
        /\ \A i \in Len(log[m]) + 1 .. Len(log'[m]) : log'[m][i] = log[n][i]
        /\ owned => log'[m] = log[m]
        /\ ~owned /\ a <= Len(log[m]) + 1 => b <= Len(log'[m])
    <2>1. owned \in BOOLEAN
      OBVIOUS
    <2> HIDE DEF owned
    <2> QED
      BY <1>1, <2>1, ReplayedExtends
  <1>3. LogsTyped' /\ Grows
    <2>1. log' \in [Machines -> Seq(Event)]
      BY <1>2 DEF LogsInv, LogsTyped, ReplayAt
    <2>2. \A k \in Machines : Len(log[k]) \in Nat
      BY DEF LogsInv, LogsTyped
    <2> QED
      BY <1>1, <1>2, <2>1, <2>2 DEF LogsTyped, Grows, Extends
  <1>4. ForeignIsHome'
    <2> SUFFICES ASSUME NEW r \in Remotes, NEW i \in 1 .. Len(log'[r]), log'[r][i].at # r
                 PROVE  i <= Len(log'[Home])
      BY DEF ForeignIsHome
    <2>1. /\ r \in Machines /\ Home \in Machines /\ r # Home
          /\ Len(log[r]) \in Nat /\ Len(log[Home]) \in Nat /\ Len(log'[Home]) \in Nat
          /\ Len(log[Home]) <= Len(log'[Home])
      BY <1>3, SyncAssumption DEF Machines, LogsInv, LogsTyped, Grows
    <2>2. CASE i \in 1 .. Len(log[r])
      <3>1. log[r][i] = log'[r][i]
        BY <1>1, <1>2, <2>2 DEF Extends
      <3>2. i <= Len(log[Home])
        BY <2>2, <3>1 DEF LogsInv, ForeignIsHome
      <3> QED
        BY <2>1, <3>2
    <2>3. CASE i \notin 1 .. Len(log[r])
      <3>1. r = m
        BY <1>1, <2>3
      <3>2. n = Home /\ Len(log'[r]) = b
        BY <1>2, <2>1, <2>3, <3>1
      <3> QED
        BY <2>1, <3>2
    <2> QED
      BY <2>2, <2>3
  <1>5. HolderExtends'
    <2> SUFFICES ASSUME ~strayed, NEW k \in Machines PROVE Extends(log'[k], log'[holder])
      BY DEF HolderExtends
    <2>1. \A h \in Machines : log[h] \in Seq(Event) /\ Extends(log[h], log[holder])
      BY DEF LogsInv, LogsTyped, HolderExtends
    <2>2. Extends(log'[m], log[holder])
      <3> SUFFICES ASSUME NEW i \in Len(log[m]) + 1 .. Len(log'[m])
                   PROVE  log'[m][i] = log[holder][i] /\ i <= Len(log[holder])
        BY <1>1, <1>2, <2>1 DEF LogsInv, Extends
      <3>1. i \in 1 .. Len(log[n]) /\ log'[m][i] = log[n][i]
        BY <1>1, <1>2
      <3> QED
        BY <2>1, <3>1 DEF Extends, LogsInv
    <2>3. Extends(log'[k], log[holder])
      BY <1>1, <2>1, <2>2
    <2>4. Extends(log[holder], log'[holder]) /\ log[holder] \in Seq(Event)
      <3>1. holder \in Machines
        BY DEF LogsInv
      <3>2. Extends(log[holder], log[holder])
        BY <2>1, <3>1
      <3> QED
        BY <1>1, <1>2, <2>1, <3>1, <3>2
    <2>5. log'[k] \in Seq(Event) /\ log'[holder] \in Seq(Event)
      BY <1>3 DEF LogsInv, LogsTyped
    <2> QED
      BY <2>3, <2>4, <2>5, ExtendsIsTransitive
  <1>6. ShutOut'
    <2> SUFFICES ASSUME owner # NoOwner PROVE log'[Home] = log[Home]
      BY DEF LogsInv, ShutOut, Unclaimed
    <2> QED
      BY <1>1, <1>2 DEF Machines
  <1>7. (m = Home => owner = NoOwner) /\ a <= Len(log[m]) + 1 => b <= Len(log'[m])
    BY <1>2
  <1> QED
    BY <1>3, <1>4, <1>5, <1>6, <1>7 DEF LogsInv, Unclaimed

\* Nothing is written.
LEMMA LogsStay ==
    ASSUME LogsInv, UNCHANGED <<log, owner, holder, strayed, claimed>>
    PROVE  LogsInv' /\ Grows
  <1>1. Grows
    BY DEF LogsInv, LogsTyped, Grows
  <1> QED
    BY <1>1 DEF LogsInv, LogsTyped, ForeignIsHome, HolderExtends, ShutOut

-----------------------------------------------------------------------------
\* Links and warps that stay what they are fit logs that grew.
LEMMA LinkStays ==
    ASSUME LogsInv, LogsInv', Grows, LinksInv, NEW r \in Remotes, link'[r] = link[r],
           owner # NoOwner => owner' # NoOwner
    PROVE  LinkFits(r)'
  <1>1. /\ Len(log[r]) \in Nat /\ Len(log'[r]) \in Nat /\ Len(log[r]) <= Len(log'[r])
        /\ Len(log[Home]) \in Nat /\ Len(log'[Home]) \in Nat /\ Len(log[Home]) <= Len(log'[Home])
    BY DEF LogsInv, LogsTyped, Grows, Machines
  <1>2. link[r].pos \in Nat /\ link[r].known \in Nat /\ link[r].until \in Nat
    BY DEF LinksInv, LinkSet
  <1>3. LinkFits(r)
    BY DEF LinksInv
  <1>4. link[r].loop \in {"linked", "asked", "answered", "live"} =>
          link[r].pos \in 1 .. Len(log'[r]) + 1
    BY <1>1, <1>2, <1>3 DEF LinkFits
  <1>5. link[r].loop \in {"asked", "answered"} => link[r].known <= Len(log'[Home])
    BY <1>1, <1>2, <1>3 DEF LinkFits
  <1>6. link[r].loop = "answered" =>
          link[r].until <= Len(log'[r]) /\ link[r].pos <= link[r].until + 1
    BY <1>1, <1>2, <1>3 DEF LinkFits
  <1>7. link[r].loop = "live" => owner' # NoOwner \/ link[r].pos <= Len(log'[Home]) + 1
    BY <1>1, <1>2, <1>3 DEF LinkFits
  <1> QED
    BY <1>4, <1>5, <1>6, <1>7 DEF LinkFits

LEMMA LinksStay ==
    ASSUME LogsInv, LogsInv', Grows, LinksInv, UNCHANGED link, owner # NoOwner => owner' # NoOwner
    PROVE  LinksInv'
  BY LinkStays DEF LinksInv

LEMMA WarpStays ==
    ASSUME LogsInv, LogsInv', Grows, WarpInv, UNCHANGED warp
    PROVE  WarpInv'
  <1>1. \A m \in Machines :
          Len(log[m]) \in Nat /\ Len(log'[m]) \in Nat /\ Len(log[m]) <= Len(log'[m])
    BY DEF LogsInv, LogsTyped, Grows
  <1>2. warp.known \in Nat /\ warp.until \in Nat /\ warp.sent \in Nat
    BY DEF WarpInv, WarpSet
  <1> QED
    BY SMTT(30), <1>1, <1>2 DEF WarpInv, WarpFits, Machines

\* A loop that goes on: its new record fits, the others stay.
LEMMA LinkFollows ==
    ASSUME LogsInv, LogsInv', Grows, LinksInv, NEW r \in Remotes, NEW l \in LinkSet,
           link' = [link EXCEPT ![r] = l], UNCHANGED owner, LinkFits(r)'
    PROVE  LinksInv'
  <1>1. link' \in [Remotes -> LinkSet]
    BY DEF LinksInv
  <1>2. \A q \in Remotes \ {r} : link'[q] = link[q]
    BY DEF LinksInv
  <1>3. \A q \in Remotes \ {r} : LinkFits(q)'
    BY <1>2, LinkStays
  <1> QED
    BY <1>1, <1>3 DEF LinksInv
-----------------------------------------------------------------------------
\* What the lengths of the logs are.
LEMMA Lengths ==
    ASSUME LogsInv
    PROVE  /\ Home \in Machines /\ Remotes \subseteq Machines
           /\ \A m \in Machines : log[m] \in Seq(Event) /\ Len(log[m]) \in Nat
  BY DEF LogsInv, LogsTyped, Machines

\* A claim: the rows before it are not asked about any more.
LEMMA ClaimShutsOut ==
    ASSUME LogsInv, WarpInv, owner' = warp.to, claimed' = Len(log[Home]),
           UNCHANGED <<log, holder, strayed>>
    PROVE  LogsInv' /\ Grows /\ owner' # NoOwner
  <1>1. warp.to \in Spaces /\ owner' # NoOwner
    BY SyncAssumption DEF WarpInv, WarpSet
  <1>2. Len(log[Home]) \in Nat /\ Grows
    BY Lengths DEF Grows
  <1>3. ShutOut'
    BY <1>2 DEF ShutOut
  <1> QED
    BY <1>1, <1>2, <1>3 DEF LogsInv, LogsTyped, ForeignIsHome, HolderExtends

-----------------------------------------------------------------------------
\* Turns.
LEMMA TurnsKeep ==
    ASSUME SyncInv, StartTurn \/ \E m \in Machines : EndTurn(m)
    PROVE  SyncInv'
  <1>1. UNCHANGED <<log, owner, link, warp, warps, faults, holder, strayed, claimed>>
        /\ turn' \in [Machines -> BOOLEAN]
    BY DEF SyncInv, CountersTyped, StartTurn, EndTurn
  <1>2. LogsInv' /\ Grows
    BY <1>1, LogsStay DEF SyncInv
  <1> QED
    BY <1>1, <1>2, LinksStay, WarpStays DEF SyncInv, CountersTyped

LEMMA WriteKeeps ==
    ASSUME SyncInv, NEW m \in Machines, Write(m)
    PROVE  SyncInv'
  <1> DEFINE e == [at |-> m, to |-> Stay]
  <1>1. e \in Event /\ e.at = m
    BY DEF Event
  <1>2. log' = [log EXCEPT ![m] = Append(@, e)] /\ strayed' = (strayed \/ m # holder)
        /\ UNCHANGED <<owner, turn, link, warp, warps, faults, holder, claimed>>
    BY DEF Write
  <1> HIDE DEF e
  <1>3. LogsInv' /\ Grows
    BY <1>1, <1>2, EventAdds DEF SyncInv, Unclaimed
  <1> QED
    BY <1>2, <1>3, LinksStay, WarpStays DEF SyncInv, CountersTyped

-----------------------------------------------------------------------------
\* The loop of a remote workspace.
LEMMA LoopKeeps ==
    ASSUME SyncInv, LogsInv', Grows, NEW r \in Remotes, NEW l \in LinkSet, Follow(r, l),
           LinkFits(r)', faults' \in 0 .. MaxFaults
    PROVE  SyncInv'
  <1>1. link' = [link EXCEPT ![r] = l]
        /\ UNCHANGED <<owner, turn, warp, warps, holder, strayed, claimed>>
    BY DEF Follow
  <1>2. LinksInv'
    BY <1>1, LinkFollows DEF SyncInv
  <1> QED
    BY <1>1, <1>2, WarpStays DEF SyncInv, CountersTyped

\* A loop without a stream remembers nothing.
LEMMA RestartKeeps ==
    ASSUME SyncInv, NEW r \in Remotes, StartSync(r) \/ Retry(r) \/ LoseLink(r)
    PROVE  SyncInv'
  <1>1. PICK next \in {"failed", "connecting", "ended"} :
          Follow(r, [Unlinked EXCEPT !.loop = next])
    BY DEF StartSync, Retry, LoseLink
  <1> DEFINE l == [Unlinked EXCEPT !.loop = next]
  <1>2. l \in LinkSet /\ l.loop = next
    BY DEF Unlinked, LinkSet
  <1> HIDE DEF l
  <1>3. Follow(r, l)
    BY <1>1 DEF l
  <1>4. log' = log /\ faults' \in 0 .. MaxFaults
    BY SyncAssumption DEF StartSync, Retry, LoseLink, SyncInv, CountersTyped
  <1>5. LogsInv' /\ Grows
    BY <1>3, <1>4, LogsStay DEF SyncInv, Follow
  <1>6. link'[r] = l
    BY <1>3 DEF Follow, SyncInv, LinksInv
  <1>7. LinkFits(r)'
    BY <1>2, <1>6 DEF LinkFits
  <1> QED
    BY <1>2, <1>3, <1>4, <1>5, <1>7, LoopKeeps

LEMMA ConnectKeeps ==
    ASSUME SyncInv, NEW r \in Remotes, Connect(r)
    PROVE  SyncInv'
  <1> DEFINE l == [link[r] EXCEPT !.loop = "linked", !.pos = Len(log[r]) + 1]
  <1>1. link[r] \in LinkSet /\ Len(log[r]) \in Nat
    BY Lengths DEF SyncInv, LinksInv
  <1>2. l \in LinkSet /\ l.loop = "linked" /\ l.pos = Len(log[r]) + 1
    <2>1. \A p \in Nat :
            /\ [link[r] EXCEPT !.loop = "linked", !.pos = p] \in LinkSet
            /\ [link[r] EXCEPT !.loop = "linked", !.pos = p].loop = "linked"
            /\ [link[r] EXCEPT !.loop = "linked", !.pos = p].pos = p
      BY <1>1 DEF LinkSet
    <2>2. Len(log[r]) + 1 \in Nat
      BY <1>1
    <2> QED
      BY <2>1, <2>2
  <1>3. Follow(r, l) /\ UNCHANGED <<log, faults>>
    BY DEF Connect
  <1> HIDE DEF l
  <1>4. LogsInv' /\ Grows
    BY <1>3, LogsStay DEF SyncInv, Follow
  <1>5. link'[r] = l
    BY <1>3 DEF Follow, SyncInv, LinksInv
  <1>6. LinkFits(r)'
    BY <1>1, <1>2, <1>3, <1>5 DEF LinkFits
  <1> QED
    BY <1>2, <1>3, <1>4, <1>6, LoopKeeps DEF SyncInv, CountersTyped

LEMMA AskKeeps ==
    ASSUME SyncInv, NEW r \in Remotes, AskHistory(r)
    PROVE  SyncInv'
  <1> DEFINE l == [link[r] EXCEPT !.loop = "asked", !.known = Known(r)]
  <1>1. /\ link[r] \in LinkSet /\ LinkFits(r) /\ link[r].loop = "linked"
        /\ Known(r) \in Nat /\ Known(r) <= Len(log[Home])
    BY Lengths DEF SyncInv, LinksInv, AskHistory, Known
  <1>2. l \in LinkSet /\ l.loop = "asked" /\ l.pos = link[r].pos /\ l.known = Known(r)
    BY <1>1 DEF LinkSet
  <1>3. Follow(r, l) /\ UNCHANGED <<log, faults>>
    BY DEF AskHistory
  <1> HIDE DEF l
  <1>4. LogsInv' /\ Grows
    BY <1>3, LogsStay DEF SyncInv, Follow
  <1>5. link'[r] = l
    BY <1>3 DEF Follow, SyncInv, LinksInv
  <1>6. LinkFits(r)'
    BY <1>1, <1>2, <1>3, <1>5 DEF LinkFits
  <1> QED
    BY <1>2, <1>3, <1>4, <1>6, LoopKeeps DEF SyncInv, CountersTyped

LEMMA AnswerKeeps ==
    ASSUME SyncInv, NEW r \in Remotes, AnswerHistory(r)
    PROVE  SyncInv'
  <1> DEFINE l == [link[r] EXCEPT !.loop = "answered", !.until = Len(log[r])]
  <1>1. /\ link[r] \in LinkSet /\ LinkFits(r) /\ link[r].loop = "asked"
        /\ Len(log[r]) \in Nat
    BY Lengths DEF SyncInv, LinksInv, AnswerHistory
  <1>2. /\ l \in LinkSet /\ l.loop = "answered" /\ l.pos = link[r].pos
        /\ l.known = link[r].known /\ l.until = Len(log[r])
    BY <1>1 DEF LinkSet
  <1>3. Follow(r, l) /\ UNCHANGED <<log, faults>>
    BY DEF AnswerHistory
  <1> HIDE DEF l
  <1>4. LogsInv' /\ Grows
    BY <1>3, LogsStay DEF SyncInv, Follow
  <1>5. link'[r] = l
    BY <1>3 DEF Follow, SyncInv, LinksInv
  <1>6. LinkFits(r)'
    BY <1>1, <1>2, <1>3, <1>5 DEF LinkFits
  <1> QED
    BY <1>2, <1>3, <1>4, <1>6, LoopKeeps DEF SyncInv, CountersTyped

LEMMA ReplayHistoryKeeps ==
    ASSUME SyncInv, NEW r \in Remotes, ReplayHistory(r)
    PROVE  SyncInv'
  <1> DEFINE l == [link[r] EXCEPT !.loop = "live"]
             a == link[r].known + 1
             b == link[r].until
  <1>1. /\ link[r] \in LinkSet /\ LinkFits(r) /\ link[r].loop = "answered"
        /\ r \in Machines /\ Home \in Machines
        /\ Len(log[Home]) \in Nat /\ Len(log[r]) \in Nat
    BY Lengths DEF SyncInv, LinksInv, ReplayHistory
  <1>2. /\ l \in LinkSet /\ l.loop = "live" /\ l.pos = link[r].pos
        /\ a \in Nat \ {0} /\ b \in Nat /\ link[r].pos \in Nat
    BY <1>1 DEF LinkSet
  <1>3. /\ b <= Len(log[r]) /\ a <= Len(log[Home]) + 1 /\ link[r].pos <= b + 1
        /\ link[r].pos \in 1 .. Len(log[r]) + 1
    BY <1>1, <1>2 DEF LinkFits, LinkSet
  <1>4. /\ Follow(r, l) /\ UNCHANGED faults
        /\ log' = [log EXCEPT ![Home] = ReplayAt(Home, log[r], a, b)]
    BY DEF ReplayHistory
  <1> HIDE DEF l, a, b
  <1>5. UNCHANGED <<holder, strayed>> /\ Unclaimed
    BY <1>4 DEF Follow, Unclaimed
  <1>6. /\ LogsInv' /\ Grows
        /\ (Home = Home => owner = NoOwner) /\ a <= Len(log[Home]) + 1 => b <= Len(log'[Home])
    BY <1>1, <1>2, <1>3, <1>4, <1>5, ReplayAdds DEF SyncInv
  <1>7. link'[r] = l
    BY <1>4 DEF Follow, SyncInv, LinksInv
  <1>8. Len(log'[r]) \in Nat /\ Len(log'[Home]) \in Nat /\ Len(log[r]) <= Len(log'[r])
    BY <1>1, <1>6 DEF Grows, LogsInv, LogsTyped
  <1>9. link[r].pos \in 1 .. Len(log'[r]) + 1
    BY <1>1, <1>3, <1>8
  <1>10. owner' # NoOwner \/ link[r].pos <= Len(log'[Home]) + 1
    BY <1>2, <1>3, <1>5, <1>6, <1>8 DEF Unclaimed
  <1>11. LinkFits(r)'
    BY <1>2, <1>7, <1>9, <1>10 DEF LinkFits
  <1> QED
    BY <1>2, <1>4, <1>6, <1>11, LoopKeeps DEF SyncInv, CountersTyped

\* What the stream brings is the next event or one that is there already.
LEMMA ReadStreamKeeps ==
    ASSUME SyncInv, NEW r \in Remotes, ReadStream(r)
    PROVE  SyncInv'
  <1> DEFINE p == link[r].pos
             l == [link[r] EXCEPT !.pos = p + 1]
  <1>1. /\ link[r] \in LinkSet /\ LinkFits(r) /\ link[r].loop = "live"
        /\ p <= Len(log[r])
        /\ r \in Machines /\ Home \in Machines
        /\ Len(log[Home]) \in Nat /\ Len(log[r]) \in Nat
    BY Lengths DEF SyncInv, LinksInv, ReadStream
  <1>2. /\ l \in LinkSet /\ l.loop = "live" /\ l.pos = p + 1
        /\ p \in 1 .. Len(log[r])
    <2>1. link[r].pos \in Nat
      BY <1>1 DEF LinkSet
    <2>2. link[r].pos \in 1 .. Len(log[r]) + 1
      BY <1>1 DEF LinkFits
    <2> QED
      BY <1>1, <2>1, <2>2 DEF LinkSet
  <1>3. owner # NoOwner \/ p <= Len(log[Home]) + 1
    BY <1>1 DEF LinkFits
  <1>4. /\ Follow(r, l) /\ UNCHANGED faults
        /\ log[r][p].at = r => log' = [log EXCEPT ![Home] = ReplayAt(Home, log[r], p, p)]
        /\ log[r][p].at # r => log' = log
    BY DEF ReadStream
  <1> HIDE DEF l, p
  <1>5. UNCHANGED <<holder, strayed>> /\ Unclaimed
    BY <1>4 DEF Follow, Unclaimed
  <1>6. LogsInv' /\ Grows /\ (owner # NoOwner \/ p <= Len(log'[Home]))
    <2>1. CASE log[r][p].at = r
      <3>1. log' = [log EXCEPT ![Home] = ReplayAt(Home, log[r], p, p)]
        BY <1>4, <2>1
      <3>2. p \in Nat \ {0} /\ p \in Nat /\ p <= Len(log[r])
        BY <1>1, <1>2
      <3>3. /\ LogsInv' /\ Grows
            /\ (Home = Home => owner = NoOwner) /\ p <= Len(log[Home]) + 1 => p <= Len(log'[Home])
        BY <1>1, <1>5, <3>1, <3>2, ReplayAdds DEF SyncInv
      <3> QED
        BY <1>3, <3>3
    <2>2. CASE log[r][p].at # r
      <3>1. LogsInv' /\ Grows
        BY <1>4, <1>5, <2>2, LogsStay DEF SyncInv, Unclaimed
      <3>2. p <= Len(log[Home])
        BY <1>2, <2>2 DEF SyncInv, LogsInv, ForeignIsHome
      <3> QED
        BY <1>4, <2>2, <3>1, <3>2
    <2> QED
      BY <2>1, <2>2
  <1>7. link'[r] = l
    BY <1>4 DEF Follow, SyncInv, LinksInv
  <1>8. Len(log'[r]) \in Nat /\ Len(log'[Home]) \in Nat /\ Len(log[r]) <= Len(log'[r])
    BY <1>1, <1>6 DEF Grows, LogsInv, LogsTyped
  <1>9. p + 1 \in 1 .. Len(log'[r]) + 1
    BY <1>1, <1>2, <1>8
  <1>10. owner' # NoOwner \/ p + 1 <= Len(log'[Home]) + 1
    BY <1>2, <1>5, <1>6, <1>8 DEF Unclaimed
  <1>11. LinkFits(r)'
    BY <1>2, <1>7, <1>9, <1>10 DEF LinkFits
  <1> QED
    BY <1>2, <1>4, <1>6, <1>11, LoopKeeps DEF SyncInv, CountersTyped
-----------------------------------------------------------------------------
\* The warp.
LEMMA WarpKeeps ==
    ASSUME SyncInv, LogsInv', Grows, NEW w \in WarpSet, warp' = w, UNCHANGED <<link, warps>>,
           WarpFits', turn' \in [Machines -> BOOLEAN], faults' \in 0 .. MaxFaults,
           owner # NoOwner => owner' # NoOwner
    PROVE  SyncInv'
  BY LinksStay DEF SyncInv, WarpInv, CountersTyped

\* A step of the warp that writes nothing and remembers nothing of a log.
LEMMA StartWarpKeeps ==
    ASSUME SyncInv, NEW to \in Spaces, StartWarp(to)
    PROVE  SyncInv'
  <1>1. UNCHANGED <<log, owner, turn, link, faults, holder, strayed, claimed>>
        /\ warps' = warps + 1 /\ warps < MaxWarps
    BY DEF StartWarp
  <1>2. LogsInv' /\ Grows
    BY <1>1, LogsStay DEF SyncInv
  <1>3. Here \in Spaces
    BY Lengths, PlaceIsSpace DEF SyncInv, Here
  <1> DEFINE next == CASE Here \in Remotes -> "sync"
                       [] Here \in Locals -> "cancel"
                       [] OTHER -> "deliver"
  <1>4. next \in {"sync", "cancel", "deliver"} /\ (next = "sync" => Here \in Remotes)
    <2>1. CASE Here \in Remotes
      BY <2>1, SyncAssumption
    <2>2. CASE Here \in Locals
      BY <2>2, SyncAssumption
    <2>3. CASE Here \notin Remotes \cup Locals
      BY <2>3
    <2> QED
      BY <2>1, <2>2, <2>3
  <1> HIDE DEF next
  <1>5. warp' = [NoWarp EXCEPT !.from = Here, !.to = to, !.pc = next]
    BY DEF StartWarp, next
  <1>6. warp' \in WarpSet /\ warp'.pc = next /\ warp'.from = Here /\ warp'.sent = 0
    BY <1>3, <1>4, <1>5 DEF NoWarp, WarpSet
  <1>7. WarpFits'
    BY <1>4, <1>6 DEF WarpFits
  <1>8. LinksInv'
    BY <1>1, <1>2, LinksStay DEF SyncInv
  <1>9. CountersTyped'
    BY <1>1, SyncAssumption DEF SyncInv, CountersTyped
  <1> QED
    BY <1>2, <1>6, <1>7, <1>8, <1>9 DEF SyncInv, WarpInv

LEMMA WarpAskKeeps ==
    ASSUME SyncInv, WarpAsk
    PROVE  SyncInv'
  <1> DEFINE w == [warp EXCEPT !.pc = "asked", !.known = Known(warp.from)]
  <1>1. /\ warp \in WarpSet /\ warp.from \in Remotes
        /\ Known(warp.from) \in Nat /\ Known(warp.from) <= Len(log[Home]) /\ warp.sent = 0
    BY Lengths DEF SyncInv, WarpInv, WarpFits, WarpAsk, Known
  <1>2. /\ w \in WarpSet /\ w.pc = "asked" /\ w.from = warp.from /\ w.known = Known(warp.from)
        /\ w.sent = 0
    BY <1>1 DEF WarpSet
  <1>3. /\ warp' = w /\ UNCHANGED <<link, warps>>
        /\ UNCHANGED <<log, owner, turn, faults, holder, strayed, claimed>>
    BY DEF WarpAsk, Warp
  <1> HIDE DEF w
  <1>4. LogsInv' /\ Grows
    BY <1>3, LogsStay DEF SyncInv
  <1>5. WarpFits'
    BY <1>1, <1>2, <1>3 DEF WarpFits
  <1> QED
    BY <1>2, <1>3, <1>4, <1>5, WarpKeeps DEF SyncInv, CountersTyped

LEMMA WarpAnswerKeeps ==
    ASSUME SyncInv, WarpAnswer
    PROVE  SyncInv'
  <1> DEFINE w == [warp EXCEPT !.pc = "answered", !.until = Len(log[warp.from])]
  <1>1. /\ warp \in WarpSet /\ warp.from \in Remotes /\ warp.known <= Len(log[Home])
        /\ Len(log[warp.from]) \in Nat /\ warp.sent = 0
    BY Lengths DEF SyncInv, WarpInv, WarpFits, WarpAnswer
  <1>2. /\ w \in WarpSet /\ w.pc = "answered" /\ w.from = warp.from /\ w.known = warp.known
        /\ w.until = Len(log[warp.from]) /\ w.sent = 0
    BY <1>1 DEF WarpSet
  <1>3. /\ warp' = w /\ UNCHANGED <<link, warps>>
        /\ UNCHANGED <<log, owner, turn, faults, holder, strayed, claimed>>
    BY DEF WarpAnswer, Warp
  <1> HIDE DEF w
  <1>4. LogsInv' /\ Grows
    BY <1>3, LogsStay DEF SyncInv
  <1>5. WarpFits'
    BY <1>1, <1>2, <1>3 DEF WarpFits
  <1> QED
    BY <1>2, <1>3, <1>4, <1>5, WarpKeeps DEF SyncInv, CountersTyped

LEMMA WarpReplayKeeps ==
    ASSUME SyncInv, WarpReplay
    PROVE  SyncInv'
  <1> DEFINE w == [warp EXCEPT !.pc = "claim"]
             a == warp.known + 1
             b == warp.until
  <1>1. /\ warp \in WarpSet /\ warp.from \in Machines /\ Home \in Machines
        /\ warp.until <= Len(log[warp.from]) /\ warp.sent = 0
    BY DEF SyncInv, WarpInv, WarpFits, WarpReplay, Machines
  <1>2. /\ w \in WarpSet /\ w.pc = "claim" /\ w.sent = 0
        /\ a \in Nat \ {0} /\ b \in Nat /\ b <= Len(log[warp.from])
    BY <1>1 DEF WarpSet
  <1>3. /\ warp' = w /\ UNCHANGED <<link, warps>>
        /\ UNCHANGED <<owner, turn, faults, holder, strayed, claimed>>
        /\ log' = [log EXCEPT ![Home] = ReplayAt(Home, log[warp.from], a, b)]
    BY DEF WarpReplay, Warp
  <1> HIDE DEF w, a, b
  <1>4. LogsInv' /\ Grows
    BY <1>1, <1>2, <1>3, ReplayAdds DEF SyncInv, Unclaimed
  <1>5. WarpFits'
    BY <1>2, <1>3 DEF WarpFits
  <1> QED
    BY <1>2, <1>3, <1>4, <1>5, WarpKeeps DEF SyncInv, CountersTyped

LEMMA WarpGivesUpKeeps ==
    ASSUME SyncInv, WarpUnsynced \/ WarpCancel
    PROVE  SyncInv'
  <1> DEFINE w == [warp EXCEPT !.pc = "claim"]
  <1>1. w \in WarpSet /\ w.pc = "claim" /\ w.sent = 0
    BY DEF SyncInv, WarpInv, WarpSet, WarpFits, WarpUnsynced, WarpCancel
  <1>2. /\ warp' = w /\ UNCHANGED <<link, warps>>
        /\ UNCHANGED <<log, owner, holder, strayed, claimed>>
    BY DEF WarpUnsynced, WarpCancel, Warp
  <1>3. turn' \in [Machines -> BOOLEAN] /\ faults' \in 0 .. MaxFaults
    <2>1. CASE WarpUnsynced
      BY <2>1, SyncAssumption DEF WarpUnsynced, SyncInv, CountersTyped
    <2>2. CASE WarpCancel
      BY <2>2 DEF WarpCancel, SyncInv, CountersTyped
    <2> QED
      BY <2>1, <2>2
  <1> HIDE DEF w
  <1>4. LogsInv' /\ Grows
    BY <1>2, LogsStay DEF SyncInv
  <1>5. WarpFits'
    BY <1>1, <1>2 DEF WarpFits
  <1> QED
    BY <1>1, <1>2, <1>3, <1>4, <1>5, WarpKeeps

LEMMA WarpClaimKeeps ==
    ASSUME SyncInv, WarpClaim
    PROVE  SyncInv'
  <1> DEFINE w == [warp EXCEPT !.pc = "deliver"]
  <1>1. w \in WarpSet /\ w.pc = "deliver" /\ w.sent = 0
    BY DEF SyncInv, WarpInv, WarpSet, WarpFits, WarpClaim
  <1>2. /\ warp' = w /\ UNCHANGED <<link, warps>>
        /\ UNCHANGED <<log, turn, faults, holder, strayed>>
        /\ owner' = warp.to /\ claimed' = Len(log[Home])
    BY DEF WarpClaim, Warp
  <1> HIDE DEF w
  <1>3. LogsInv' /\ Grows /\ owner' # NoOwner
    BY <1>2, ClaimShutsOut DEF SyncInv
  <1>4. WarpFits'
    BY <1>1, <1>2 DEF WarpFits
  <1> QED
    BY <1>1, <1>2, <1>3, <1>4, WarpKeeps DEF SyncInv, CountersTyped

LEMMA NoWarpFits ==
    ASSUME warp' = NoWarp
    PROVE  NoWarp \in WarpSet /\ WarpFits'
  BY DEF NoWarp, WarpSet, WarpFits, Spaces

LEMMA TakeKeeps ==
    ASSUME SyncInv, NEW m \in Machines, NEW to \in Spaces, Take(m, to), Warp(NoWarp),
           UNCHANGED <<owner, turn, faults, claimed>>
    PROVE  SyncInv'
  <1> DEFINE e == [at |-> m, to |-> to]
  <1>1. e \in Event /\ e.at = m
    BY DEF Event
  <1>2. /\ log' = [log EXCEPT ![m] = Append(@, e)]
        /\ holder' = m /\ strayed' = (strayed \/ ~IsPrefix(log[holder], log[m]))
        /\ warp' = NoWarp /\ UNCHANGED <<link, warps>>
    BY DEF Take, Warp
  <1> HIDE DEF e
  <1>3. LogsInv' /\ Grows
    BY <1>1, <1>2, EventAdds DEF SyncInv, Unclaimed
  <1>4. NoWarp \in WarpSet /\ WarpFits'
    BY <1>2, NoWarpFits
  <1> QED
    BY <1>2, <1>3, <1>4, WarpKeeps DEF SyncInv, CountersTyped

LEMMA WarpHereKeeps ==
    ASSUME SyncInv, WarpHere
    PROVE  SyncInv'
  BY TakeKeeps, Lengths DEF WarpHere, SyncInv, WarpInv, WarpSet

LEMMA WarpStealKeeps ==
    ASSUME SyncInv, WarpSteal
    PROVE  SyncInv'
  <1>1. warp.to \in Machines /\ warp.to \in Spaces
    BY DEF WarpSteal, SyncInv, WarpInv, WarpFits, Machines, Spaces
  <1> QED
    BY <1>1, TakeKeeps DEF WarpSteal

LEMMA WarpReadKeeps ==
    ASSUME SyncInv, WarpRead
    PROVE  SyncInv'
  <1> DEFINE w == [warp EXCEPT !.pc = "post", !.until = Len(log[Home])]
  <1>1. warp \in WarpSet /\ warp.to \in Remotes /\ Len(log[Home]) \in Nat
    BY Lengths DEF SyncInv, WarpInv, WarpRead
  <1>2. /\ w \in WarpSet /\ w.pc = "post" /\ w.to = warp.to /\ w.sent = warp.sent
        /\ w.until = Len(log[Home])
    BY <1>1 DEF WarpSet
  <1>3. /\ warp' = w /\ UNCHANGED <<link, warps>>
        /\ UNCHANGED <<log, owner, turn, faults, holder, strayed, claimed>>
    BY DEF WarpRead, Warp
  <1> HIDE DEF w
  <1>4. LogsInv' /\ Grows
    BY <1>3, LogsStay DEF SyncInv
  <1>5. warp.sent = 0
    BY DEF SyncInv, WarpInv, WarpFits, WarpRead
  <1>6. WarpFits'
    BY <1>1, <1>2, <1>3, <1>5, Lengths DEF WarpFits, SyncInv
  <1> QED
    BY <1>2, <1>3, <1>4, <1>6, WarpKeeps DEF SyncInv, CountersTyped

LEMMA MinOfTwo ==
    ASSUME NEW x \in Nat, NEW y \in Nat
    PROVE  Min({x, y}) \in {x, y} /\ Min({x, y}) <= x /\ Min({x, y}) <= y
  BY DEF Min

\* The batches are posted one after the other, so none of them meets a gap.
LEMMA WarpPostKeeps ==
    ASSUME SyncInv, WarpPost
    PROVE  SyncInv'
  <1> DEFINE last == Min({warp.sent + BatchSize, warp.until})
             next == IF last = warp.until THEN "steal" ELSE warp.pc
             w == [warp EXCEPT !.sent = last, !.pc = next]
             a == warp.sent + 1
  <1>1. /\ warp \in WarpSet /\ warp.pc = "post" /\ warp.to \in Remotes
        /\ warp.until <= Len(log[Home]) /\ warp.sent <= warp.until
        /\ warp.sent <= Len(log[warp.to])
        /\ Len(log[Home]) \in Nat /\ Len(log[warp.to]) \in Nat
        /\ warp.to \in Machines /\ Home \in Machines /\ warp.to # Home
    BY Lengths, SyncAssumption DEF SyncInv, WarpInv, WarpFits, WarpPost
  <1>2. warp.sent \in Nat /\ warp.until \in Nat /\ BatchSize \in Nat
    BY <1>1, SyncAssumption DEF WarpSet
  <1>3. last \in Nat /\ last <= warp.until
    BY <1>2, MinOfTwo
  <1>4. /\ warp' = w /\ UNCHANGED <<link, warps>>
        /\ UNCHANGED <<owner, turn, faults, holder, strayed, claimed>>
        /\ log' = [log EXCEPT ![warp.to] = ReplayAt(warp.to, log[Home], a, last)]
    BY DEF WarpPost, Warp
  <1> HIDE DEF last
  <1>5. /\ w \in WarpSet /\ w.pc = next /\ next \in {"post", "steal"}
        /\ w.to = warp.to /\ w.sent = last /\ w.until = warp.until
    BY <1>1, <1>3 DEF WarpSet
  <1> HIDE DEF w, next
  <1>6. a \in Nat \ {0} /\ a <= Len(log[warp.to]) + 1 /\ last <= Len(log[Home])
    BY <1>1, <1>2, <1>3
  <1> HIDE DEF a
  <1>7. LogsInv' /\ Grows /\ last <= Len(log'[warp.to])
    <2>1. /\ LogsInv' /\ Grows
          /\ (warp.to = Home => owner = NoOwner) /\ a <= Len(log[warp.to]) + 1 =>
               last <= Len(log'[warp.to])
      BY <1>1, <1>3, <1>4, <1>6, ReplayAdds DEF SyncInv, Unclaimed
    <2> QED
      BY <1>1, <1>6, <2>1
  <1>8. WarpFits'
    <2>1. log'[Home] = log[Home]
      BY <1>1, <1>4 DEF SyncInv, LogsInv, LogsTyped
    <2> QED
      BY <1>1, <1>3, <1>4, <1>5, <1>7, <2>1 DEF WarpFits
  <1> QED
    BY <1>4, <1>5, <1>7, <1>8, WarpKeeps DEF SyncInv, CountersTyped

LEMMA WarpFailsKeeps ==
    ASSUME SyncInv, WarpFails
    PROVE  SyncInv'
  <1>1. /\ warp' = NoWarp /\ UNCHANGED <<link, warps>>
        /\ UNCHANGED <<log, owner, turn, holder, strayed, claimed>>
        /\ faults' \in 0 .. MaxFaults
    BY SyncAssumption DEF WarpFails, Warp, SyncInv, CountersTyped
  <1>2. LogsInv' /\ Grows
    BY <1>1, LogsStay DEF SyncInv
  <1>3. NoWarp \in WarpSet /\ WarpFits'
    BY <1>1, NoWarpFits
  <1> QED
    BY <1>1, <1>2, <1>3, WarpKeeps DEF SyncInv, CountersTyped

-----------------------------------------------------------------------------
LEMMA SyncInvInit ==
    ASSUME Init
    PROVE  SyncInv
  <1> DEFINE e == [at |-> Home, to |-> Stay]
  <1>1. e \in Event /\ e.at = Home
    BY DEF Event, Machines
  <1> HIDE DEF e
  <1>2. /\ log = [m \in Machines |-> IF m = Home THEN <<e>> ELSE <<>>]
        /\ owner = NoOwner /\ holder = Home /\ strayed = FALSE /\ claimed = 0
    BY DEF Init, e
  <1>3. LogsTyped
    BY <1>1, <1>2 DEF LogsTyped
  <1>4. Home \in Machines /\ \A r \in Remotes : r \in Machines /\ log[r] = <<>>
    BY <1>2, SyncAssumption DEF Machines
  <1>5. ForeignIsHome
    BY <1>4 DEF ForeignIsHome
  <1>6. HolderExtends
    <2>1. log[Home] = <<e>> /\ \A m \in Machines : log[m] = <<e>> \/ log[m] = <<>>
      BY <1>2, <1>4
    <2> QED
      BY <1>2, <2>1 DEF HolderExtends, Extends
  <1>7. LogsInv
    BY <1>2, <1>3, <1>4, <1>5, <1>6 DEF LogsInv, ShutOut
  <1>8. LinksInv
    BY DEF Init, LinksInv, LinkFits, LinkSet, Unlinked
  <1>9. WarpInv
    BY DEF Init, WarpInv, WarpFits, WarpSet, NoWarp, Spaces
  <1> QED
    BY <1>7, <1>8, <1>9, SyncAssumption DEF SyncInv, CountersTyped, Init

LEMMA SyncInvStep ==
    ASSUME SyncInv, [Next]_vars
    PROVE  SyncInv'
  <1>1. CASE StartTurn \/ \E m \in Machines : EndTurn(m)
    BY <1>1, TurnsKeep
  <1>2. CASE \E m \in Machines : Write(m)
    BY <1>2, WriteKeeps
  <1>3. CASE \E r \in Remotes : LoopStep(r) \/ StartSync(r) \/ LoseLink(r)
    BY <1>3, RestartKeeps, ConnectKeeps, AskKeeps, AnswerKeeps, ReplayHistoryKeeps,
       ReadStreamKeeps DEF LoopStep
  <1>4. CASE \E to \in Spaces : StartWarp(to)
    BY <1>4, StartWarpKeeps
  <1>5. CASE WarpStep
    BY <1>5, WarpAskKeeps, WarpAnswerKeeps, WarpReplayKeeps, WarpGivesUpKeeps, WarpClaimKeeps,
       WarpHereKeeps, WarpReadKeeps, WarpPostKeeps, WarpStealKeeps, WarpFailsKeeps DEF WarpStep
  <1>6. CASE UNCHANGED vars
    <2>1. UNCHANGED <<log, owner, turn, link, warp, warps, faults, holder, strayed, claimed>>
      BY <1>6 DEF vars
    <2>2. LogsInv' /\ Grows
      BY <2>1, LogsStay DEF SyncInv
    <2> QED
      BY <2>1, <2>2, LinksStay, WarpStays DEF SyncInv, CountersTyped
  <1> QED
    BY <1>1, <1>2, <1>3, <1>4, <1>5, <1>6 DEF Next

\* The inductive invariant: what the logs share, and what the loops and the
\* warp remember of them, fits.
THEOREM SyncInvHolds == Spec => []SyncInv
  <1>1. Init => SyncInv
    BY SyncInvInit
  <1>2. SyncInv /\ [Next]_vars => SyncInv'
    BY SyncInvStep
  <1> QED
    BY <1>1, <1>2, PTL DEF Spec

\* No replay of a history, a stream or a warp meets a gap (sync/index.ts:73).
THEOREM NoReplayThrows == Spec => []SyncContract
  <1>1. SyncInv => SyncContract
    <2> SUFFICES ASSUME SyncInv PROVE SyncContract
      OBVIOUS
    <2>1. SyncTypeOK
      BY DEF SyncInv, LogsInv, LogsTyped, LinksInv, LinkSet, WarpInv, WarpSet, CountersTyped,
             SyncTypeOK
    <2>2. /\ warp.pc = "answered" => warp.known <= Len(log[Home])
          /\ warp.pc = "post" => warp.sent <= Len(log[warp.to])
      BY DEF SyncInv, WarpInv, WarpFits
    <2>3. \A r \in Remotes : LinkFits(r)
      BY DEF SyncInv, LinksInv
    <2>4. \A r \in Remotes :
            /\ link[r].loop = "answered" => link[r].known <= Len(log[Home])
            /\ link[r].loop = "live" => owner # NoOwner \/ link[r].pos <= Len(log[Home]) + 1
      BY <2>3 DEF LinkFits
    <2> QED
      BY <2>1, <2>2, <2>4 DEF SyncContract, NoGap
  <1> QED
    BY <1>1, SyncInvHolds, PTL

\* While one machine writes, its log continues every other one (sync/README.md).
THEOREM WriterHasAll == Spec => []HolderHasAll
  <1>1. SyncInv => HolderHasAll
    <2> SUFFICES ASSUME SyncInv, ~strayed, NEW m \in Machines
                 PROVE  IsPrefix(log[m], log[holder])
      BY DEF HolderHasAll
    <2>1. log[m] \in Seq(Event) /\ log[holder] \in Seq(Event) /\ Extends(log[m], log[holder])
      BY Lengths DEF SyncInv, LogsInv, HolderExtends
    <2> QED
      BY <2>1, PrefixIsExtended
  <1> QED
    BY <1>1, SyncInvHolds, PTL

\* A claim keeps the rows of others out (sync/index.ts:89).
THEOREM ClaimHolds == Spec => []ShutOut
  <1>1. SyncInv => ShutOut
    BY DEF SyncInv, LogsInv
  <1> QED
    BY <1>1, SyncInvHolds, PTL
=============================================================================
