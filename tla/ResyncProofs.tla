---------------------------- MODULE ResyncProofs ----------------------------
(***************************************************************************)
(* What is proved of Resync for every value of its constants: types, that  *)
(* revisions advance, that a wake's command time is new, and that the Auto *)
(* companion belongs to the last resynchronisation body.                   *)
(*                                                                         *)
(* Whatever left the server lies at or below the floors in memory, and     *)
(* these at or below the floors on disk (RevInv): a failed write may have  *)
(* replaced the disk, but only by an image with later floors.              *)
(***************************************************************************)
EXTENDS Resync, TLAPS

(* The helpers *)

\* _latest_revision is the maximum.
LEMMA LatestIsMaximum ==
  ASSUME NEW a \in Rev, NEW b \in Rev
  PROVE  /\ Latest(a, b) \in Rev /\ Latest(a, b) >= a /\ Latest(a, b) >= b
         /\ Latest(a, b) = a \/ Latest(a, b) = b
  BY DEF Latest, Rev, NoRev

\* next_revision is later than what it is given, and a real second.
LEMMA NextIsLater ==
  ASSUME NEW prior \in Rev, NEW t \in Nat
  PROVE  NextRevision(prior, t) \in Nat /\ NextRevision(prior, t) > prior
  BY DEF NextRevision, Rev, NoRev

LEMMA RevisionOfType ==
  ASSUME NEW c \in Sent \cup {None}
  PROVE  RevisionOf(c) \in Rev
  BY NoneAssumption DEF RevisionOf, Sent, Rev, NoRev

-----------------------------------------------------------------------------
(* The durable candidates *)

\* Later: image g may follow image m: floors do not fall, a revision that
\* differs is later than the floor it had, and nothing is above its floor.
Follows(g, m) ==
  \A f \in Families : /\ g.floor[f] >= m.floor[f]
                      /\ g.rev[f] = m.rev[f] \/ g.rev[f] > m.floor[f]

Bounded(g) ==
  /\ \A f \in Families : g.rev[f] <= g.floor[f]
  /\ g.live <= g.floor["settings"]

RevInv ==
  /\ Bounded(mem) /\ Bounded(disk)
  /\ ~latched => disk = mem
  /\ Follows(disk, mem)
  /\ \A f \in Families : top[f] <= mem.floor[f]
  /\ pending # None => pending.revision <= mem.floor[pending.family]
  /\ companion <= mem.floor["auto"]
  /\ newest <= mem.floor["settings"] \/ newest <= wakeTime

Inv == TypeOK /\ RevInv

LEMMA UploadRevisionLater ==
  ASSUME Inv, NEW k \in {"settings", "partial", "auto"}
  PROVE  /\ UploadRevision(k) \in Nat
         /\ UploadRevision(k) > mem.floor[FamilyOf(k)]
         /\ UploadRevision(k) > mem.rev[FamilyOf(k)]
<1> DEFINE settings == Latest(mem.rev["settings"], mem.floor["settings"])
           auto     == Latest(mem.rev["auto"], mem.floor["auto"])
           p        == RevisionOf(pending)
<1>1. p \in Rev /\ clock \in Nat
  BY RevisionOfType DEF Inv, TypeOK
<1>2. \A f \in Families : mem.rev[f] \in Rev /\ mem.floor[f] \in Rev
  BY DEF Inv, TypeOK, Memory, Rev
<1>3. /\ settings \in Rev /\ settings >= mem.rev["settings"]
      /\ settings >= mem.floor["settings"]
  BY <1>2, LatestIsMaximum DEF Families
<1>4. /\ auto \in Rev /\ auto >= mem.rev["auto"] /\ auto >= mem.floor["auto"]
  BY <1>2, LatestIsMaximum DEF Families
<1> HIDE DEF settings, auto, p
<1> DEFINE q == Latest(auto, p)
<1>5. q \in Rev /\ q >= auto
  BY <1>1, <1>4, LatestIsMaximum
<1> HIDE DEF q
<1>6. /\ Latest(settings, p) \in Rev /\ Latest(settings, p) >= settings
      /\ Latest(settings, q) \in Rev /\ Latest(settings, q) >= q
  BY <1>1, <1>3, <1>5, LatestIsMaximum
<1>7. \A prior \in Rev : NextRevision(prior, clock) \in Nat
                         /\ NextRevision(prior, clock) > prior
  BY <1>1, NextIsLater
<1>8. CASE k = "settings"
  <2>1. UploadRevision(k) = NextRevision(Latest(settings, p), clock)
    BY <1>8 DEF UploadRevision, settings, p
  <2>2. mem.rev["settings"] \in Int /\ mem.floor["settings"] \in Int
    BY <1>2 DEF Families, Rev, NoRev
  <2> QED BY <2>1, <2>2, <1>3, <1>6, <1>7, <1>8 DEF FamilyOf, Rev, NoRev
<1>9. CASE k = "partial"
  <2>1. UploadRevision(k) = NextRevision(settings, clock)
    BY <1>9 DEF UploadRevision, settings
  <2>2. mem.rev["settings"] \in Int /\ mem.floor["settings"] \in Int
    BY <1>2 DEF Families, Rev, NoRev
  <2> QED BY <2>1, <2>2, <1>3, <1>7, <1>9 DEF FamilyOf, Rev, NoRev
<1>10. CASE k = "auto"
  <2>1. UploadRevision(k) = NextRevision(Latest(settings, q), clock)
    BY <1>10 DEF UploadRevision, settings, auto, p, q
  <2>2. mem.rev["auto"] \in Int /\ mem.floor["auto"] \in Int
    BY <1>2 DEF Families, Rev, NoRev
  <2> QED BY <2>1, <2>2, <1>4, <1>5, <1>6, <1>7, <1>10
          DEF FamilyOf, Rev, NoRev
<1> QED BY <1>8, <1>9, <1>10

LEMMA CommandRevisionLater ==
  ASSUME Inv, NEW f \in Families
  PROVE  CommandRevision(f) \in Nat /\ CommandRevision(f) > mem.floor[f]
<1>1. mem.rev[f] \in Rev /\ mem.floor[f] \in Rev /\ clock \in Nat
  BY DEF Inv, TypeOK, Memory, Rev
<1>2. /\ Latest(mem.rev[f], mem.floor[f]) \in Rev
      /\ Latest(mem.rev[f], mem.floor[f]) >= mem.floor[f]
  BY <1>1, LatestIsMaximum
<1> DEFINE q == Latest(mem.rev[f], mem.floor[f])
<1>3. NextRevision(q, clock) \in Nat /\ NextRevision(q, clock) > q
  BY <1>1, <1>2, NextIsLater
<1>4. CommandRevision(f) = NextRevision(q, clock)
  BY DEF CommandRevision
<1> HIDE DEF q
<1>5. q \in Int /\ q >= mem.floor[f] /\ mem.floor[f] \in Int
  BY <1>1, <1>2 DEF q, Rev, NoRev
<1> QED BY <1>3, <1>4, <1>5

\* What a durable candidate must be.
Good(g) == g \in Memory /\ Bounded(g) /\ Follows(g, mem)

LEMMA UploadImageGood ==
  ASSUME Inv, NEW k \in {"settings", "partial", "auto"},
         NEW settles \in BOOLEAN
  PROVE  Good(UploadImage(k, settles))
<1> DEFINE g == UploadImage(k, settles)
           f == FamilyOf(k)
           r == UploadRevision(k)
<1>1. f \in Families /\ r \in Nat /\ r > mem.floor[f]
  BY UploadRevisionLater DEF FamilyOf, Families
<1>2. mem \in Memory /\ Bounded(mem)
  BY DEF Inv, TypeOK, RevInv
<1>3. Latest(mem.floor[f], r) = r
  BY <1>1, <1>2 DEF Latest, Memory
<1>4. g = [mem EXCEPT !.rev[f] = r, !.floor[f] = r,
                      !.uncertain = IF settles THEN None ELSE @]
  BY <1>3 DEF UploadImage
<1> HIDE DEF g, f, r
<1>5. g \in Memory
  BY <1>1, <1>2, <1>4 DEF Memory, Rev
<1>6. Bounded(g)
  BY <1>1, <1>2, <1>4 DEF Memory, Rev, NoRev, Bounded, Families
<1>7. Follows(g, mem)
  BY <1>1, <1>2, <1>4 DEF Memory, Rev, NoRev, Follows
<1> QED BY <1>5, <1>6, <1>7 DEF Good, g

LEMMA JournalImageGood ==
  ASSUME Inv, NEW f \in Families
  PROVE  /\ Good(JournalImage(f))
         /\ JournalImage(f).floor[f] = CommandRevision(f)
         /\ JournalImage(f).rev = mem.rev
<1> DEFINE g == JournalImage(f)
           r == CommandRevision(f)
<1>1. r \in Nat /\ r > mem.floor[f]
  BY CommandRevisionLater
<1>2. mem \in Memory /\ Bounded(mem)
  BY DEF Inv, TypeOK, RevInv
<1>3. g = [mem EXCEPT !.floor[f] = r,
                      !.uncertain = [family |-> f, revision |-> r]]
  BY DEF JournalImage
<1> HIDE DEF g, r
<1>4. g \in Memory
  BY <1>1, <1>2, <1>3 DEF Memory, Sent
<1>5. Bounded(g)
  BY <1>1, <1>2, <1>3 DEF Memory, Rev, NoRev, Bounded, Families
<1>6. Follows(g, mem)
  BY <1>1, <1>2, <1>3 DEF Memory, Rev, NoRev, Follows
<1>7. g.floor[f] = r /\ g.rev = mem.rev
  BY <1>2, <1>3 DEF Memory
<1> QED BY <1>4, <1>5, <1>6, <1>7 DEF Good, g, r

LEMMA ConfirmImageGood ==
  ASSUME Inv, pending # None, NEW stamp \in Nat
  PROVE  Good(ConfirmImage(stamp))
<1> DEFINE g == ConfirmImage(stamp)
           f == pending.family
           q == Latest(mem.rev[f], pending.revision)
           r == NextRevision(Latest(mem.floor[f], q), stamp)
<1>1. pending \in Sent /\ mem \in Memory /\ Bounded(mem)
      /\ pending.revision <= mem.floor[f]
  BY DEF Inv, TypeOK, RevInv
<1>2. f \in Families /\ pending.revision \in Nat
  BY <1>1 DEF Sent
<1>3. mem.rev[f] \in Rev /\ mem.floor[f] \in Rev /\ pending.revision \in Rev
  BY <1>1, <1>2 DEF Memory, Rev
<1>4. q \in Rev
  BY <1>3, LatestIsMaximum
<1>5. Latest(mem.floor[f], q) \in Rev /\ Latest(mem.floor[f], q) >= mem.floor[f]
  BY <1>3, <1>4, LatestIsMaximum
<1>6. r \in Nat /\ r > mem.floor[f]
  <2> DEFINE u == Latest(mem.floor[f], q)
  <2>1. r = NextRevision(u, stamp) /\ u \in Rev /\ u >= mem.floor[f]
    BY <1>5
  <2> HIDE DEF u, r
  <2>2. r \in Nat /\ r > u
    BY <2>1, NextIsLater
  <2> QED BY <2>1, <2>2, <1>3 DEF Rev, NoRev
<1>7. g = [mem EXCEPT !.rev[f] = r, !.floor[f] = r, !.uncertain = None,
              !.live = IF f = "settings" THEN pending.revision ELSE @]
  BY DEF ConfirmImage
<1> HIDE DEF g, f, q, r
<1>8. g \in Memory
  BY <1>1, <1>2, <1>6, <1>7 DEF Memory, Rev
<1>9. Bounded(g)
  BY <1>1, <1>2, <1>6, <1>7 DEF Memory, Rev, NoRev, Bounded, Families
<1>10. Follows(g, mem)
  BY <1>1, <1>2, <1>6, <1>7 DEF Memory, Rev, NoRev, Follows
<1> QED BY <1>8, <1>9, <1>10 DEF Good, g

\* A baseline that a report moves gets a later revision.
LEMMA MergeRevisionLater ==
  ASSUME NEW m \in Memory, NEW f \in Families, NEW stamp \in Nat
  PROVE  /\ MergeRevision(m, f, stamp) \in Nat
         /\ MergeRevision(m, f, stamp) > m.floor[f]
<1> DEFINE settings == Latest(m.rev["settings"], m.floor["settings"])
           auto     == Latest(m.rev["auto"], m.floor["auto"])
           prior    == IF f = "auto" THEN Latest(settings, auto) ELSE settings
<1>1. \A h \in Families : m.rev[h] \in Rev /\ m.floor[h] \in Rev
  BY DEF Memory, Rev
<1>2. settings \in Rev /\ settings >= m.floor["settings"]
  BY <1>1, LatestIsMaximum DEF Families
<1>3. auto \in Rev /\ auto >= m.floor["auto"]
  BY <1>1, LatestIsMaximum DEF Families
<1>4. MergeRevision(m, f, stamp) = NextRevision(prior, stamp)
  BY DEF MergeRevision
<1> HIDE DEF settings, auto
<1>5. Latest(settings, auto) \in Rev /\ Latest(settings, auto) >= auto
  BY <1>2, <1>3, LatestIsMaximum
<1>6. prior \in Rev /\ prior >= m.floor[f]
  <2>1. m.floor["auto"] \in Int /\ m.floor["settings"] \in Int
    BY <1>1 DEF Families, Rev, NoRev
  <2> QED BY <2>1, <1>2, <1>3, <1>5 DEF Families, Rev, NoRev
<1> HIDE DEF prior
<1>7. NextRevision(prior, stamp) \in Nat /\ NextRevision(prior, stamp) > prior
  BY <1>6, NextIsLater
<1> QED BY <1>1, <1>4, <1>6, <1>7 DEF Rev, NoRev

LEMMA FollowsTransitive ==
  ASSUME NEW g \in Memory, NEW m \in Memory, NEW n \in Memory,
         Follows(g, m), Follows(m, n)
  PROVE  Follows(g, n)
  BY DEF Follows, Memory, Rev, NoRev

LEMMA MovedFollows ==
  ASSUME NEW m \in Memory, Bounded(m), NEW f \in Families, NEW stamp \in Nat
  PROVE  /\ Moved(m, f, stamp) \in Memory /\ Bounded(Moved(m, f, stamp))
         /\ Follows(Moved(m, f, stamp), m)
<1> DEFINE g == Moved(m, f, stamp)
           r == MergeRevision(m, f, stamp)
<1>1. r \in Nat /\ r > m.floor[f]
  BY MergeRevisionLater
<1>2. g = [m EXCEPT !.rev[f] = r, !.floor[f] = r]
  BY DEF Moved
<1> HIDE DEF g, r
<1>3. g \in Memory
  BY <1>1, <1>2 DEF Memory, Rev
<1>4. Bounded(g)
  BY <1>1, <1>2 DEF Memory, Rev, NoRev, Bounded, Families
<1>5. Follows(g, m)
  BY <1>1, <1>2 DEF Memory, Rev, NoRev, Follows
<1> QED BY <1>3, <1>4, <1>5 DEF g

\* A merge of both families, Settings first, is as good as one of each.
LEMMA MergeFollows ==
  ASSUME NEW m \in Memory, Bounded(m), NEW families \in SUBSET Families,
         NEW stamp \in Nat
  PROVE  /\ MergeImage(m, families, stamp) \in Memory
         /\ Bounded(MergeImage(m, families, stamp))
         /\ Follows(MergeImage(m, families, stamp), m)
<1> DEFINE s == IF "settings" \in families THEN Moved(m, "settings", stamp)
                                           ELSE m
           g == MergeImage(m, families, stamp)
<1>1. Follows(m, m)
  BY DEF Follows, Memory
<1>2. s \in Memory /\ Bounded(s) /\ Follows(s, m)
  BY <1>1, MovedFollows DEF Families
<1>3. g = IF "auto" \in families THEN Moved(s, "auto", stamp) ELSE s
  BY DEF MergeImage
<1> HIDE DEF s
<1>4. CASE "auto" \in families
  <2>1. /\ Moved(s, "auto", stamp) \in Memory
        /\ Bounded(Moved(s, "auto", stamp))
        /\ Follows(Moved(s, "auto", stamp), s)
    BY <1>2, MovedFollows DEF Families
  <2>2. Follows(Moved(s, "auto", stamp), m)
    BY <1>2, <2>1, FollowsTransitive
  <2> QED BY <1>3, <1>4, <2>1, <2>2
<1>5. CASE "auto" \notin families
  BY <1>2, <1>3, <1>5
<1> QED BY <1>4, <1>5

LEMMA VerdictImageGood ==
  ASSUME Inv, NEW v \in Verdicts, Says(v), NEW stamp \in Nat
  PROVE  Good(VerdictImage(v, stamp))
<1>1. mem \in Memory /\ Bounded(mem)
  BY DEF Inv, TypeOK, RevInv
<1>2. CASE v = "confirms"
  BY <1>2, ConfirmImageGood DEF VerdictImage, Says
<1>3. CASE v = "resolves"
  <2>1. Good([mem EXCEPT !.uncertain = None])
    BY <1>1 DEF Good, Memory, Bounded, Follows, Rev, NoRev
  <2> QED BY <1>3, <2>1 DEF VerdictImage
<1>4. CASE v = "nothing"
  <2>1. Good(mem)
    BY <1>1 DEF Good, Follows, Memory
  <2> QED BY <1>4, <2>1 DEF VerdictImage
<1> QED BY <1>2, <1>3, <1>4 DEF Verdicts

LEMMA ReportImageGood ==
  ASSUME Inv, NEW v \in Verdicts, Says(v), NEW families \in SUBSET Families,
         NEW stamp \in Nat
  PROVE  Good(ReportImage(v, families, stamp))
<1> DEFINE m == VerdictImage(v, stamp)
           g == MergeImage(m, families, stamp)
<1>1. m \in Memory /\ Bounded(m) /\ Follows(m, mem) /\ mem \in Memory
  BY VerdictImageGood DEF Good, Inv, TypeOK
<1>2. ReportImage(v, families, stamp) = g
  BY DEF ReportImage
<1> HIDE DEF m
<1>3. g \in Memory /\ Bounded(g) /\ Follows(g, m)
  BY <1>1, MergeFollows
<1> HIDE DEF g
<1>4. Follows(g, mem)
  BY <1>1, <1>3, FollowsTransitive
<1> QED BY <1>2, <1>3, <1>4 DEF Good

-----------------------------------------------------------------------------
(* Type correctness *)

LEMMA NextWakeLater ==
  ASSUME Inv
  PROVE  /\ NextWakeTime \in Nat /\ NextWakeTime > wakeTime
         /\ NextWakeTime > mem.floor["settings"]
<1> DEFINE a == Latest(mem.rev["settings"], mem.floor["settings"])
           b == Latest(mem.live, UncertainRevision)
           c == Latest(b, wakeTime)
           d == Latest(a, c)
<1>1. /\ mem.rev["settings"] \in Rev /\ mem.floor["settings"] \in Rev
      /\ mem.live \in Rev /\ mem.uncertain \in Sent \cup {None}
      /\ wakeTime \in Rev /\ clock \in Nat
  BY DEF Inv, TypeOK, Memory, Rev, Families
<1>2. UncertainRevision \in Rev
  BY <1>1, RevisionOfType DEF UncertainRevision
<1>3. a \in Rev /\ a >= mem.floor["settings"]
  BY <1>1, LatestIsMaximum
<1>4. b \in Rev
  BY <1>1, <1>2, LatestIsMaximum
<1>5. NextWakeTime = NextRevision(d, clock)
  BY DEF NextWakeTime
<1> HIDE DEF a, b
<1>6. c \in Rev /\ c >= wakeTime
  BY <1>1, <1>4, LatestIsMaximum
<1> HIDE DEF c
<1>7. d \in Rev /\ d >= a /\ d >= c
  BY <1>3, <1>6, LatestIsMaximum
<1> HIDE DEF d
<1>8. NextRevision(d, clock) \in Nat /\ NextRevision(d, clock) > d
  BY <1>1, <1>7, NextIsLater
<1> QED BY <1>1, <1>3, <1>5, <1>6, <1>7, <1>8 DEF Rev, NoRev

\* What every send, by itself, does to the history and the thermostat.
LEMMA CommandsType ==
  ASSUME TypeOK, NEW t \in Nat, NEW arrives \in BOOLEAN, Commands(t, arrives)
  PROVE  /\ newest' \in Rev /\ (newest' = newest \/ newest' = t)
         /\ online' \in BOOLEAN /\ heard' \in Rev /\ report' \in BOOLEAN
<1>1. newest' \in Rev /\ (newest' = newest \/ newest' = t)
  BY LatestIsMaximum DEF Commands, TypeOK, Rev
<1>2. /\ online \in BOOLEAN /\ heard \in Rev /\ report \in BOOLEAN /\ t \in Rev
  BY DEF TypeOK, Rev
<1>3. CASE arrives /\ t # heard
  <2>1. heard' = t /\ online' = TRUE /\ (report' <=> (report \/ ~online))
        /\ report' \in BOOLEAN
    BY <1>2, <1>3 DEF Commands
  <2> QED BY <1>1, <1>2, <2>1
<1>4. CASE ~(arrives /\ t # heard)
  <2>1. heard' = heard /\ online' = online /\ report' = report
    BY <1>4 DEF Commands, device
  <2> QED BY <1>1, <1>2, <2>1
<1> QED BY <1>3, <1>4

LEMMA ShowsType ==
  ASSUME TypeOK, NEW f \in Families, NEW r \in Rev, Shows(f, r)
  PROVE  /\ top' \in [Families -> Rev]
         /\ top'[f] = top[f] \/ top'[f] = r
         /\ \A g \in Families : g # f => top'[g] = top[g]
<1>1. top \in [Families -> Rev]
  BY DEF TypeOK
<1>2. Latest(top[f], r) \in Rev /\ (Latest(top[f], r) = top[f] \/ Latest(top[f], r) = r)
  BY <1>1, LatestIsMaximum
<1> QED BY <1>1, <1>2 DEF Shows

\* A store that works installs a good image in memory and on disk.
LEMMA StoreKeeps ==
  ASSUME Inv, NEW g, Good(g), Store(g)
  PROVE  /\ mem' \in Memory /\ disk' \in Memory /\ disk' = mem'
         /\ Bounded(mem') /\ Bounded(disk') /\ Follows(disk', mem')
         /\ \A f \in Families : mem'.floor[f] >= mem.floor[f]
<1>1. mem' = g /\ disk' = g /\ g \in Memory
  BY DEF Store, Good
<1>2. Bounded(g) /\ Follows(g, mem)
  BY DEF Good
<1>3. Follows(g, g)
  BY <1>1 DEF Follows, Memory
<1>4. \A f \in Families : g.floor[f] >= mem.floor[f]
  BY <1>2 DEF Follows
<1> QED BY <1>1, <1>2, <1>3, <1>4

-----------------------------------------------------------------------------
(* The steps *)

LEMMA InitInv == Init => Inv
<1> SUFFICES ASSUME Init PROVE Inv
  OBVIOUS
<1> USE ConstantsAssumption DEF Init, Rev, NoRev, Families
<1>1. mem \in Memory /\ disk = mem /\ mem.live = 0
      /\ \A f \in Families : mem.rev[f] <= 0 /\ mem.floor[f] = 0
  BY DEF Memory
<1>2. TypeOK
  <2>1. online \in BOOLEAN /\ latched \in BOOLEAN /\ consistent \in BOOLEAN
        /\ report \in BOOLEAN /\ owed \in BOOLEAN
    BY Zenon
  <2>2. clock \in Nat /\ wakeTime \in Rev /\ companion \in Rev /\ heard \in Rev
        /\ newest \in Rev /\ top \in [Families -> Rev]
    BY SMT
  <2> QED BY <1>1, <2>1, <2>2 DEF TypeOK
<1>3. RevInv
  BY <1>1 DEF RevInv, Bounded, Follows, Memory
<1> QED BY <1>2, <1>3 DEF Inv

LEMMA UploadStepInv ==
  ASSUME Inv, NEW kind \in {"settings", "partial", "auto"},
         NEW canonical \in BOOLEAN, NEW settles \in BOOLEAN,
         UploadAccepted(kind, canonical, settles)
  PROVE  Inv'
<1> DEFINE g == UploadImage(kind, settles)
           f == FamilyOf(kind)
           r == UploadRevision(kind)
<1>1. Good(g) /\ f \in Families /\ r \in Nat
  BY UploadImageGood, UploadRevisionLater DEF FamilyOf, Families
<1>2. Store(g) /\ Shows(f, r)
  BY DEF UploadAccepted, UploadSaved
<1>3. g.floor[f] >= r
  <2>1. mem.floor \in [Families -> Nat] /\ mem \in Memory
    BY DEF Inv, TypeOK, Memory
  <2>2. Latest(mem.floor[f], r) >= r
    BY <1>1, <2>1, LatestIsMaximum DEF Rev
  <2>3. g.floor[f] = Latest(mem.floor[f], r)
    BY <1>1, <2>1 DEF UploadImage, Memory
  <2> QED BY <2>2, <2>3
<1> HIDE DEF g, f, r
<1>4. /\ mem' \in Memory /\ disk' \in Memory /\ disk' = mem'
      /\ Bounded(mem') /\ Bounded(disk') /\ Follows(disk', mem')
      /\ \A h \in Families : mem'.floor[h] >= mem.floor[h]
  BY <1>1, <1>2, StoreKeeps
<1>5. /\ top' \in [Families -> Rev]
      /\ top'[f] = top[f] \/ top'[f] = r
      /\ \A h \in Families : h # f => top'[h] = top[h]
  BY <1>1, <1>2, ShowsType DEF Inv, Rev
<1>6. mem'.floor[f] >= r
  BY <1>2, <1>3 DEF Store
<1>7. TypeOK'
  BY <1>4, <1>5 DEF Inv, TypeOK, UploadAccepted, cycle, device
<1>8. \A h \in Families : top'[h] <= mem'.floor[h]
  <2> SUFFICES ASSUME NEW h \in Families PROVE top'[h] <= mem'.floor[h]
    OBVIOUS
  <2>1. top[h] \in Int /\ mem.floor[h] \in Int /\ mem'.floor[h] \in Int
    BY <1>4 DEF Inv, TypeOK, Memory, Rev, NoRev
  <2>2. top[h] <= mem.floor[h] /\ mem'.floor[h] >= mem.floor[h]
    BY <1>4 DEF Inv, RevInv
  <2> QED BY <1>1, <1>5, <1>6, <2>1, <2>2
<1>9. pending' # None => pending'.revision <= mem'.floor[pending'.family]
  <2>1. pending' = None \/ pending' = pending
    BY DEF UploadAccepted
  <2> QED BY <2>1, <1>4 DEF Inv, TypeOK, RevInv, Sent, Memory
<1>10. /\ companion' <= mem'.floor["auto"]
       /\ newest' <= mem'.floor["settings"] \/ newest' <= wakeTime'
  BY <1>4 DEF Inv, TypeOK, RevInv, UploadAccepted, cycle, Memory, Families,
              Rev, NoRev
<1> QED BY <1>4, <1>7, <1>8, <1>9, <1>10 DEF Inv, RevInv

LEMMA CommandSentInv ==
  ASSUME Inv, NEW f \in Families, NEW leaves \in BOOLEAN,
         NEW arrives \in BOOLEAN, NEW faults \in BOOLEAN,
         CommandSent(f, leaves, arrives, faults)
  PROVE  Inv'
<1> DEFINE g == JournalImage(f)
           r == CommandRevision(f)
<1>1. Good(g) /\ r \in Nat /\ g.floor[f] = r
  BY JournalImageGood, CommandRevisionLater
<1>2. Store(g) /\ mem' = g
  BY DEF CommandSent, Store
<1> HIDE DEF g
<1>3. /\ mem' \in Memory /\ disk' \in Memory /\ disk' = mem'
      /\ Bounded(mem') /\ Bounded(disk') /\ Follows(disk', mem')
      /\ \A h \in Families : mem'.floor[h] >= mem.floor[h]
  BY <1>1, <1>2, StoreKeeps
<1>4. mem'.floor[f] = r
  BY <1>1, <1>2
<1>5. IF leaves THEN pending' = [family |-> f, revision |-> r] /\ Shows(f, r)
                ELSE pending' = pending /\ top' = top
  BY DEF CommandSent
<1>6. IF leaves /\ f = "settings"
      THEN Commands(r, arrives)
      ELSE online' = online /\ heard' = heard /\ report' = report
           /\ newest' = newest
  BY DEF CommandSent, device
<1>7. pending' \in Sent \cup {None}
      /\ (pending' # None => pending'.revision <= mem'.floor[pending'.family])
  <2>1. CASE leaves
    BY <2>1, <1>1, <1>4, <1>5 DEF Sent
  <2>2. CASE ~leaves
    BY <2>2, <1>3, <1>5 DEF Inv, TypeOK, RevInv, Sent, Memory
  <2> QED BY <2>1, <2>2
<1>8. top' \in [Families -> Rev]
      /\ \A h \in Families : top'[h] <= mem'.floor[h]
  <2>1. \A h \in Families :
          /\ top[h] \in Int /\ mem.floor[h] \in Int /\ mem'.floor[h] \in Int
          /\ top[h] <= mem.floor[h] /\ mem'.floor[h] >= mem.floor[h]
    BY <1>3 DEF Inv, TypeOK, RevInv, Memory, Rev, NoRev
  <2>2. CASE leaves
    <3>1. /\ top' \in [Families -> Rev]
          /\ top'[f] = top[f] \/ top'[f] = r
          /\ \A h \in Families : h # f => top'[h] = top[h]
      BY <2>2, <1>1, <1>5, ShowsType DEF Inv, Rev
    <3> QED BY <3>1, <2>1, <1>1, <1>4
  <2>3. CASE ~leaves
    BY <2>1, <2>3, <1>5 DEF Inv, TypeOK
  <2> QED BY <2>2, <2>3
<1>9. /\ newest' \in Rev /\ online' \in BOOLEAN /\ heard' \in Rev
      /\ report' \in BOOLEAN
      /\ newest' = newest \/ (f = "settings" /\ newest' = r)
  <2>1. CASE leaves /\ f = "settings"
    BY <2>1, <1>1, <1>6, CommandsType DEF Inv
  <2>2. CASE ~(leaves /\ f = "settings")
    BY <2>2, <1>6 DEF Inv, TypeOK
  <2> QED BY <2>1, <2>2
<1>10. /\ companion' \in Rev /\ companion' <= mem'.floor["auto"]
       /\ phase' = phase /\ wakeTime' = wakeTime /\ clock' = clock
       /\ consistent' = consistent /\ latched' = faults
       /\ uploads' = uploads /\ restarts' = restarts /\ mishaps' = mishaps
       /\ owed' \in BOOLEAN /\ commands' \in Nat
  <2>1. companion' = companion \/ companion' = NoRev
    BY DEF CommandSent
  <2>2. /\ companion \in Rev /\ companion <= mem.floor["auto"]
        /\ mem.floor["auto"] \in Nat /\ mem'.floor["auto"] \in Nat
        /\ mem'.floor["auto"] >= mem.floor["auto"]
    BY <1>3 DEF Inv, TypeOK, RevInv, Memory, Families
  <2>3. companion' \in Rev /\ companion' <= mem'.floor["auto"]
    BY <2>1, <2>2 DEF Rev, NoRev
  <2> QED BY <2>3 DEF CommandSent, Inv, TypeOK
<1>11. newest' <= mem'.floor["settings"] \/ newest' <= wakeTime'
  BY <1>1, <1>3, <1>4, <1>9, <1>10
     DEF Inv, TypeOK, RevInv, Memory, Families, Rev, NoRev
<1>12. TypeOK'
  BY <1>3, <1>7, <1>8, <1>9, <1>10 DEF Inv, TypeOK
<1> QED BY <1>3, <1>7, <1>8, <1>10, <1>11, <1>12 DEF Inv, RevInv

\* A step that leaves what is stored alone.
LEMMA QuietStep ==
  ASSUME Inv, UNCHANGED <<mem, disk, latched>>,
         pending' \in {pending, None},
         companion' \in {companion, NoRev, mem.rev["auto"]},
         \A f \in Families : top'[f] = top[f] \/ top'[f] <= mem.floor[f],
         \/ newest' = newest /\ (wakeTime' = wakeTime \/ wakeTime' > wakeTime)
         \/ newest' <= mem.floor["settings"] \/ newest' <= wakeTime',
         wakeTime' \in Rev, newest' \in Rev
  PROVE  RevInv'
<1>1. pending' # None => pending'.revision <= mem'.floor[pending'.family]
  BY DEF Inv, RevInv
<1>2. companion' <= mem'.floor["auto"]
  <2>1. mem.floor["auto"] \in Nat /\ mem.rev["auto"] <= mem.floor["auto"]
        /\ companion <= mem.floor["auto"]
    BY DEF Inv, TypeOK, RevInv, Bounded, Memory, Families
  <2> QED BY <2>1 DEF NoRev
<1>3. \A f \in Families : top'[f] <= mem'.floor[f]
  BY DEF Inv, RevInv
<1>4. newest' <= mem'.floor["settings"] \/ newest' <= wakeTime'
  <2>1. newest \in Int /\ wakeTime \in Int /\ wakeTime' \in Int
        /\ newest' \in Int
        /\ (newest <= mem.floor["settings"] \/ newest <= wakeTime)
    BY DEF Inv, TypeOK, RevInv, Rev, NoRev
  <2> QED BY <2>1
<1> QED BY <1>1, <1>2, <1>3, <1>4 DEF Inv, RevInv

LEMMA CommandRepeatedInv ==
  ASSUME Inv, NEW arrives \in BOOLEAN, CommandRepeated(arrives)
  PROVE  Inv'
<1> DEFINE f == pending.family
           r == pending.revision
<1>1. f \in Families /\ r \in Nat /\ r \in Rev /\ r <= mem.floor[f]
  BY DEF CommandRepeated, Inv, TypeOK, RevInv, Sent, Rev
<1>2. Shows(f, r)
  BY DEF CommandRepeated
<1>3. \/ f = "settings" /\ Commands(r, arrives) /\ UNCHANGED <<companion, owed>>
      \/ companion' = NoRev /\ owed' = FALSE /\ UNCHANGED <<device, newest>>
  BY DEF CommandRepeated
<1>4. /\ top' \in [Families -> Rev]
      /\ \A h \in Families : top'[h] = top[h] \/ top'[h] <= mem.floor[h]
  BY <1>1, <1>2, ShowsType DEF Inv
<1>5. /\ newest' \in Rev /\ online' \in BOOLEAN /\ heard' \in Rev
      /\ report' \in BOOLEAN
      /\ newest' = newest \/ (f = "settings" /\ newest' = r)
  <2>1. CASE f = "settings" /\ Commands(r, arrives)
    BY <2>1, <1>1, CommandsType DEF Inv
  <2>2. CASE UNCHANGED <<device, newest>>
    BY <2>2 DEF Inv, TypeOK, device
  <2> QED BY <1>3, <2>1, <2>2
<1>6. companion' \in {companion, NoRev} /\ owed' \in BOOLEAN
  BY <1>3 DEF Inv, TypeOK
<1>7. UNCHANGED <<clock, mem, disk, latched, pending, consistent, phase,
                  wakeTime, uploads, commands, restarts, mishaps>>
  BY DEF CommandRepeated, memory, bounds
<1> HIDE DEF f, r
<1>8. TypeOK'
  BY <1>4, <1>5, <1>6, <1>7 DEF Inv, TypeOK, Rev
<1>9. newest' = newest \/ newest' <= mem.floor["settings"]
  BY <1>1, <1>5
<1>10. wakeTime' \in Rev
  BY <1>7 DEF Inv, TypeOK
<1>11. RevInv'
  BY <1>4, <1>5, <1>6, <1>7, <1>9, <1>10, QuietStep
<1> QED BY <1>8, <1>11 DEF Inv

\* A report moves what is stored and the command's fate.
LEMMA ReportMergedInv ==
  ASSUME Inv, NEW v \in Verdicts, NEW families \in SUBSET Families,
         NEW stamp \in Nat, ReportMerged(v, families, stamp),
         consistent' \in BOOLEAN, report' \in BOOLEAN, mishaps' \in Nat,
         UNCHANGED <<clock, latched, cycle, online, heard, sent, commands,
                     restarts>>
  PROVE  Inv'
<1> DEFINE g == ReportImage(v, families, stamp)
<1>1. Good(g) /\ Store(g) /\ pending' \in {pending, None} /\ uploads' \in Nat
  BY ReportImageGood DEF ReportMerged, Inv, TypeOK
<1> HIDE DEF g
<1>2. /\ mem' \in Memory /\ disk' \in Memory /\ disk' = mem'
      /\ Bounded(mem') /\ Bounded(disk') /\ Follows(disk', mem')
      /\ \A h \in Families : mem'.floor[h] >= mem.floor[h]
  BY <1>1, StoreKeeps
<1>3. TypeOK'
  BY <1>1, <1>2 DEF Inv, TypeOK, cycle, sent
<1>4. \A h \in Families : mem.floor[h] \in Nat /\ mem'.floor[h] \in Nat
  BY <1>2 DEF Inv, TypeOK, Memory
<1>5. \A h \in Families : top'[h] <= mem'.floor[h]
  BY <1>2, <1>4 DEF Inv, TypeOK, RevInv, sent, Rev, NoRev
<1>6. /\ companion' <= mem'.floor["auto"]
      /\ newest' <= mem'.floor["settings"] \/ newest' <= wakeTime'
  BY <1>2, <1>4 DEF Inv, TypeOK, RevInv, sent, cycle, Families, Rev, NoRev
<1>7. pending' # None => pending'.revision <= mem'.floor[pending'.family]
  <2> SUFFICES ASSUME pending # None, pending' = pending
               PROVE  pending.revision <= mem'.floor[pending.family]
    BY <1>1
  <2>1. pending.family \in Families /\ pending.revision \in Nat
        /\ pending.revision <= mem.floor[pending.family]
    BY DEF Inv, TypeOK, RevInv, Sent
  <2> QED BY <2>1, <1>2, <1>4
<1> QED BY <1>2, <1>3, <1>5, <1>6, <1>7 DEF Inv, RevInv

LEMMA SparseReportInv ==
  ASSUME Inv, NEW v \in Verdicts, NEW families \in SUBSET Families,
         NEW s \in 0..FutureSkew, SparseReport(v, families, clock + s)
  PROVE  Inv'
<1>1. clock + s \in Nat
  BY ConstantsAssumption DEF Inv, TypeOK
<1>2. /\ ReportMerged(v, families, clock + s)
      /\ consistent' \in BOOLEAN /\ report' \in BOOLEAN /\ mishaps' \in Nat
      /\ UNCHANGED <<clock, latched, cycle, online, heard, sent, commands,
                     restarts>>
  BY DEF SparseReport, device, Inv, TypeOK
<1> QED BY <1>1, <1>2, ReportMergedInv

LEMMA FullReportInv ==
  ASSUME Inv, NEW v \in Verdicts, NEW families \in SUBSET Families,
         NEW s \in 0..FutureSkew, NEW complete \in BOOLEAN,
         FullReport(complete, v, families, clock + s)
  PROVE  Inv'
<1>1. clock + s \in Nat
  BY ConstantsAssumption DEF Inv, TypeOK
<1>2. /\ ReportMerged(v, families, clock + s)
      /\ consistent' \in BOOLEAN /\ report' \in BOOLEAN
      /\ UNCHANGED <<clock, latched, cycle, online, heard, sent, commands,
                     restarts>>
  BY DEF FullReport
<1>3. mishaps' \in Nat
  BY DEF FullReport, Mishap, Inv, TypeOK
<1> QED BY <1>1, <1>2, <1>3, ReportMergedInv

LEMMA WriteFailsInv ==
  ASSUME Inv, WriteFails
  PROVE  Inv'
<1>1. Good(disk')
  <2>1. \A s \in 0..FutureSkew : clock + s \in Nat
    BY ConstantsAssumption DEF Inv, TypeOK
  <2>2. CASE \E k \in {"settings", "partial", "auto"}, settles \in BOOLEAN :
               disk' = UploadImage(k, settles)
    BY <2>2, UploadImageGood
  <2>3. CASE \E f \in Families : disk' = JournalImage(f)
    BY <2>3, JournalImageGood
  <2>4. CASE \E v \in {w \in Verdicts : Says(w)}, families \in SUBSET Families,
                s \in 0..FutureSkew :
               disk' = ReportImage(v, families, clock + s)
    BY <2>1, <2>4, ReportImageGood
  <2> QED BY <2>2, <2>3, <2>4 DEF WriteFails, Images
<1>2. TypeOK'
  BY <1>1 DEF Good, WriteFails, Inv, TypeOK, cycle, device, sent
<1>3. RevInv'
  BY <1>1 DEF Good, WriteFails, Inv, RevInv, Bounded, Follows, cycle, sent
<1> QED BY <1>2, <1>3 DEF Inv

\* A Settings body with the baseline's revision
LEMMA BaselineShown ==
  ASSUME Inv, NEW f \in Families, NEW r \in Rev, r <= mem.floor[f], Shows(f, r)
  PROVE  /\ top' \in [Families -> Rev]
         /\ \A h \in Families : top'[h] = top[h] \/ top'[h] <= mem.floor[h]
  BY ShowsType DEF Inv

LEMMA BaselineRevision ==
  ASSUME Inv
  PROVE  /\ \A f \in Families : mem.rev[f] \in Rev /\ mem.rev[f] <= mem.floor[f]
         /\ mem.live \in Nat /\ mem.live <= mem.floor["settings"]
         /\ companion \in Rev /\ companion <= mem.floor["auto"]
  BY DEF Inv, TypeOK, RevInv, Bounded, Memory

LEMMA SettingsEchoInv ==
  ASSUME Inv, NEW arrives \in BOOLEAN, SettingsEcho(arrives)
  PROVE  Inv'
<1>1. /\ top' \in [Families -> Rev]
      /\ \A h \in Families : top'[h] = top[h] \/ top'[h] <= mem.floor[h]
  BY BaselineShown, BaselineRevision DEF SettingsEcho, Families
<1>2. /\ newest' \in Rev /\ (newest' = newest \/ newest' = mem.live)
      /\ online' \in BOOLEAN /\ heard' \in Rev /\ report' \in BOOLEAN
  BY BaselineRevision, CommandsType DEF SettingsEcho, Inv
<1>3. UNCHANGED <<clock, mem, disk, latched, pending, consistent, phase,
                  wakeTime, companion, owed, uploads, commands, restarts,
                  mishaps>>
  BY DEF SettingsEcho, memory, cycle, bounds
<1>4. TypeOK'
  BY <1>1, <1>2, <1>3 DEF Inv, TypeOK
<1>5. newest' = newest \/ newest' <= mem.floor["settings"]
  BY <1>2, BaselineRevision
<1>6. RevInv'
  BY <1>1, <1>2, <1>3, <1>5, QuietStep DEF Inv, TypeOK
<1> QED BY <1>4, <1>6 DEF Inv

\* What the two bodies of the cycle have in common.
LEMMA ResyncPollCommon ==
  ASSUME Inv, NEW arrives \in BOOLEAN, NEW raises \in BOOLEAN,
         ResyncPoll(arrives, raises)
  PROVE  /\ top' \in [Families -> Rev]
         /\ \A h \in Families : top'[h] = top[h] \/ top'[h] <= mem.floor[h]
         /\ companion' \in {companion, mem.rev["auto"]} /\ companion' \in Rev
         /\ phase' \in {"reset", "wake"} /\ owed' \in BOOLEAN
         /\ mishaps' \in Nat
         /\ UNCHANGED <<clock, mem, disk, latched, pending, consistent,
                        uploads, commands, restarts>>
<1>1. /\ top' \in [Families -> Rev]
      /\ \A h \in Families : top'[h] = top[h] \/ top'[h] <= mem.floor[h]
  BY BaselineShown, BaselineRevision DEF ResyncPoll, Families
<1>2. /\ companion' \in {companion, mem.rev["auto"]} /\ companion' \in Rev
      /\ phase' \in {"reset", "wake"} /\ owed' \in BOOLEAN
  <2>1. phase \in {"reset", "wake"} /\ owed \in BOOLEAN
    BY DEF Inv, TypeOK
  <2>2. AfterBody(raises)
    BY DEF ResyncPoll
  <2>3. CASE raises
    BY <2>1, <2>2, <2>3, BaselineRevision DEF AfterBody
  <2>4. CASE ~raises
    BY <2>1, <2>2, <2>4, BaselineRevision DEF AfterBody, Arm, Families
  <2> QED BY <2>3, <2>4
<1>3. mishaps' \in Nat
  BY DEF ResyncPoll, Mishap, Inv, TypeOK
<1> QED BY <1>1, <1>2, <1>3 DEF ResyncPoll, memory

LEMMA ResetPollInv ==
  ASSUME Inv, NEW arrives \in BOOLEAN, NEW raises \in BOOLEAN,
         ResetPoll(arrives, raises)
  PROVE  Inv'
<1>1. ResyncPoll(arrives, raises)
  BY DEF ResetPoll
<1>2. UNCHANGED <<wakeTime, heard, report, newest>> /\ online' \in BOOLEAN
  BY DEF ResetPoll
<1>3. TypeOK'
  BY <1>1, <1>2, ResyncPollCommon DEF Inv, TypeOK
<1>4. RevInv'
  BY <1>1, <1>2, ResyncPollCommon, QuietStep DEF Inv, TypeOK
<1> QED BY <1>3, <1>4 DEF Inv

LEMMA WakePollInv ==
  ASSUME Inv, NEW arrives \in BOOLEAN, NEW raises \in BOOLEAN,
         WakePoll(arrives, raises)
  PROVE  Inv'
<1>1. ResyncPoll(arrives, raises)
  BY DEF WakePoll
<1>2. /\ wakeTime' = NextWakeTime /\ NextWakeTime \in Nat
      /\ NextWakeTime > wakeTime /\ NextWakeTime \in Rev
  BY NextWakeLater DEF WakePoll, Rev
<1>3. /\ newest' \in Rev /\ (newest' = newest \/ newest' = NextWakeTime)
      /\ online' \in BOOLEAN /\ heard' \in Rev /\ report' \in BOOLEAN
  BY <1>2, CommandsType DEF WakePoll, Inv
<1>4. TypeOK'
  BY <1>1, <1>2, <1>3, ResyncPollCommon DEF Inv, TypeOK
<1>5. RevInv'
  BY <1>1, <1>2, <1>3, ResyncPollCommon, QuietStep
<1> QED BY <1>4, <1>5 DEF Inv

LEMMA AutoPollInv ==
  ASSUME Inv, AutoPollInconsistent \/ AutoEcho
  PROVE  Inv'
<1>1. AutoPollBounds /\ companion' = NoRev
  BY DEF AutoPollInconsistent, AutoEcho, AfterAutoEcho
<1>2. /\ top' \in [Families -> Rev]
      /\ \A h \in Families : top'[h] = top[h] \/ top'[h] <= mem.floor[h]
  <2>1. CASE Shows("auto", companion)
    BY <2>1, BaselineShown, BaselineRevision DEF Families
  <2>2. CASE Shows("auto", mem.rev["auto"])
    BY <2>2, BaselineShown, BaselineRevision DEF Families
  <2>3. CASE top' = top
    BY <2>3 DEF Inv, TypeOK
  <2> QED BY <2>1, <2>2, <2>3 DEF AutoPollInconsistent, AutoEcho
<1>3. UNCHANGED <<clock, mem, disk, latched, pending, consistent, phase,
                  wakeTime, online, heard, report, newest, uploads, commands,
                  restarts, mishaps>> /\ owed' = FALSE
  BY <1>1 DEF AutoPollBounds, memory, device, bounds
<1>4. TypeOK'
  BY <1>1, <1>2, <1>3 DEF Inv, TypeOK, Rev, NoRev
<1>5. RevInv'
  BY <1>1, <1>2, <1>3, QuietStep DEF Inv, TypeOK
<1> QED BY <1>4, <1>5 DEF Inv

\* Steps of the world: a lost report, the clock, the giving up.
LEMMA WorldInv ==
  ASSUME Inv,
         ReportLost \/ Lapse \/ ClockMoves \/ CommandWithdrawn
           \/ UNCHANGED vars
  PROVE  Inv'
<1>1. /\ UNCHANGED <<mem, disk, latched, phase, wakeTime, companion, top,
                     newest, owed, online, heard, uploads, commands, restarts>>
      /\ pending' \in {pending, None} /\ consistent' \in BOOLEAN
      /\ report' \in BOOLEAN
  BY DEF ReportLost, Lapse, ClockMoves, CommandWithdrawn, vars,
         memory, cycle, device, sent, bounds, Inv, TypeOK
<1>2. mishaps' \in Nat /\ clock' \in Nat
  BY ConstantsAssumption
     DEF ReportLost, Lapse, ClockMoves, CommandWithdrawn, vars,
         memory, cycle, device, sent, bounds, Mishap, Inv, TypeOK
<1>3. TypeOK'
  BY <1>1, <1>2 DEF Inv, TypeOK
<1>4. RevInv'
  BY <1>1, QuietStep DEF Inv, TypeOK
<1> QED BY <1>3, <1>4 DEF Inv

LEMMA RestartInv ==
  ASSUME Inv, Restart
  PROVE  Inv'
<1>1. mem' = disk /\ disk' = disk /\ disk \in Memory /\ Bounded(disk)
  BY DEF Restart, Inv, TypeOK, RevInv
<1>2. TypeOK'
  <2>1. latched' \in BOOLEAN /\ consistent' \in BOOLEAN /\ owed' \in BOOLEAN
        /\ online' \in BOOLEAN /\ report' \in BOOLEAN
    BY Zenon DEF Restart, device, Inv, TypeOK
  <2>2. /\ phase' = "reset" /\ wakeTime' \in Rev /\ companion' \in Rev
        /\ heard' \in Rev /\ newest' \in Rev /\ top' \in [Families -> Rev]
        /\ restarts' \in Nat
    BY DEF Restart, device, Inv, TypeOK, Rev, NoRev
  <2>3. UNCHANGED <<clock, uploads, commands, mishaps>> /\ pending' = None
    BY DEF Restart
  <2> QED BY <1>1, <2>1, <2>2, <2>3 DEF Inv, TypeOK
<1>3. Follows(disk', mem')
  BY <1>1 DEF Follows, Memory
<1>4. \A f \in Families : top'[f] <= mem'.floor[f]
  <2>1. \A f \in Families : /\ top[f] \in Int /\ mem.floor[f] \in Int
                            /\ disk.floor[f] \in Int
                            /\ top[f] <= mem.floor[f]
                            /\ disk.floor[f] >= mem.floor[f]
    BY DEF Inv, TypeOK, RevInv, Follows, Memory, Rev, NoRev
  <2> QED BY <2>1, <1>1 DEF Restart
<1>5. companion' <= mem'.floor["auto"] /\ newest' <= wakeTime'
      /\ pending' = None
  BY <1>1 DEF Restart, Memory, Families, NoRev
<1> QED BY <1>1, <1>2, <1>3, <1>4, <1>5 DEF Inv, RevInv

LEMMA InvStep == Inv /\ [Next]_vars => Inv'
<1> SUFFICES ASSUME Inv, [Next]_vars PROVE Inv'
  OBVIOUS
<1>1. CASE UploadStep
  BY <1>1, UploadStepInv DEF UploadStep
<1>2. CASE CommandStep
  BY <1>2, CommandSentInv, CommandRepeatedInv, WorldInv DEF CommandStep
<1>3. CASE WriteFails
  BY <1>3, WriteFailsInv
<1>4. CASE PollStep
  BY <1>4, SettingsEchoInv, ResetPollInv, WakePollInv, AutoPollInv
     DEF PollStep
<1>5. CASE ReportStep
  BY <1>5, SparseReportInv, FullReportInv, WorldInv DEF ReportStep
<1>6. CASE Lapse \/ ClockMoves \/ UNCHANGED vars
  BY <1>6, WorldInv
<1>7. CASE Restart
  BY <1>7, RestartInv
<1> QED BY <1>1, <1>2, <1>3, <1>4, <1>5, <1>6, <1>7 DEF Next

LEMMA InvHolds == Spec => []Inv
  BY InitInv, InvStep, PTL DEF Spec

-----------------------------------------------------------------------------
(* The theorems *)

\* Every variable of the resynchronisation keeps its type.
THEOREM ResyncTypeCorrect == Spec => []TypeOK
<1>1. Inv => TypeOK
  BY DEF Inv
<1> QED BY <1>1, InvHolds, PTL

\* Every image that memory moves to has later revisions than were ever sent.
LEMMA LaterThanSent ==
  ASSUME Inv, NEW g, Good(g), NEW f \in Families, g.rev[f] # mem.rev[f]
  PROVE  g.rev[f] > top[f]
<1>1. g.rev[f] > mem.floor[f] /\ top[f] <= mem.floor[f]
  BY DEF Good, Follows, Inv, RevInv
<1>2. g.rev[f] \in Int /\ mem.floor[f] \in Int /\ top[f] \in Int
  BY DEF Good, Inv, TypeOK, Memory, Rev, NoRev
<1> QED BY <1>1, <1>2

\* The revision of an upload, a command or a confirmation is later than all
\* that left the server, whatever the clock, failed writes and restarts do.
THEOREM RevisionsAlwaysAdvance == Spec => RevisionsAdvance
<1> DEFINE A == /\ \A f \in Families :
                     mem'.rev[f] # mem.rev[f] => mem'.rev[f] > top[f]
                /\ pending' # pending /\ pending' # None =>
                     pending'.revision > top[pending'.family]
<1>1. Inv /\ [Next]_vars => A
  <2> SUFFICES ASSUME Inv, [Next]_vars PROVE A
    OBVIOUS
  <2>1. (\E g : Good(g) /\ mem' = g) \/ mem' = mem
    <3>1. CASE UploadStep
      BY <3>1, UploadImageGood DEF UploadStep, UploadAccepted, UploadSaved,
                                   Store
    <3>2. CASE CommandStep
      <4>1. ASSUME NEW f \in Families, NEW leaves \in BOOLEAN,
                   NEW arrives \in BOOLEAN, NEW faults \in BOOLEAN,
                   CommandSent(f, leaves, arrives, faults)
            PROVE  \E g : Good(g) /\ mem' = g
        BY <4>1, JournalImageGood DEF CommandSent, Store
      <4>2. ASSUME NEW arrives \in BOOLEAN, CommandRepeated(arrives)
            PROVE  mem' = mem
        BY <4>2 DEF CommandRepeated, memory
      <4>3. CASE CommandWithdrawn
        BY <4>3 DEF CommandWithdrawn, memory
      <4> QED BY <3>2, <4>1, <4>2, <4>3 DEF CommandStep
    <3>3. CASE WriteFails
      BY <3>3 DEF WriteFails
    <3>4. CASE PollStep
      BY <3>4 DEF PollStep, SettingsEcho, ResetPoll, WakePoll, ResyncPoll,
                  AutoPollInconsistent, AutoEcho, AutoPollBounds, memory
    <3>5. CASE Lapse \/ ClockMoves \/ UNCHANGED vars
      BY <3>5 DEF Lapse, ClockMoves, vars, memory
    <3>6. CASE ReportStep
      <4>1. ASSUME NEW v \in Verdicts, NEW families \in SUBSET Families,
                   NEW s \in 0..FutureSkew,
                   ReportMerged(v, families, clock + s)
            PROVE  \E g : Good(g) /\ mem' = g
        <5>1. clock + s \in Nat
          BY ConstantsAssumption DEF Inv, TypeOK
        <5> QED BY <4>1, <5>1, ReportImageGood DEF ReportMerged, Store
      <4>2. CASE ReportLost
        BY <4>2 DEF ReportLost, memory
      <4> QED BY <3>6, <4>1, <4>2 DEF ReportStep, SparseReport, FullReport
    <3>7. CASE Restart
      <4>1. Good(disk)
        BY DEF Good, Inv, TypeOK, RevInv
      <4> QED BY <3>7, <4>1 DEF Restart
    <3> QED BY <3>1, <3>2, <3>3, <3>4, <3>5, <3>6, <3>7 DEF Next
  <2>2. \A f \in Families : mem'.rev[f] # mem.rev[f] => mem'.rev[f] > top[f]
    BY <2>1, LaterThanSent
  <2>3. pending' # pending /\ pending' # None =>
          pending'.revision > top[pending'.family]
    <3> SUFFICES ASSUME pending' # pending, pending' # None
                 PROVE  pending'.revision > top[pending'.family]
      OBVIOUS
    <3>1. \E f \in Families, leaves, arrives, faults \in BOOLEAN :
            CommandSent(f, leaves, arrives, faults)
      BY DEF Next, UploadStep, UploadAccepted, CommandStep, CommandRepeated,
             CommandWithdrawn, WriteFails, PollStep, SettingsEcho, ResetPoll,
             WakePoll, ResyncPoll, AutoPollInconsistent, AutoEcho,
             AutoPollBounds, ReportStep, SparseReport, FullReport, ReportMerged,
             ReportLost, Lapse, ClockMoves, Restart, vars
    <3>2. PICK f \in Families :
            pending' = [family |-> f, revision |-> CommandRevision(f)]
      BY <3>1 DEF CommandSent
    <3>3. CommandRevision(f) \in Nat /\ CommandRevision(f) > mem.floor[f]
          /\ top[f] <= mem.floor[f] /\ top[f] \in Int /\ mem.floor[f] \in Int
      BY CommandRevisionLater DEF Inv, RevInv, TypeOK, Memory, Rev, NoRev
    <3> QED BY <3>2, <3>3
  <2> QED BY <2>2, <2>3
<1>2. A \/ UNCHANGED vars => [A]_vars
  OBVIOUS
<1> QED BY <1>1, <1>2, InvHolds, PTL DEF Spec, RevisionsAdvance

\* A wake's command time is later than all this runtime sent.
THEOREM WakesAreNewest == Spec => WakeIsNewest
<1> DEFINE A == wakeTime' # wakeTime /\ wakeTime' # NoRev => wakeTime' > newest
<1>1. Inv /\ [Next]_vars => A
  <2> SUFFICES ASSUME Inv, [Next]_vars, wakeTime' # wakeTime, wakeTime' # NoRev
               PROVE  wakeTime' > newest
    OBVIOUS
  <2>1. \E arrives, raises \in BOOLEAN : WakePoll(arrives, raises)
    BY DEF Next, UploadStep, UploadAccepted, CommandStep, CommandSent,
           CommandRepeated, CommandWithdrawn, WriteFails, PollStep,
           SettingsEcho, ResetPoll, AutoPollInconsistent, AutoEcho,
           AutoPollBounds, ReportStep, SparseReport, FullReport, ReportLost, Lapse, ClockMoves, Restart, vars, cycle
  <2>2. wakeTime' = NextWakeTime
    BY <2>1 DEF WakePoll
  <2>3. newest <= mem.floor["settings"] \/ newest <= wakeTime
    BY DEF Inv, RevInv
  <2>4. newest \in Int /\ wakeTime \in Int /\ mem.floor["settings"] \in Int
    BY DEF Inv, TypeOK, Memory, Families, Rev, NoRev
  <2> QED BY <2>2, <2>3, <2>4, NextWakeLater
<1> QED BY <1>1, InvHolds, PTL DEF Spec, WakeIsNewest

\* A companion is kept exactly while a resynchronisation body was the last
\* thing sent that an Auto fetch will follow.
THEOREM CompanionsFollowBodies == Spec => []CompanionFollowsBody
<1>1. Init => CompanionFollowsBody
  BY DEF Init, CompanionFollowsBody
<1>2. CompanionFollowsBody /\ [Next]_vars => CompanionFollowsBody'
  <2> SUFFICES ASSUME CompanionFollowsBody, [Next]_vars
               PROVE  CompanionFollowsBody'
    OBVIOUS
  <2> USE DEF CompanionFollowsBody
  <2>1. CASE UNCHANGED <<companion, owed>>
    BY <2>1
  <2>2. CASE companion' = NoRev /\ owed' = FALSE
    BY <2>2
  <2>3. CASE companion' = mem.rev["auto"] /\ owed' = (mem.rev["auto"] # NoRev)
    BY <2>3
  <2>4. CASE CommandStep
    BY <2>1, <2>2, <2>4
       DEF CommandStep, CommandSent, CommandRepeated, CommandWithdrawn, cycle,
           sent
  <2>5. CASE PollStep
    BY <2>1, <2>2, <2>3, <2>5
       DEF PollStep, SettingsEcho, ResetPoll, WakePoll, ResyncPoll, AfterBody,
           Arm, AutoPollInconsistent, AutoEcho, AutoPollBounds, AfterAutoEcho,
           cycle
  <2>6. CASE \/ UploadStep \/ WriteFails \/ ReportStep \/ Lapse \/ ClockMoves
             \/ Restart \/ UNCHANGED vars
    BY <2>1, <2>2, <2>6
       DEF UploadStep, UploadAccepted, WriteFails, ReportStep, SparseReport,
           FullReport, ReportLost, Lapse, ClockMoves, Restart, vars, cycle,
           sent
  <2> QED BY <2>4, <2>5, <2>6 DEF Next
<1> QED BY <1>1, <1>2, PTL DEF Spec

=============================================================================
