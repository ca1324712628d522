--------------------------- MODULE EventLogProofs ---------------------------
(***************************************************************************)
(* Theorems about the event log for any number of writers, any policies    *)
(* and any history: what rotations, kills, retention, gc and readers that  *)
(* take no lock may do to the events, and to the marks joined from them.   *)
(***************************************************************************)
EXTENDS Feedback, FiniteSetTheorems, WellFoundedInduction, TLAPS

-----------------------------------------------------------------------------
(* Induction                                                                *)

LEMMA LeastNatural ==
    ASSUME NEW S \in SUBSET Nat, S # {}
    PROVE  \E x \in S : \A y \in S : x <= y
  <1> DEFINE R == OpToRel(<, Nat)
  <1>1. IsWellFoundedOn(R, Nat)
    BY NatLessThanWellFounded
  <1>2. \A x, y \in Nat : <<y, x>> \in R <=> y < x
    BY DEF OpToRel
  <1> HIDE DEF R
  <1>3. PICK x \in S : \A y \in S : ~(<<y, x>> \in R)
    BY <1>1, WFMin
  <1>4. \A y \in S : ~(y < x)
    BY <1>2, <1>3
  <1> QED
    BY <1>4

LEMMA Induction ==
    ASSUME NEW S \in SUBSET Nat, 0 \in S, \A n \in S : n + 1 \in S
    PROVE  S = Nat
  <1> SUFFICES ASSUME Nat \ S # {} PROVE FALSE
    OBVIOUS
  <1>1. PICK x \in Nat \ S : \A y \in Nat \ S : x <= y
    <2>1. (Nat \ S) \in SUBSET Nat
      OBVIOUS
    <2> QED
      BY <2>1, LeastNatural
  <1>2. x # 0 /\ x - 1 \in Nat /\ x - 1 < x
    BY <1>1
  <1>3. x - 1 \in S
    BY <1>1, <1>2
  <1> QED
    BY <1>1, <1>2, <1>3

-----------------------------------------------------------------------------
(* The lines of some kinds                                                  *)

\* What OfKinds says of the first n lines.
Filtered(f, log, kinds, m) ==
    f = [n \in 0..m |->
          IF n = 0 THEN <<>>
          ELSE IF log[n].what.kind \in kinds THEN Append(f[n - 1], log[n]) ELSE f[n - 1]]

LEMMA FilterExists ==
    ASSUME NEW log, NEW kinds, NEW m \in Nat
    PROVE  \E f : Filtered(f, log, kinds, m)
  <1> DEFINE S == {k \in Nat : \E f : Filtered(f, log, kinds, k)}
  <1>1. 0 \in S
    <2>1. Filtered([n \in 0..0 |-> <<>>], log, kinds, 0)
      BY DEF Filtered
    <2> QED
      BY <2>1
  <1>2. ASSUME NEW k \in S PROVE k + 1 \in S
    <2>1. PICK f : Filtered(f, log, kinds, k)
      OBVIOUS
    <2> DEFINE last == IF log[k + 1].what.kind \in kinds THEN Append(f[k], log[k + 1]) ELSE f[k]
               g == [n \in 0..k+1 |-> IF n = k + 1 THEN last ELSE f[n]]
    <2>2. ASSUME NEW n \in 0..k+1
          PROVE  g[n] = IF n = 0 THEN <<>>
                        ELSE IF log[n].what.kind \in kinds THEN Append(g[n - 1], log[n]) ELSE g[n - 1]
      <3>1. CASE n = k + 1
        <4>1. g[n] = last /\ g[n - 1] = f[k]
          BY <3>1
        <4> QED
          BY <3>1, <4>1
      <3>2. CASE n # k + 1 /\ n = 0
        <4>1. g[n] = f[0] /\ f[0] = <<>>
          BY <2>1, <3>2 DEF Filtered
        <4> QED
          BY <3>2, <4>1
      <3>3. CASE n # k + 1 /\ n # 0
        <4>1. g[n] = f[n] /\ g[n - 1] = f[n - 1] /\ n \in 0..k
          BY <3>3
        <4>2. f[n] = IF log[n].what.kind \in kinds THEN Append(f[n - 1], log[n]) ELSE f[n - 1]
          BY <2>1, <3>3, <4>1 DEF Filtered
        <4> QED
          BY <3>3, <4>1, <4>2
      <3> QED
        BY <3>1, <3>2, <3>3
    <2>3. Filtered(g, log, kinds, k + 1)
      BY <2>2 DEF Filtered
    <2> QED
      BY <2>3
  <1>3. S = Nat
    <2> HIDE DEF S
    <2>1. S \in SUBSET Nat
      BY DEF S
    <2> QED
      BY <1>1, <1>2, <2>1, Induction
  <1> QED
    BY <1>3

\* OfKinds reads its log from the front.
LEMMA OfKindsFilters ==
    ASSUME NEW log, NEW kinds, Len(log) \in Nat
    PROVE  \E f : Filtered(f, log, kinds, Len(log)) /\ OfKinds(log, kinds) = f[Len(log)]
  <1>1. \E f : Filtered(f, log, kinds, Len(log))
    BY FilterExists
  <1> DEFINE f == CHOOSE f : Filtered(f, log, kinds, Len(log))
  <1>2. Filtered(f, log, kinds, Len(log))
    BY <1>1
  <1>3. OfKinds(log, kinds) = f[Len(log)]
    BY DEF OfKinds, Filtered
  <1> QED
    BY <1>2, <1>3

\* The first n lines of a log gave out.
Selects(out, log, kinds, n, T) ==
    /\ out \in Seq(T)
    /\ Range(out) = {log[i] : i \in {j \in 1..n : log[j].what.kind \in kinds}}
    /\ \A i, j \in DOMAIN out : i < j =>
         \E a, b \in 1..n : a < b /\ log[a] = out[i] /\ log[b] = out[j]

LEMMA FilterStep ==
    ASSUME NEW T, NEW log \in Seq(T), NEW kinds, NEW n \in Nat, n + 1 <= Len(log), NEW out,
           Selects(out, log, kinds, n, T)
    PROVE  Selects(IF log[n + 1].what.kind \in kinds THEN Append(out, log[n + 1]) ELSE out,
                   log, kinds, n + 1, T)
  <1> DEFINE e == log[n + 1]
  <1>0. e \in T /\ out \in Seq(T) /\ 1..(n + 1) = 1..n \cup {n + 1}
    BY DEF Selects
  <1>1. CASE e.what.kind \in kinds
    <2> DEFINE new == Append(out, e)
    <2>1. /\ new \in Seq(T) /\ Len(out) \in Nat /\ DOMAIN out = 1..Len(out)
          /\ DOMAIN new = 1..(Len(out) + 1)
          /\ new[Len(out) + 1] = e /\ \A i \in 1..Len(out) : new[i] = out[i]
      BY <1>0
    <2>2. DOMAIN new = DOMAIN out \cup {Len(out) + 1}
      BY <2>1
    <2>3. Range(new) = Range(out) \cup {e}
      BY <2>1, <2>2 DEF Range
    <2>4. Range(new) = {log[i] : i \in {j \in 1..n+1 : log[j].what.kind \in kinds}}
      BY <1>0, <1>1, <2>3 DEF Selects
    <2>5. ASSUME NEW i \in DOMAIN new, NEW j \in DOMAIN new, i < j
          PROVE  \E a, b \in 1..n+1 : a < b /\ log[a] = new[i] /\ log[b] = new[j]
      <3>1. i \in 1..Len(out) /\ new[i] = out[i]
        BY <2>1, <2>5
      <3>2. CASE j = Len(out) + 1
        <4>1. out[i] \in Range(out)
          BY <2>1, <3>1 DEF Range
        <4>2. PICK a \in 1..n : log[a] = out[i]
          <5>1. Range(out) = {log[a] : a \in {b \in 1..n : log[b].what.kind \in kinds}}
            BY DEF Selects
          <5> QED
            BY <4>1, <5>1
        <4>3. a \in 1..(n+1) /\ n + 1 \in 1..(n+1) /\ a < n + 1
          BY <4>2
        <4> QED
          BY <2>1, <3>1, <3>2, <4>2, <4>3
      <3>3. CASE j # Len(out) + 1
        <4>1. j \in 1..Len(out) /\ new[j] = out[j]
          BY <2>1, <3>3
        <4>2. PICK a \in 1..n, b \in 1..n : a < b /\ log[a] = out[i] /\ log[b] = out[j]
          BY <2>1, <2>5, <3>1, <4>1 DEF Selects
        <4> QED
          BY <1>0, <3>1, <4>1, <4>2
      <3> QED
        BY <3>2, <3>3
    <2> HIDE DEF new
    <2>6. Selects(new, log, kinds, n + 1, T)
      BY <2>1, <2>4, <2>5 DEF Selects
    <2> QED
      BY <1>1, <2>6 DEF new
  <1>2. CASE e.what.kind \notin kinds
    BY <1>0, <1>2 DEF Selects
  <1> QED
    BY <1>1, <1>2

\* OfKinds keeps exactly the lines of those kinds, in order.
LEMMA OfKindsSelects ==
    ASSUME NEW T, NEW log \in Seq(T), NEW kinds
    PROVE  Selects(OfKinds(log, kinds), log, kinds, Len(log), T)
  <1>1. Len(log) \in Nat
    OBVIOUS
  <1>2. PICK f : Filtered(f, log, kinds, Len(log)) /\ OfKinds(log, kinds) = f[Len(log)]
    BY <1>1, OfKindsFilters
  <1> DEFINE S == {n \in Nat : n <= Len(log) => Selects(f[n], log, kinds, n, T)}
  <1>3. 0 \in S
    <2>1. f[0] = <<>>
      BY <1>1, <1>2 DEF Filtered
    <2>2. Selects(<<>>, log, kinds, 0, T)
      BY DEF Selects, Range
    <2> QED
      BY <2>1, <2>2
  <1>4. ASSUME NEW n \in S PROVE n + 1 \in S
    <2> SUFFICES ASSUME n + 1 <= Len(log) PROVE Selects(f[n + 1], log, kinds, n + 1, T)
      OBVIOUS
    <2>1. n \in Nat /\ n <= Len(log) /\ n + 1 \in 0..Len(log) /\ n + 1 # 0 /\ (n + 1) - 1 = n
      BY <1>1
    <2>2. f[n + 1] = IF log[n + 1].what.kind \in kinds THEN Append(f[n], log[n + 1]) ELSE f[n]
      BY <1>2, <2>1 DEF Filtered
    <2>3. Selects(f[n], log, kinds, n, T)
      BY <2>1
    <2> QED
      BY <2>1, <2>2, <2>3, FilterStep
  <1>5. S = Nat
    <2> HIDE DEF S
    <2>1. S \in SUBSET Nat
      BY DEF S
    <2> QED
      BY <1>3, <1>4, <2>1, Induction
  <1> QED
    BY <1>1, <1>2, <1>5

LEMMA OfKindsType ==
    ASSUME NEW T, NEW log \in Seq(T), NEW kinds
    PROVE  /\ OfKinds(log, kinds) \in Seq(T)
           /\ Range(OfKinds(log, kinds)) = {e \in Range(log) : e.what.kind \in kinds}
  <1>1. DOMAIN log = 1..Len(log)
    OBVIOUS
  <1>2. Selects(OfKinds(log, kinds), log, kinds, Len(log), T)
    BY OfKindsSelects
  <1>3. Range(log) = {log[i] : i \in 1..Len(log)}
    BY <1>1 DEF Range
  <1> QED
    BY <1>2, <1>3 DEF Selects

\* The lines kept of a longer log.
LEMMA OfKindsAppend ==
    ASSUME NEW T, NEW log \in Seq(T), NEW e \in T, NEW kinds
    PROVE  OfKinds(Append(log, e), kinds) =
             IF e.what.kind \in kinds THEN Append(OfKinds(log, kinds), e) ELSE OfKinds(log, kinds)
  <1> DEFINE more == Append(log, e)
             L == Len(log)
  <1>1. /\ L \in Nat /\ more \in Seq(T) /\ Len(more) = L + 1 /\ more[L + 1] = e
        /\ \A n \in 1..L : more[n] = log[n]
    OBVIOUS
  <1>2. PICK f : Filtered(f, log, kinds, L) /\ OfKinds(log, kinds) = f[L]
    BY <1>1, OfKindsFilters
  <1> HIDE DEF more
  <1>3. PICK g : Filtered(g, more, kinds, L + 1) /\ OfKinds(more, kinds) = g[L + 1]
    <2>1. Len(more) \in Nat
      BY <1>1
    <2>2. PICK g : Filtered(g, more, kinds, Len(more)) /\ OfKinds(more, kinds) = g[Len(more)]
      BY <2>1, OfKindsFilters
    <2> QED
      BY <1>1, <2>2
  <1> DEFINE S == {n \in Nat : n <= L => f[n] = g[n]}
  <1>4. 0 \in S
    BY <1>1, <1>2, <1>3 DEF Filtered
  <1>5. ASSUME NEW n \in S PROVE n + 1 \in S
    <2> SUFFICES ASSUME n + 1 <= L PROVE f[n + 1] = g[n + 1]
      OBVIOUS
    <2>1. /\ n \in Nat /\ n <= L /\ n + 1 \in 0..L /\ n + 1 \in 0..L+1 /\ n + 1 # 0
          /\ (n + 1) - 1 = n /\ n + 1 \in 1..L
      BY <1>1
    <2>2. f[n + 1] = IF log[n + 1].what.kind \in kinds THEN Append(f[n], log[n + 1]) ELSE f[n]
      BY <1>2, <2>1 DEF Filtered
    <2>3. g[n + 1] = IF more[n + 1].what.kind \in kinds THEN Append(g[n], more[n + 1]) ELSE g[n]
      BY <1>3, <2>1 DEF Filtered
    <2>4. f[n] = g[n]
      BY <2>1
    <2> QED
      BY <1>1, <2>1, <2>2, <2>3, <2>4
  <1>6. S = Nat
    <2> HIDE DEF S
    <2>1. S \in SUBSET Nat
      BY DEF S
    <2> QED
      BY <1>4, <1>5, <2>1, Induction
  <1>7. f[L] = g[L]
    BY <1>1, <1>6
  <1>8. g[L + 1] = IF e.what.kind \in kinds THEN Append(g[L], e) ELSE g[L]
    <2>1. L + 1 \in 0..L+1 /\ L + 1 # 0 /\ (L + 1) - 1 = L
      BY <1>1
    <2> QED
      BY <1>1, <1>3, <2>1 DEF Filtered
  <1> QED
    BY <1>2, <1>3, <1>7, <1>8 DEF more

\* A log of those kinds only is kept as it is.
LEMMA OfKindsAll ==
    ASSUME NEW T, NEW log \in Seq(T), NEW kinds, \A e \in Range(log) : e.what.kind \in kinds
    PROVE  OfKinds(log, kinds) = log
  <1> DEFINE L == Len(log)
  <1>1. L \in Nat /\ DOMAIN log = 1..L /\ \A n \in 1..L : log[n].what.kind \in kinds
    BY DEF Range
  <1>2. PICK f : Filtered(f, log, kinds, L) /\ OfKinds(log, kinds) = f[L]
    BY <1>1, OfKindsFilters
  <1> DEFINE S == {n \in Nat : n <= L => f[n] = SubSeq(log, 1, n)}
  <1>4. 0 \in S
    BY <1>1, <1>2 DEF Filtered
  <1>5. ASSUME NEW n \in S PROVE n + 1 \in S
    <2> SUFFICES ASSUME n + 1 <= L PROVE f[n + 1] = SubSeq(log, 1, n + 1)
      OBVIOUS
    <2>1. /\ n \in Nat /\ n <= L /\ n + 1 \in 0..L /\ n + 1 # 0
          /\ (n + 1) - 1 = n /\ n + 1 \in 1..L
      BY <1>1
    <2>2. f[n + 1] = Append(f[n], log[n + 1])
      BY <1>1, <1>2, <2>1 DEF Filtered
    <2>3. f[n] = SubSeq(log, 1, n)
      BY <2>1
    <2>4. Append(SubSeq(log, 1, n), log[n + 1]) = SubSeq(log, 1, n + 1)
      BY <2>1
    <2> QED
      BY <2>2, <2>3, <2>4
  <1>6. S = Nat
    <2> HIDE DEF S
    <2>1. S \in SUBSET Nat
      BY DEF S
    <2> QED
      BY <1>4, <1>5, <2>1, Induction
  <1>7. SubSeq(log, 1, L) = log
    OBVIOUS
  <1> QED
    BY <1>1, <1>2, <1>6, <1>7

-----------------------------------------------------------------------------
(* The inductive invariant                                                  *)

EventsOf(st) == [ts : 1..st.maxEvents, what : st.contents]

FilesOf(st) == [stamp : Nat \ {0}, body : Seq(EventsOf(st)), gz : BOOLEAN, tmp : BOOLEAN]

Holding == {"rotate", "copied", "moved", "retain", "append"}

WritersOf(st) ==
    [pc : {"idle", "waiting"} \cup Holding, event : EventsOf(st) \cup {<<>>},
     rest : Seq(EventsOf(st))]

ReadersOf(st) ==
    [pc : {"idle", "segments", "answers", "done", "failed"},
     todo : SUBSET [stamp : Nat \ {0}, tmp : BOOLEAN], answers : Seq(EventsOf(st)),
     outcomes : Seq(EventsOf(st)), due : SUBSET EventsOf(st), moved : SUBSET EventsOf(st),
     seen : Nat]

Types ==
    /\ setting \in Settings
    /\ active \in Seq(EventsOf(setting)) /\ recorded \in Seq(EventsOf(setting))
    /\ segments \in SUBSET FilesOf(setting) /\ IsFiniteSet(segments)
    /\ lock \in Writers \cup {Nobody}
    /\ writer \in [Writers -> WritersOf(setting)]
    /\ reader \in ReadersOf(setting)
    /\ doomed \in SUBSET (Nat \ {0})
    /\ created \in 0..setting.maxEvents /\ rotations \in Nat
    /\ dropped \in SUBSET EventsOf(setting)

\* No two events have the same stamp, those not yet written included.
Unique(st, rec, ws, n) ==
    /\ \A i, j \in DOMAIN rec : rec[i].ts = rec[j].ts => i = j
    /\ \A i \in DOMAIN rec : rec[i].ts <= n
    /\ \A w \in Writers : ws[w].pc # "idle" =>
         /\ ws[w].event \in EventsOf(st) /\ ws[w].event.ts <= n
         /\ \A i \in DOMAIN rec : rec[i].ts # ws[w].event.ts
         /\ \A v \in Writers : ws[v].pc # "idle" /\ ws[v].event.ts = ws[w].event.ts => v = w

\* z was recorded after a.
Later(a, z, rec) == \E x, y \in DOMAIN rec : x < y /\ rec[x] = a /\ rec[y] = z

\* The lines of s were recorded, in that order.
InOrder(s, rec) ==
    /\ Range(s) \subseteq Range(rec)
    /\ \A i, j \in DOMAIN s : i < j => Later(s[i], s[j], rec)

\* A finished segment newer than stamp has e.
HasNewer(e, stamp, segs) ==
    \E h \in segs : ~h.tmp /\ stamp < h.stamp /\ e \in Range(h.body)

\* Of the answers recorded after a line that a file has, each is in that file too
\* or in a newer one.
FileIsSound(f, act, segs, rec) ==
    /\ InOrder(f.body, rec)
    /\ \A e \in Range(f.body) : IsRotatedKind(e)
    /\ f.tmp => \A e \in Range(f.body) : e \in Range(act) \/ HasNewer(e, f.stamp, segs)
    /\ \A a \in Range(f.body), z \in Range(rec) :
         IsRotatedKind(z) /\ Later(a, z, rec) =>
           z \in Range(f.body) \/ z \in Range(act) \/ HasNewer(z, f.stamp, segs)

FilesAreSound(act, segs, rec, gone) ==
    /\ InOrder(act, rec)
    /\ \A a \in Range(act), z \in Range(rec) :
         IsRotatedKind(a) /\ IsRotatedKind(z) /\ Later(a, z, rec) => z \in Range(act)
    /\ \A f, g \in segs : f.stamp = g.stamp => f = g
    /\ \A f \in segs : FileIsSound(f, act, segs, rec)
    /\ Range(rec) \subseteq Range(act) \cup gone \cup Lines({f \in segs : ~f.tmp})
    /\ OtherLines(act) = OtherLines(rec)

\* The lock is exclusive, the rotation in progress has its files, and what gc is
\* about to remove is older than all else.
Discipline ==
    /\ \A w \in Writers : writer[w].pc \in Holding <=> lock = w
    /\ \A w \in Writers : writer[w].pc \in {"copied", "moved"} =>
         /\ writer[w].rest = OtherLines(active)
         /\ RotatedLines(active) # <<>>
         /\ rotations \notin doomed
         /\ \E f \in segments : /\ f.stamp = rotations /\ f.body = RotatedLines(active)
                                /\ writer[w].pc = "moved" => ~f.tmp
    /\ \A f \in segments : f.stamp <= rotations
    /\ \A d \in doomed : d <= rotations
    /\ \A f \in segments : f.stamp \notin doomed => \A d \in doomed : d < f.stamp

\* The reader will still get e from a listed file newer than stamp, or fail.
Pending(e, stamp, todo, segs) ==
    \E n \in todo : /\ ~n.tmp /\ stamp < n.stamp
                    /\ \A f \in segs : f.stamp = n.stamp => e \in Range(f.body)

\* What is left to read makes good for what was not seen: of any two answers to
\* come, and of any one that was read, the later is read after the earlier.
ListingIsSound(rd, act, segs, rec, gone) ==
    /\ \A z \in Range(rec) : IsRotatedKind(z) =>
         z \in gone \/ z \in Range(rd.answers) \/ z \in Range(act) \/ Pending(z, 0, rd.todo, segs)
    /\ \A i \in DOMAIN rd.answers, z \in Range(rec) :
         IsRotatedKind(z) /\ Later(rd.answers[i], z, rec) =>
           \/ \E j \in DOMAIN rd.answers : i < j /\ rd.answers[j] = z
           \/ z \in Range(act) \/ Pending(z, 0, rd.todo, segs)
    /\ \A n \in rd.todo, f \in segs : f.stamp = n.stamp =>
         /\ \A a \in Range(f.body), z \in Range(rec) :
              IsRotatedKind(z) /\ Later(a, z, rec) =>
                z \in Range(f.body) \/ z \in Range(act) \/ Pending(z, n.stamp, rd.todo, segs)
         /\ n.tmp => \A z \in Range(f.body) :
              z \in Range(act) \/ Pending(z, n.stamp, rd.todo, segs)

\* The reader while it reads segments.
ReadingIsSound(rd, act, segs, rec, gone) ==
    /\ \A e \in rd.due : IsRotatedKind(e)
    /\ \A e \in Range(rd.answers) : IsRotatedKind(e) /\ e \in Range(rec)
    /\ \A n, m \in rd.todo : n.stamp = m.stamp => n = m
    /\ \A e \in rd.due : e \in Range(rd.answers) \/ e \in rd.moved \/ e \in Range(act)
                          \/ Pending(e, 0, rd.todo, segs)
    /\ rd.moved = {} => ListingIsSound(rd, act, segs, rec, gone)

\* The reader once it has the answers.
ReadIsSound(rd, rec, gone) ==
    /\ rd.seen <= Len(rec)
    /\ \A e \in Range(rd.answers) : IsRotatedKind(e) /\ e \in Range(SubSeq(rec, 1, rd.seen))
    /\ rd.due \subseteq Range(rd.answers) \cup rd.moved
    /\ rd.moved = {} =>
         /\ \A z \in Range(SubSeq(rec, 1, rd.seen)) : IsRotatedKind(z) =>
              z \in gone \/ z \in Range(rd.answers)
         /\ \A i \in DOMAIN rd.answers, z \in Range(SubSeq(rec, 1, rd.seen)) :
              IsRotatedKind(z) /\ Later(rd.answers[i], z, SubSeq(rec, 1, rd.seen)) =>
                \E j \in DOMAIN rd.answers : i < j /\ rd.answers[j] = z

ReaderInv ==
    /\ reader.pc = "segments" =>
         /\ \A n \in reader.todo : n.stamp <= rotations
         /\ ReadingIsSound(reader, active, segments, recorded, dropped)
    /\ reader.pc \in {"answers", "done"} => ReadIsSound(reader, recorded, dropped)
    /\ reader.pc \notin {"answers", "done"} => reader.seen = 0

LogInv ==
    /\ Types
    /\ Unique(setting, recorded, writer, created)
    /\ FilesAreSound(active, segments, recorded, dropped)
    /\ Discipline
    /\ ReaderInv

-----------------------------------------------------------------------------
(* Lines and their order                                                    *)

LEMMA RangeAppend ==
    ASSUME NEW T, NEW s \in Seq(T), NEW e
    PROVE  /\ Range(Append(s, e)) = Range(s) \cup {e}
           /\ DOMAIN s = 1..Len(s) /\ DOMAIN Append(s, e) = 1..(Len(s) + 1)
           /\ Append(s, e)[Len(s) + 1] = e /\ \A i \in DOMAIN s : Append(s, e)[i] = s[i]
  <1>1. /\ Len(s) \in Nat /\ DOMAIN s = 1..Len(s) /\ DOMAIN Append(s, e) = 1..(Len(s) + 1)
        /\ Append(s, e)[Len(s) + 1] = e /\ \A i \in DOMAIN s : Append(s, e)[i] = s[i]
    OBVIOUS
  <1>2. 1..(Len(s) + 1) = (1..Len(s)) \cup {Len(s) + 1}
    BY <1>1
  <1> QED
    BY <1>1, <1>2 DEF Range

LEMMA LaterAppend ==
    ASSUME NEW T, NEW rec \in Seq(T), NEW e, NEW a, NEW z
    PROVE  /\ Later(a, z, rec) => Later(a, z, Append(rec, e))
           /\ Later(a, z, Append(rec, e)) => Later(a, z, rec) \/ z = e
           /\ a \in Range(rec) => Later(a, e, Append(rec, e))
  <1> DEFINE more == Append(rec, e)
  <1>1. /\ Len(rec) \in Nat /\ DOMAIN rec = 1..Len(rec) /\ DOMAIN more = 1..(Len(rec) + 1)
        /\ more[Len(rec) + 1] = e /\ \A i \in DOMAIN rec : more[i] = rec[i]
    OBVIOUS
  <1> HIDE DEF more
  <1>2. Later(a, z, rec) => Later(a, z, more)
    BY <1>1 DEF Later
  <1>3. ASSUME Later(a, z, more), z # e PROVE Later(a, z, rec)
    <2>1. PICK x \in DOMAIN more, y \in DOMAIN more : x < y /\ more[x] = a /\ more[y] = z
      BY <1>3 DEF Later
    <2>2. y \in DOMAIN rec /\ x \in DOMAIN rec
      BY <1>1, <1>3, <2>1
    <2> QED
      BY <1>1, <2>1, <2>2 DEF Later
  <1>4. ASSUME a \in Range(rec) PROVE Later(a, e, more)
    <2>1. PICK x \in DOMAIN rec : rec[x] = a
      BY <1>4 DEF Range
    <2>2. x \in DOMAIN more /\ Len(rec) + 1 \in DOMAIN more /\ x < Len(rec) + 1 /\ more[x] = a
      BY <1>1, <2>1
    <2> QED
      BY <1>1, <2>2 DEF Later
  <1> QED
    BY <1>2, <1>3, <1>4 DEF more

LEMMA LaterIsRecorded ==
    ASSUME NEW rec, NEW a, NEW z, Later(a, z, rec)
    PROVE  a \in Range(rec) /\ z \in Range(rec)
  BY DEF Later, Range

LEMMA InOrderAppend ==
    ASSUME NEW T, NEW rec \in Seq(T), NEW e, NEW s \in Seq(T), InOrder(s, rec)
    PROVE  InOrder(s, Append(rec, e)) /\ InOrder(Append(s, e), Append(rec, e))
  <1>1. Range(Append(rec, e)) = Range(rec) \cup {e}
    BY RangeAppend
  <1>2. InOrder(s, Append(rec, e))
    BY <1>1, LaterAppend DEF InOrder
  <1> DEFINE more == Append(s, e)
             now == Append(rec, e)
  <1>3. /\ Range(more) = Range(s) \cup {e} /\ DOMAIN s = 1..Len(s) /\ Len(s) \in Nat
        /\ DOMAIN more = 1..(Len(s) + 1)
        /\ more[Len(s) + 1] = e /\ \A i \in DOMAIN s : more[i] = s[i]
    BY RangeAppend
  <1>4. \A a \in Range(rec) : Later(a, e, now)
    BY LaterAppend
  <1> HIDE DEF more, now
  <1>5. ASSUME NEW i \in DOMAIN more, NEW j \in DOMAIN more, i < j
        PROVE  Later(more[i], more[j], now)
    <2>1. i \in DOMAIN s /\ more[i] = s[i]
      BY <1>3, <1>5
    <2>2. CASE j \in DOMAIN s
      BY <1>2, <1>3, <1>5, <2>1, <2>2 DEF InOrder, now
    <2>3. CASE j = Len(s) + 1
      <3>1. s[i] \in Range(rec)
        BY <2>1 DEF InOrder, Range
      <3> QED
        BY <1>3, <1>4, <2>1, <2>3, <3>1
    <2> QED
      BY <1>3, <2>2, <2>3
  <1> QED
    BY <1>1, <1>2, <1>3, <1>5 DEF InOrder, more, now

LEMMA InOrderOfKinds ==
    ASSUME NEW T, NEW s \in Seq(T), NEW rec, InOrder(s, rec), NEW kinds
    PROVE  InOrder(OfKinds(s, kinds), rec)
  <1> DEFINE out == OfKinds(s, kinds)
  <1>1. Selects(out, s, kinds, Len(s), T) /\ Range(out) \subseteq Range(s)
    BY OfKindsSelects, OfKindsType
  <1>2. DOMAIN s = 1..Len(s)
    OBVIOUS
  <1> HIDE DEF out
  <1>3. ASSUME NEW i \in DOMAIN out, NEW j \in DOMAIN out, i < j
        PROVE  Later(out[i], out[j], rec)
    <2>1. PICK a \in DOMAIN s, b \in DOMAIN s : a < b /\ s[a] = out[i] /\ s[b] = out[j]
      BY <1>1, <1>2, <1>3, SMTT(60) DEF Selects
    <2> QED
      BY <2>1 DEF InOrder
  <1> QED
    BY <1>1, <1>3 DEF InOrder, out

\* The two halves of a log.
LEMMA Halves ==
    ASSUME NEW st \in Settings, NEW s \in Seq(EventsOf(st))
    PROVE  /\ RotatedLines(s) \in Seq(EventsOf(st)) /\ OtherLines(s) \in Seq(EventsOf(st))
           /\ Range(RotatedLines(s)) = {e \in Range(s) : IsRotatedKind(e)}
           /\ Range(OtherLines(s)) = {e \in Range(s) : ~IsRotatedKind(e)}
           /\ OtherLines(OtherLines(s)) = OtherLines(s)
           /\ \A rec : InOrder(s, rec) => InOrder(RotatedLines(s), rec) /\ InOrder(OtherLines(s), rec)
  <1> DEFINE T == EventsOf(st)
             K == EventKinds \ {"served_answer"}
  <1>1. \A e \in Range(s) : e \in T
    BY DEF Range
  <1>2. \A e \in T : e.what.kind \in EventKinds
    BY EventLogAssumption DEF EventsOf
  <1> HIDE DEF T
  <1>3. s \in Seq(T)
    BY DEF T
  <1>4. /\ RotatedLines(s) \in Seq(T)
        /\ Range(RotatedLines(s)) = {e \in Range(s) : e.what.kind \in {"served_answer"}}
    BY <1>3, OfKindsType DEF RotatedLines
  <1>5. OtherLines(s) \in Seq(T) /\ Range(OtherLines(s)) = {e \in Range(s) : e.what.kind \in K}
    BY <1>3, OfKindsType DEF OtherLines
  <1>6. OfKinds(OtherLines(s), K) = OtherLines(s)
    BY <1>5, OfKindsAll
  <1>7. \A rec : InOrder(s, rec) => InOrder(RotatedLines(s), rec) /\ InOrder(OtherLines(s), rec)
    BY <1>3, InOrderOfKinds DEF RotatedLines, OtherLines
  <1>8. Range(OtherLines(s)) = {e \in Range(s) : ~IsRotatedKind(e)}
    BY <1>1, <1>2, <1>5 DEF IsRotatedKind
  <1>9. Range(RotatedLines(s)) = {e \in Range(s) : IsRotatedKind(e)}
    BY <1>4 DEF IsRotatedKind
  <1> QED
    BY <1>4, <1>5, <1>6, <1>7, <1>8, <1>9 DEF OtherLines, T

-----------------------------------------------------------------------------
(* The files                                                                *)

\* A rotation copies the answers out.
LEMMA CopyKeepsFiles ==
    ASSUME NEW st \in Settings, NEW act \in Seq(EventsOf(st)), NEW segs, NEW rec, NEW gone,
           FilesAreSound(act, segs, rec, gone),
           NEW f, f.tmp, f.body = RotatedLines(act), \A g \in segs : g.stamp < f.stamp /\ g.stamp \in Nat
    PROVE  FilesAreSound(act, segs \cup {f}, rec, gone)
  <1> DEFINE all == segs \cup {f}
  <1>1. /\ Range(f.body) = {e \in Range(act) : IsRotatedKind(e)}
        /\ InOrder(f.body, rec)
    BY Halves DEF FilesAreSound
  <1>2. FileIsSound(f, act, all, rec)
    BY <1>1 DEF FilesAreSound, FileIsSound
  <1>3. \A e, stamp : HasNewer(e, stamp, segs) => HasNewer(e, stamp, all)
    BY DEF HasNewer
  <1>4. \A g \in segs : FileIsSound(g, act, all, rec)
    BY <1>3 DEF FilesAreSound, FileIsSound
  <1>5. \A g, h \in all : g.stamp = h.stamp => g = h
    BY DEF FilesAreSound
  <1>6. Lines({g \in all : ~g.tmp}) = Lines({g \in segs : ~g.tmp})
    BY DEF Lines
  <1> QED
    BY <1>2, <1>4, <1>5, <1>6 DEF FilesAreSound

\* The segment gets its final name.
Renamed(segs, stamp) == {IF f.stamp = stamp THEN [f EXCEPT !.tmp = FALSE] ELSE f : f \in segs}

LEMMA RenamedFields ==
    ASSUME NEW st, NEW segs \in SUBSET FilesOf(st), NEW stamp
    PROVE  /\ Renamed(segs, stamp) \in SUBSET FilesOf(st)
           /\ \A g \in Renamed(segs, stamp) : \E f \in segs :
                g.stamp = f.stamp /\ g.body = f.body /\ (g.tmp => f.tmp)
                  /\ (f.stamp = stamp => ~g.tmp) /\ (f.stamp # stamp => g = f)
           /\ \A f \in segs : \E g \in Renamed(segs, stamp) :
                g.stamp = f.stamp /\ g.body = f.body /\ (g.tmp => f.tmp)
                  /\ (f.stamp = stamp => ~g.tmp) /\ (f.stamp # stamp => g = f)
  <1> DEFINE new(f) == IF f.stamp = stamp THEN [f EXCEPT !.tmp = FALSE] ELSE f
  <1>1. ASSUME NEW f \in segs
        PROVE  /\ new(f) \in FilesOf(st)
               /\ new(f).stamp = f.stamp /\ new(f).body = f.body /\ (new(f).tmp => f.tmp)
               /\ (f.stamp = stamp => ~new(f).tmp) /\ (f.stamp # stamp => new(f) = f)
    <2>1. f \in FilesOf(st)
      OBVIOUS
    <2>2. CASE f.stamp = stamp
      BY <2>1, <2>2 DEF FilesOf
    <2>3. CASE f.stamp # stamp
      BY <2>1, <2>3
    <2> QED
      BY <2>2, <2>3
  <1>2. Renamed(segs, stamp) = {new(f) : f \in segs}
    BY DEF Renamed
  <1> HIDE DEF new
  <1> QED
    BY <1>1, <1>2

LEMMA RenameKeepsFiles ==
    ASSUME NEW st, NEW segs \in SUBSET FilesOf(st), NEW act, NEW rec, NEW gone, NEW stamp,
           FilesAreSound(act, segs, rec, gone)
    PROVE  FilesAreSound(act, Renamed(segs, stamp), rec, gone)
  <1> DEFINE now == Renamed(segs, stamp)
  <1>1. /\ \A g \in now : \E f \in segs :
             g.stamp = f.stamp /\ g.body = f.body /\ (g.tmp => f.tmp)
               /\ (f.stamp = stamp => ~g.tmp) /\ (f.stamp # stamp => g = f)
        /\ \A f \in segs : \E g \in now :
             g.stamp = f.stamp /\ g.body = f.body /\ (g.tmp => f.tmp)
    BY RenamedFields
  <1>2. \A g, h \in now : g.stamp = h.stamp => g = h
    <2> SUFFICES ASSUME NEW g \in now, NEW h \in now, g.stamp = h.stamp PROVE g = h
      OBVIOUS
    <2>1. PICK f \in segs, k \in segs :
            /\ g = IF f.stamp = stamp THEN [f EXCEPT !.tmp = FALSE] ELSE f
            /\ h = IF k.stamp = stamp THEN [k EXCEPT !.tmp = FALSE] ELSE k
      BY DEF Renamed
    <2>2. f \in FilesOf(st) /\ k \in FilesOf(st)
      OBVIOUS
    <2>3. f.stamp = g.stamp /\ k.stamp = h.stamp
      BY <2>1, <2>2 DEF FilesOf
    <2>4. f = k
      BY <2>3 DEF FilesAreSound
    <2> QED
      BY <2>1, <2>4
  <1> HIDE DEF now
  <1>3. ASSUME NEW e, NEW after, HasNewer(e, after, segs) PROVE HasNewer(e, after, now)
    BY <1>1, <1>3 DEF HasNewer
  <1>4. ASSUME NEW g \in now PROVE FileIsSound(g, act, now, rec)
    <2>1. PICK f \in segs : g.stamp = f.stamp /\ g.body = f.body /\ (g.tmp => f.tmp)
      BY <1>1
    <2>2. FileIsSound(f, act, segs, rec)
      BY DEF FilesAreSound
    <2> QED
      BY <1>3, <2>1, <2>2 DEF FileIsSound
  <1>5. Lines({g \in segs : ~g.tmp}) \subseteq Lines({g \in now : ~g.tmp})
    BY <1>1 DEF Lines
  <1> QED
    BY <1>2, <1>4, <1>5 DEF FilesAreSound, now

\* The active file keeps the other kinds.
LEMMA ReplaceKeepsFiles ==
    ASSUME NEW st \in Settings, NEW act \in Seq(EventsOf(st)), NEW segs \in SUBSET FilesOf(st),
           NEW rec, NEW gone, FilesAreSound(act, segs, rec, gone),
           NEW f \in segs, ~f.tmp, f.body = RotatedLines(act), \A g \in segs : g.stamp <= f.stamp
    PROVE  FilesAreSound(OtherLines(act), segs, rec, gone)
  <1> DEFINE rest == OtherLines(act)
  <1>1. /\ Range(f.body) = {e \in Range(act) : IsRotatedKind(e)}
        /\ Range(rest) = {e \in Range(act) : ~IsRotatedKind(e)}
        /\ OtherLines(rest) = rest
        /\ InOrder(rest, rec)
    BY Halves DEF FilesAreSound
  <1> HIDE DEF rest
  <1>2. \A e \in Range(act) : IsRotatedKind(e) => e \in Range(f.body)
    BY <1>1
  <1>3. ASSUME NEW g \in segs, g # f PROVE g.stamp < f.stamp
    <2>1. g.stamp \in Nat /\ f.stamp \in Nat /\ g.stamp <= f.stamp
      BY DEF FilesOf
    <2>2. g.stamp # f.stamp
      BY <1>3 DEF FilesAreSound
    <2> QED
      BY <2>1, <2>2
  <1>4. ASSUME NEW g \in segs PROVE FileIsSound(g, rest, segs, rec)
    <2>1. FileIsSound(g, act, segs, rec)
      BY DEF FilesAreSound
    <2>2. CASE g = f
      BY <1>2, <2>1, <2>2 DEF FileIsSound
    <2>3. CASE g # f
      <3>1. \A e \in Range(act) : IsRotatedKind(e) => HasNewer(e, g.stamp, segs)
        BY <1>2, <1>3, <2>3 DEF HasNewer
      <3> QED
        BY <2>1, <3>1 DEF FileIsSound
    <2> QED
      BY <2>2, <2>3
  <1>5. Range(act) \subseteq Range(rest) \cup Lines({g \in segs : ~g.tmp})
    BY <1>1 DEF Lines
  <1> QED
    BY <1>1, <1>4, <1>5 DEF FilesAreSound, rest

\* The oldest files are removed.
LEMMA UnlinkKeepsFiles ==
    ASSUME NEW st, NEW act, NEW segs \in SUBSET FilesOf(st), NEW rec, NEW gone, NEW stamps,
           FilesAreSound(act, segs, rec, gone), NEW keep, NEW now,
           keep = {f \in segs : f.stamp \notin stamps},
           \A f \in keep, g \in segs \ keep : g.stamp < f.stamp,
           now = gone \cup (Lines(segs \ keep) \ (Range(act) \cup Lines(keep)))
    PROVE  FilesAreSound(act, keep, rec, now)
  <1>1. ASSUME NEW e, NEW f \in keep, HasNewer(e, f.stamp, segs)
        PROVE  HasNewer(e, f.stamp, keep)
    <2>1. PICK h \in segs : ~h.tmp /\ f.stamp < h.stamp /\ e \in Range(h.body)
      BY <1>1 DEF HasNewer
    <2>2. f.stamp \in Nat /\ h.stamp \in Nat
      BY DEF FilesOf
    <2>3. h \in keep
      BY <2>1, <2>2
    <2> QED
      BY <2>1, <2>3 DEF HasNewer
  <1>2. ASSUME NEW f \in keep PROVE FileIsSound(f, act, keep, rec)
    <2>1. FileIsSound(f, act, segs, rec)
      BY DEF FilesAreSound
    <2> QED
      BY <1>1, <2>1 DEF FileIsSound
  <1>3. ASSUME NEW e \in Range(rec)
        PROVE  e \in Range(act) \/ e \in now \/ e \in Lines({f \in keep : ~f.tmp})
    <2>1. CASE e \in Range(act) \/ e \in gone
      BY <2>1
    <2>2. CASE e \in Lines({f \in segs : ~f.tmp}) /\ e \notin Range(act)
      <3>1. PICK f \in segs : ~f.tmp /\ e \in Range(f.body)
        BY <2>2 DEF Lines
      <3>2. CASE f \in keep
        BY <3>1, <3>2 DEF Lines
      <3>3. CASE f \notin keep /\ e \notin Lines(keep)
        <4>1. e \in Lines(segs \ keep)
          BY <3>1, <3>3 DEF Lines
        <4> QED
          BY <2>2, <3>3, <4>1
      <3>4. CASE f \notin keep /\ e \in Lines(keep)
        <4>1. PICK g \in keep : e \in Range(g.body)
          BY <3>4 DEF Lines
        <4>2. CASE ~g.tmp
          BY <4>1, <4>2 DEF Lines
        <4>3. CASE g.tmp
          <5>1. HasNewer(e, g.stamp, keep)
            BY <1>2, <2>2, <4>1, <4>3 DEF FileIsSound
          <5> QED
            BY <5>1 DEF HasNewer, Lines
        <4> QED
          BY <4>2, <4>3
      <3> QED
        BY <3>2, <3>3, <3>4
    <2> QED
      BY <2>1, <2>2 DEF FilesAreSound
  <1> QED
    BY <1>2, <1>3 DEF FilesAreSound

\* A line is written.
LEMMA AppendKeepsFiles ==
    ASSUME NEW st \in Settings, NEW act \in Seq(EventsOf(st)), NEW segs,
           NEW rec \in Seq(EventsOf(st)), NEW gone, FilesAreSound(act, segs, rec, gone),
           NEW e \in EventsOf(st), e \notin Range(rec), \A f \in segs : f.body \in Seq(EventsOf(st))
    PROVE  FilesAreSound(Append(act, e), segs, Append(rec, e), gone)
  <1> DEFINE T == EventsOf(st)
             now == Append(act, e)
             more == Append(rec, e)
  <1> HIDE DEF T
  <1>1. act \in Seq(T) /\ rec \in Seq(T) /\ e \in T /\ \A f \in segs : f.body \in Seq(T)
    BY DEF T
  <1>2. Range(now) = Range(act) \cup {e} /\ Range(more) = Range(rec) \cup {e}
    BY <1>1, RangeAppend
  <1>3. InOrder(now, more)
    BY <1>1, InOrderAppend DEF FilesAreSound
  <1>4. \A a, z : Later(a, z, more) => Later(a, z, rec) \/ z = e
    BY <1>1, LaterAppend
  <1>5. \A f \in segs : InOrder(f.body, more)
    BY <1>1, InOrderAppend DEF FilesAreSound, FileIsSound
  <1>6. OtherLines(now) = OtherLines(more)
    <2> DEFINE K == EventKinds \ {"served_answer"}
    <2>1. OfKinds(now, K) = IF e.what.kind \in K THEN Append(OfKinds(act, K), e) ELSE OfKinds(act, K)
      BY <1>1, OfKindsAppend
    <2>2. OfKinds(more, K) = IF e.what.kind \in K THEN Append(OfKinds(rec, K), e) ELSE OfKinds(rec, K)
      BY <1>1, OfKindsAppend
    <2>3. OfKinds(act, K) = OfKinds(rec, K)
      BY DEF FilesAreSound, OtherLines
    <2> QED
      BY <2>1, <2>2, <2>3, SMTT(60) DEF OtherLines
  <1> HIDE DEF now, more
  <1>7. ASSUME NEW a \in Range(now), NEW z \in Range(more),
               IsRotatedKind(a), IsRotatedKind(z), Later(a, z, more)
        PROVE  z \in Range(now)
    <2> SUFFICES ASSUME z # e PROVE z \in Range(now)
      BY <1>2
    <2>1. Later(a, z, rec)
      BY <1>4, <1>7
    <2>2. a \in Range(rec) /\ z \in Range(rec)
      BY <2>1, LaterIsRecorded
    <2>3. a \in Range(act)
      BY <1>2, <2>2
    <2>4. z \in Range(act)
      BY <1>7, <2>1, <2>2, <2>3 DEF FilesAreSound
    <2> QED
      BY <1>2, <2>4
  <1>8. ASSUME NEW f \in segs PROVE FileIsSound(f, now, segs, more)
    <2>1. FileIsSound(f, act, segs, rec)
      BY DEF FilesAreSound
    <2>2. ASSUME NEW a \in Range(f.body), NEW z \in Range(more), IsRotatedKind(z), Later(a, z, more)
          PROVE  z \in Range(f.body) \/ z \in Range(now) \/ HasNewer(z, f.stamp, segs)
      <3> SUFFICES ASSUME z # e PROVE z \in Range(f.body) \/ z \in Range(now) \/ HasNewer(z, f.stamp, segs)
        BY <1>2
      <3>1. Later(a, z, rec)
        BY <1>4, <2>2
      <3>2. z \in Range(rec)
        BY <3>1, LaterIsRecorded
      <3> QED
        BY <1>2, <2>1, <2>2, <3>1, <3>2 DEF FileIsSound
    <2> QED
      BY <1>2, <1>5, <2>1, <2>2 DEF FileIsSound
  <1> QED
    BY <1>2, <1>3, <1>6, <1>7, <1>8 DEF FilesAreSound, now, more

-----------------------------------------------------------------------------
(* A reader, while others write                                             *)

\* The listed files keep their lines, and nothing leaves the active file.
LEMMA ReadingGoesOn ==
    ASSUME NEW rd, NEW act, NEW segs, NEW rec, NEW gone, ReadingIsSound(rd, act, segs, rec, gone),
           NEW act2, NEW segs2, NEW rec2, NEW gone2,
           \A n \in rd.todo, g \in segs2 : g.stamp = n.stamp =>
             \E f \in segs : f.stamp = n.stamp /\ f.body = g.body,
           Range(act) \subseteq Range(act2), gone \subseteq gone2, Range(rec) \subseteq Range(rec2),
           \A z \in Range(rec2) : z \in Range(rec) \/ z \in Range(act2),
           \A a, z : Later(a, z, rec2) => Later(a, z, rec) \/ z \in Range(act2)
    PROVE  ReadingIsSound(rd, act2, segs2, rec2, gone2)
  <1>1. ASSUME NEW e, NEW stamp, Pending(e, stamp, rd.todo, segs)
        PROVE  Pending(e, stamp, rd.todo, segs2)
    <2>1. PICK n \in rd.todo : /\ ~n.tmp /\ stamp < n.stamp
                               /\ \A f \in segs : f.stamp = n.stamp => e \in Range(f.body)
      BY <1>1 DEF Pending
    <2>2. \A g \in segs2 : g.stamp = n.stamp => e \in Range(g.body)
      BY <2>1
    <2> QED
      BY <2>1, <2>2 DEF Pending
  <1>2. \A a, z : Later(a, z, rec) => z \in Range(rec)
    BY LaterIsRecorded
  <1>3. ASSUME rd.moved = {} PROVE ListingIsSound(rd, act2, segs2, rec2, gone2)
    <2>1. ListingIsSound(rd, act, segs, rec, gone)
      BY <1>3 DEF ReadingIsSound
    <2>2. ASSUME NEW z \in Range(rec2), IsRotatedKind(z)
          PROVE  \/ z \in gone2 \/ z \in Range(rd.answers) \/ z \in Range(act2)
                 \/ Pending(z, 0, rd.todo, segs2)
      BY <1>1, <2>1, <2>2 DEF ListingIsSound
    <2>3. ASSUME NEW i \in DOMAIN rd.answers, NEW z \in Range(rec2), IsRotatedKind(z),
                 Later(rd.answers[i], z, rec2)
          PROVE  \/ \E j \in DOMAIN rd.answers : i < j /\ rd.answers[j] = z
                 \/ z \in Range(act2) \/ Pending(z, 0, rd.todo, segs2)
      <3>1. CASE z \in Range(act2)
        BY <3>1
      <3>2. CASE Later(rd.answers[i], z, rec)
        <4>1. \/ \E j \in DOMAIN rd.answers : i < j /\ rd.answers[j] = z
              \/ z \in Range(act) \/ Pending(z, 0, rd.todo, segs)
          BY <1>2, <2>1, <2>3, <3>2 DEF ListingIsSound
        <4> QED
          BY <1>1, <4>1
      <3> QED
        BY <2>3, <3>1, <3>2
    <2>4. ASSUME NEW n \in rd.todo, NEW g \in segs2, g.stamp = n.stamp
          PROVE  /\ \A a \in Range(g.body), z \in Range(rec2) :
                      IsRotatedKind(z) /\ Later(a, z, rec2) =>
                        z \in Range(g.body) \/ z \in Range(act2) \/ Pending(z, n.stamp, rd.todo, segs2)
                 /\ n.tmp => \A z \in Range(g.body) :
                      z \in Range(act2) \/ Pending(z, n.stamp, rd.todo, segs2)
      <3>1. PICK f \in segs : f.stamp = n.stamp /\ f.body = g.body
        BY <2>4
      <3>2. ASSUME NEW a \in Range(g.body), NEW z \in Range(rec2), IsRotatedKind(z), Later(a, z, rec2)
            PROVE  z \in Range(g.body) \/ z \in Range(act2) \/ Pending(z, n.stamp, rd.todo, segs2)
        <4>1. CASE z \in Range(act2)
          BY <4>1
        <4>2. CASE Later(a, z, rec)
          <5>1. z \in Range(f.body) \/ z \in Range(act) \/ Pending(z, n.stamp, rd.todo, segs)
            BY <1>2, <2>1, <3>1, <3>2, <4>2 DEF ListingIsSound
          <5> QED
            BY <1>1, <3>1, <5>1
        <4> QED
          BY <3>2, <4>1, <4>2
      <3>3. ASSUME n.tmp, NEW z \in Range(g.body)
            PROVE  z \in Range(act2) \/ Pending(z, n.stamp, rd.todo, segs2)
        <4>1. z \in Range(act) \/ Pending(z, n.stamp, rd.todo, segs)
          BY <2>1, <3>1, <3>3 DEF ListingIsSound
        <4> QED
          BY <1>1, <4>1
      <3> QED
        BY <3>2, <3>3
    <2> QED
      BY <2>2, <2>3, <2>4 DEF ListingIsSound
  <1> QED
    BY <1>1, <1>3 DEF ReadingIsSound

\* A rotation takes the answers out of the active file.
LEMMA ReadingNotesMoved ==
    ASSUME NEW st \in Settings, NEW act \in Seq(EventsOf(st)), NEW rd, NEW segs, NEW rec, NEW gone,
           ReadingIsSound(rd, act, segs, rec, gone), RotatedLines(act) # <<>>,
           NEW rd2, rd2.todo = rd.todo, rd2.answers = rd.answers, rd2.due = rd.due,
           rd2.moved = rd.moved \cup Range(RotatedLines(act))
    PROVE  ReadingIsSound(rd2, OtherLines(act), segs, rec, gone)
  <1> DEFINE out == RotatedLines(act)
  <1>1. out \in Seq(EventsOf(st)) /\ Range(out) = {e \in Range(act) : IsRotatedKind(e)}
    BY Halves
  <1>2. out # <<>>
    OBVIOUS
  <1> HIDE DEF out
  <1>3. Range(out) # {}
    <2>1. 1 \in DOMAIN out
      BY <1>1, <1>2
    <2> QED
      BY <2>1 DEF Range
  <1>4. rd2.moved # {}
    BY <1>3 DEF out
  <1>5. \A e \in rd2.due : \/ e \in Range(rd2.answers) \/ e \in rd2.moved
                           \/ Pending(e, 0, rd2.todo, segs)
    BY <1>1 DEF ReadingIsSound, out
  <1> QED
    BY <1>4, <1>5 DEF ReadingIsSound

\* Once it has the answers, nothing disturbs them.
LEMMA ReadStaysSound ==
    ASSUME NEW T, NEW rd, NEW rec \in Seq(T), NEW gone, rd.seen \in Nat, ReadIsSound(rd, rec, gone),
           NEW e, NEW gone2, gone \subseteq gone2
    PROVE  ReadIsSound(rd, rec, gone2) /\ ReadIsSound(rd, Append(rec, e), gone2)
  <1>1. rd.seen <= Len(rec) /\ Len(rec) \in Nat /\ Len(Append(rec, e)) = Len(rec) + 1
    BY DEF ReadIsSound
  <1>2. SubSeq(Append(rec, e), 1, rd.seen) = SubSeq(rec, 1, rd.seen)
    BY <1>1
  <1> DEFINE past == SubSeq(rec, 1, rd.seen)
  <1>3. /\ \A a \in Range(rd.answers) : IsRotatedKind(a) /\ a \in Range(past)
        /\ rd.due \subseteq Range(rd.answers) \cup rd.moved
        /\ rd.moved = {} =>
             /\ \A z \in Range(past) : IsRotatedKind(z) => z \in gone2 \/ z \in Range(rd.answers)
             /\ \A i \in DOMAIN rd.answers, z \in Range(past) :
                  IsRotatedKind(z) /\ Later(rd.answers[i], z, past) =>
                    \E j \in DOMAIN rd.answers : i < j /\ rd.answers[j] = z
    BY DEF ReadIsSound
  <1>4. ReadIsSound(rd, rec, gone2)
    BY <1>1, <1>3 DEF ReadIsSound
  <1>5. past = SubSeq(Append(rec, e), 1, rd.seen)
    BY <1>2
  <1> HIDE DEF past
  <1>6. ReadIsSound(rd, Append(rec, e), gone2)
    BY <1>1, <1>3, <1>5 DEF ReadIsSound
  <1> QED
    BY <1>4, <1>6

-----------------------------------------------------------------------------
(* The steps of a reader                                                    *)

LEMMA Concatenated ==
    ASSUME NEW T, NEW s \in Seq(T), NEW t \in Seq(T)
    PROVE  /\ Range(s \o t) = Range(s) \cup Range(t)
           /\ \A i \in DOMAIN s : i \in DOMAIN (s \o t) /\ (s \o t)[i] = s[i]
           /\ \A i \in DOMAIN t : Len(s) + i \in DOMAIN (s \o t) /\ (s \o t)[Len(s) + i] = t[i]
           /\ \A i \in DOMAIN (s \o t) : i \in DOMAIN s \/ i - Len(s) \in DOMAIN t
  <1> DEFINE st == s \o t
  <1>1. Len(s) \in Nat /\ Len(t) \in Nat /\ DOMAIN s = 1..Len(s) /\ DOMAIN t = 1..Len(t)
    OBVIOUS
  <1>2. /\ DOMAIN st = 1..(Len(s) + Len(t))
        /\ \A i \in 1..(Len(s) + Len(t)) : st[i] = IF i <= Len(s) THEN s[i] ELSE t[i - Len(s)]
    OBVIOUS
  <1> HIDE DEF st
  <1>3. \A i \in DOMAIN s : i \in DOMAIN st /\ st[i] = s[i]
    BY <1>1, <1>2
  <1>4. ASSUME NEW i \in DOMAIN t PROVE Len(s) + i \in DOMAIN st /\ st[Len(s) + i] = t[i]
    <2>1. Len(s) + i \in 1..(Len(s) + Len(t)) /\ ~(Len(s) + i <= Len(s)) /\ (Len(s) + i) - Len(s) = i
      BY <1>1
    <2> QED
      BY <1>2, <2>1
  <1>5. ASSUME NEW i \in DOMAIN st
        PROVE  \/ i \in DOMAIN s /\ st[i] = s[i]
               \/ i - Len(s) \in DOMAIN t /\ st[i] = t[i - Len(s)]
    BY <1>1, <1>2
  <1>6. Range(st) = Range(s) \cup Range(t)
    <2>1. Range(st) \subseteq Range(s) \cup Range(t)
      BY <1>5 DEF Range
    <2>2. Range(s) \subseteq Range(st)
      BY <1>3 DEF Range
    <2>3. Range(t) \subseteq Range(st)
      BY <1>4 DEF Range
    <2> QED
      BY <2>1, <2>2, <2>3
  <1> QED
    BY <1>3, <1>4, <1>5, <1>6 DEF st

NoRepeats(rec) == \A i, j \in DOMAIN rec : rec[i] = rec[j] => i = j

\* Lines that were recorded in a file's order are in it in the order they were recorded.
LEMMA LaterIsAfter ==
    ASSUME NEW T, NEW s \in Seq(T), NEW rec \in Seq(T), InOrder(s, rec), NoRepeats(rec),
           NEW i \in DOMAIN s, NEW j \in DOMAIN s, Later(s[i], s[j], rec)
    PROVE  i < j
  <1>0. i \in Nat /\ j \in Nat /\ \A x \in DOMAIN rec : x \in Nat
    OBVIOUS
  <1>1. PICK x \in DOMAIN rec, y \in DOMAIN rec : x < y /\ rec[x] = s[i] /\ rec[y] = s[j]
    BY DEF Later
  <1>2. i # j
    BY <1>0, <1>1 DEF NoRepeats
  <1>3. ~(j < i)
    <2> SUFFICES ASSUME j < i PROVE FALSE
      OBVIOUS
    <2>1. Later(s[j], s[i], rec)
      BY DEF InOrder
    <2>2. PICK u \in DOMAIN rec, v \in DOMAIN rec : u < v /\ rec[u] = s[j] /\ rec[v] = s[i]
      BY <2>1 DEF Later
    <2>3. u = y /\ v = x
      BY <1>1, <2>2 DEF NoRepeats
    <2> QED
      BY <1>0, <1>1, <2>2, <2>3
  <1> QED
    BY <1>0, <1>2, <1>3

\* The segments are listed before anything is opened.
LEMMA ListingStartsSound ==
    ASSUME NEW st \in Settings, NEW act, NEW segs \in SUBSET FilesOf(st),
           NEW rec \in Seq(EventsOf(st)), NEW gone, FilesAreSound(act, segs, rec, gone),
           NEW rd, rd.todo = {[stamp |-> f.stamp, tmp |-> f.tmp] : f \in segs},
           rd.answers = <<>>, rd.moved = {}, rd.due = Range(RotatedLines(rec)) \ gone
    PROVE  ReadingIsSound(rd, act, segs, rec, gone)
  <1>1. ASSUME NEW e, NEW stamp, HasNewer(e, stamp, segs)
        PROVE  Pending(e, stamp, rd.todo, segs)
    <2>1. PICK h \in segs : ~h.tmp /\ stamp < h.stamp /\ e \in Range(h.body)
      BY <1>1 DEF HasNewer
    <2> DEFINE n == [stamp |-> h.stamp, tmp |-> h.tmp]
    <2>2. n \in rd.todo /\ ~n.tmp /\ stamp < n.stamp /\ n.stamp = h.stamp
      BY <2>1
    <2>3. \A f \in segs : f.stamp = n.stamp => e \in Range(f.body)
      BY <2>1, <2>2 DEF FilesAreSound
    <2> HIDE DEF n
    <2> QED
      BY <2>2, <2>3 DEF Pending
  <1>2. \A z \in Range(rec) : z \in gone \/ z \in Range(act) \/ HasNewer(z, 0, segs)
    <2>1. ASSUME NEW f \in segs PROVE 0 < f.stamp
      BY DEF FilesOf
    <2> QED
      BY <2>1 DEF FilesAreSound, Lines, HasNewer
  <1>3. Range(RotatedLines(rec)) = {e \in Range(rec) : IsRotatedKind(e)}
    BY Halves
  <1>4. Range(rd.answers) = {} /\ DOMAIN rd.answers = {}
    BY DEF Range
  <1>5. ASSUME NEW n \in rd.todo, NEW f \in segs, f.stamp = n.stamp
        PROVE  /\ \A a \in Range(f.body), z \in Range(rec) :
                    IsRotatedKind(z) /\ Later(a, z, rec) =>
                      z \in Range(f.body) \/ z \in Range(act) \/ Pending(z, n.stamp, rd.todo, segs)
               /\ n.tmp => \A z \in Range(f.body) :
                    z \in Range(act) \/ Pending(z, n.stamp, rd.todo, segs)
    <2>1. n.tmp = f.tmp
      <3>1. PICK g \in segs : n = [stamp |-> g.stamp, tmp |-> g.tmp]
        OBVIOUS
      <3>2. n.stamp = g.stamp /\ n.tmp = g.tmp
        BY <3>1
      <3>3. g = f
        BY <1>5, <3>2 DEF FilesAreSound
      <3> QED
        BY <3>2, <3>3
    <2>2. FileIsSound(f, act, segs, rec)
      BY DEF FilesAreSound
    <2> QED
      BY <1>1, <1>5, <2>1, <2>2 DEF FileIsSound
  <1>6. \A n, m \in rd.todo : n.stamp = m.stamp => n = m
    <2> SUFFICES ASSUME NEW n \in rd.todo, NEW m \in rd.todo, n.stamp = m.stamp PROVE n = m
      OBVIOUS
    <2>1. PICK f \in segs, g \in segs : /\ n = [stamp |-> f.stamp, tmp |-> f.tmp]
                                        /\ m = [stamp |-> g.stamp, tmp |-> g.tmp]
      OBVIOUS
    <2>2. f = g
      BY <2>1 DEF FilesAreSound
    <2> QED
      BY <2>1, <2>2
  <1>7. ListingIsSound(rd, act, segs, rec, gone)
    BY <1>1, <1>2, <1>4, <1>5 DEF ListingIsSound
  <1>8. \A e \in rd.due : IsRotatedKind(e) /\ e \in Range(rec) /\ e \notin gone
    BY <1>3
  <1> QED
    BY <1>1, <1>2, <1>4, <1>6, <1>7, <1>8 DEF ReadingIsSound

\* A listed segment is read, of an unfinished one a part.
LEMMA SegmentReadSound ==
    ASSUME NEW st \in Settings, NEW act, NEW segs \in SUBSET FilesOf(st),
           NEW rec \in Seq(EventsOf(st)), NEW gone, FilesAreSound(act, segs, rec, gone),
           NoRepeats(rec), NEW rd \in ReadersOf(st), ReadingIsSound(rd, act, segs, rec, gone),
           NEW n \in rd.todo, \A m \in rd.todo : n.stamp <= m.stamp,
           NEW f \in segs, f.stamp = n.stamp, f.tmp = n.tmp, NEW k \in 0..Len(f.body),
           ~f.tmp => k = Len(f.body),
           NEW rd2, rd2.todo = rd.todo \ {n}, rd2.answers = rd.answers \o SubSeq(f.body, 1, k),
           rd2.due = rd.due, rd2.moved = rd.moved
    PROVE  ReadingIsSound(rd2, act, segs, rec, gone)
  <1> DEFINE T == EventsOf(st)
             old == rd.answers
             part == SubSeq(f.body, 1, k)
             new == rd2.answers
             L == Len(old)
  <1>1. old \in Seq(T) /\ f.body \in Seq(T) /\ rd.todo \in SUBSET [stamp : Nat \ {0}, tmp : BOOLEAN]
    BY DEF ReadersOf, FilesOf
  <1> HIDE DEF T
  <1>2. /\ part \in Seq(T) /\ DOMAIN part = 1..k /\ k \in Nat
        /\ \A i \in 1..k : part[i] = f.body[i] /\ i \in DOMAIN f.body
        /\ L \in Nat /\ DOMAIN old = 1..L
    BY <1>1
  <1> HIDE DEF part
  <1>3. /\ Range(new) = Range(old) \cup Range(part)
        /\ \A i \in DOMAIN old : i \in DOMAIN new /\ new[i] = old[i]
        /\ \A i \in DOMAIN part : L + i \in DOMAIN new /\ new[L + i] = part[i]
        /\ \A i \in DOMAIN new : i \in DOMAIN old \/ i - L \in DOMAIN part
    <2> HIDE DEF old, new
    <2>1. new = old \o part
      BY DEF old, new, part
    <2>2. old \in Seq(T) /\ part \in Seq(T)
      BY <1>1, <1>2 DEF old
    <2> QED
      BY <2>1, <2>2, Concatenated, SMTT(30)
  <1>4. DOMAIN new \subseteq Nat
    <2> HIDE DEF new
    <2>1. new \in Seq(T)
      BY <1>1, <1>2 DEF new, part
    <2> QED
      BY <2>1
  <1> HIDE DEF old, new, L
  <1>5. FileIsSound(f, act, segs, rec)
    BY DEF FilesAreSound
  <1>6. Range(part) \subseteq Range(f.body) /\ (~n.tmp => Range(f.body) \subseteq Range(part))
    <2>1. DOMAIN f.body = 1..Len(f.body)
      BY <1>1
    <2> QED
      BY <1>2, <2>1 DEF Range
  \* What was to come from this file was read, the rest is still to come.
  <1>7. ASSUME NEW e, NEW stamp \in Nat, Pending(e, stamp, rd.todo, segs)
        PROVE  Pending(e, stamp, rd2.todo, segs) \/ (e \in Range(part) /\ stamp < n.stamp)
    <2>1. PICK m \in rd.todo : /\ ~m.tmp /\ stamp < m.stamp
                               /\ \A g \in segs : g.stamp = m.stamp => e \in Range(g.body)
      BY <1>7 DEF Pending
    <2>2. CASE m = n
      BY <1>6, <2>1, <2>2
    <2>3. CASE m # n
      BY <2>1, <2>3 DEF Pending
    <2> QED
      BY <2>2, <2>3
  <1>8. ASSUME NEW m \in rd.todo, NEW e, Pending(e, m.stamp, rd.todo, segs)
        PROVE  Pending(e, m.stamp, rd2.todo, segs)
    <2>1. m.stamp \in Nat /\ n.stamp \in Nat /\ ~(m.stamp < n.stamp)
      BY <1>1
    <2> QED
      BY <1>7, <1>8, <2>1
  <1>9. ASSUME NEW z, NEW stamp \in Nat, Pending(z, stamp, rd2.todo, segs)
        PROVE  Pending(z, 0, rd2.todo, segs)
    <2>1. PICK m \in rd2.todo : /\ ~m.tmp /\ stamp < m.stamp
                                /\ \A g \in segs : g.stamp = m.stamp => z \in Range(g.body)
      BY <1>9 DEF Pending
    <2>2. 0 < m.stamp
      BY <1>1
    <2> QED
      BY <2>1, <2>2 DEF Pending
  <1>10. ASSUME rd.moved = {} PROVE ListingIsSound(rd2, act, segs, rec, gone)
    <2>0. ListingIsSound(rd, act, segs, rec, gone)
      BY <1>10 DEF ReadingIsSound
    <2>1. ASSUME NEW z \in Range(rec), IsRotatedKind(z)
          PROVE  \/ z \in gone \/ z \in Range(new) \/ z \in Range(act)
                 \/ Pending(z, 0, rd2.todo, segs)
      <3>1. \/ z \in gone \/ z \in Range(old) \/ z \in Range(act) \/ Pending(z, 0, rd.todo, segs)
        BY <2>0, <2>1 DEF ListingIsSound, old
      <3> QED
        BY <1>3, <1>7, <3>1
    <2>2. ASSUME NEW i \in DOMAIN new, NEW z \in Range(rec), IsRotatedKind(z), Later(new[i], z, rec)
          PROVE  \/ \E j \in DOMAIN new : i < j /\ new[j] = z
                 \/ z \in Range(act) \/ Pending(z, 0, rd2.todo, segs)
      <3>1. CASE i \in DOMAIN old
        <4>1. \/ \E j \in DOMAIN old : i < j /\ old[j] = z
              \/ z \in Range(act) \/ Pending(z, 0, rd.todo, segs)
          BY <1>3, <2>0, <2>2, <3>1 DEF ListingIsSound, old
        <4>2. CASE \E j \in DOMAIN old : i < j /\ old[j] = z
          BY <1>3, <4>2
        <4>3. CASE z \in Range(part)
          <5>1. PICK j \in DOMAIN part : part[j] = z
            BY <4>3 DEF Range
          <5>2. i < L + j
            BY <1>2, <3>1
          <5> QED
            BY <1>3, <5>1, <5>2
        <4> QED
          BY <1>7, <4>1, <4>2, <4>3
      <3>2. CASE i - L \in DOMAIN part
        <4> DEFINE a == i - L
        <4>1. a \in 1..k /\ a \in DOMAIN f.body /\ i = L + a /\ new[i] = f.body[a]
          <5>1. a \in 1..k
            BY <1>2, <3>2
          <5>2. i = L + a
            BY <1>2, <1>4
          <5> QED
            BY <1>2, <1>3, <3>2, <5>1, <5>2
        <4> HIDE DEF a
        <4>2. f.body[a] \in Range(f.body) /\ Later(f.body[a], z, rec)
          BY <2>2, <4>1 DEF Range
        <4>3. z \in Range(f.body) \/ z \in Range(act) \/ Pending(z, n.stamp, rd.todo, segs)
          BY <2>0, <2>2, <4>2 DEF ListingIsSound
        <4>4. CASE z \in Range(f.body)
          <5>1. PICK j \in DOMAIN f.body : f.body[j] = z
            BY <4>4 DEF Range
          <5>2. a < j
            <6>1. InOrder(f.body, rec) /\ rec \in Seq(T)
              BY <1>5 DEF FileIsSound, T
            <6> QED
              BY <1>1, <4>1, <4>2, <5>1, <6>1, LaterIsAfter
          <5>3. CASE j \in 1..k
            <6>1. L + j \in DOMAIN new /\ new[L + j] = z
              BY <1>2, <1>3, <5>1, <5>3
            <6>2. i < L + j
              BY <1>2, <4>1, <5>2, <5>3
            <6> QED
              BY <6>1, <6>2
          <5>4. CASE j \notin 1..k
            <6>1. n.tmp
              BY <1>1, <5>4
            <6>2. z \in Range(act) \/ Pending(z, n.stamp, rd.todo, segs)
              BY <2>0, <4>4, <6>1 DEF ListingIsSound
            <6> QED
              BY <1>1, <1>8, <1>9, <6>2
          <5> QED
            BY <5>3, <5>4
        <4> QED
          BY <1>1, <1>8, <1>9, <4>3, <4>4
      <3> QED
        BY <1>3, <3>1, <3>2
    <2>3. ASSUME NEW m \in rd2.todo, NEW g \in segs, g.stamp = m.stamp
          PROVE  /\ \A a \in Range(g.body), z \in Range(rec) :
                      IsRotatedKind(z) /\ Later(a, z, rec) =>
                        z \in Range(g.body) \/ z \in Range(act) \/ Pending(z, m.stamp, rd2.todo, segs)
                 /\ m.tmp => \A z \in Range(g.body) :
                      z \in Range(act) \/ Pending(z, m.stamp, rd2.todo, segs)
      <3>1. m \in rd.todo
        OBVIOUS
      <3> QED
        BY <1>8, <2>0, <2>3, <3>1 DEF ListingIsSound
    <2> QED
      BY <2>1, <2>2, <2>3 DEF ListingIsSound, new
  <1>11. \A e \in Range(new) : IsRotatedKind(e) /\ e \in Range(rec)
    BY <1>3, <1>5, <1>6 DEF ReadingIsSound, FileIsSound, InOrder, old
  <1>12. ASSUME NEW e \in rd2.due
         PROVE  \/ e \in Range(new) \/ e \in rd2.moved \/ e \in Range(act)
                \/ Pending(e, 0, rd2.todo, segs)
    <2>1. \/ e \in Range(old) \/ e \in rd.moved \/ e \in Range(act)
          \/ Pending(e, 0, rd.todo, segs)
      BY DEF ReadingIsSound, old
    <2> QED
      BY <1>3, <1>7, <2>1
  <1> QED
    BY <1>10, <1>11, <1>12 DEF ReadingIsSound, new

\* The active file is read last.
LEMMA ActiveReadSound ==
    ASSUME NEW st \in Settings, NEW act \in Seq(EventsOf(st)), NEW segs,
           NEW rec \in Seq(EventsOf(st)), NEW gone, FilesAreSound(act, segs, rec, gone),
           NoRepeats(rec), NEW rd \in ReadersOf(st), ReadingIsSound(rd, act, segs, rec, gone),
           rd.todo = {},
           NEW rd2, rd2.answers = rd.answers \o RotatedLines(act), rd2.seen = Len(rec),
           rd2.due = rd.due, rd2.moved = rd.moved
    PROVE  ReadIsSound(rd2, rec, gone)
  <1> DEFINE T == EventsOf(st)
             old == rd.answers
             last == RotatedLines(act)
             new == rd2.answers
             L == Len(old)
  <1>1. old \in Seq(T) /\ rec \in Seq(T)
    BY DEF ReadersOf
  <1>2. /\ last \in Seq(T) /\ Range(last) = {e \in Range(act) : IsRotatedKind(e)}
        /\ InOrder(last, rec)
    BY Halves DEF FilesAreSound
  <1> HIDE DEF T, last
  <1>3. /\ Range(new) = Range(old) \cup Range(last)
        /\ \A i \in DOMAIN old : i \in DOMAIN new /\ new[i] = old[i]
        /\ \A i \in DOMAIN last : L + i \in DOMAIN new /\ new[L + i] = last[i]
        /\ \A i \in DOMAIN new : i \in DOMAIN old \/ i - L \in DOMAIN last
    <2> HIDE DEF old, new
    <2>1. new = old \o last
      BY DEF old, new, last
    <2>2. old \in Seq(T) /\ last \in Seq(T)
      BY <1>1, <1>2 DEF old
    <2> QED
      BY <2>1, <2>2, Concatenated, SMTT(30)
  <1>4. DOMAIN new \subseteq Nat /\ L \in Nat /\ DOMAIN old = 1..L /\ DOMAIN last \subseteq Nat \ {0}
    <2>1. new \in Seq(T)
      BY <1>1, <1>2 DEF last
    <2> QED
      BY <1>1, <1>2, <2>1
  <1>5. SubSeq(rec, 1, rd2.seen) = rec /\ rd2.seen <= Len(rec)
    BY <1>1
  <1> HIDE DEF old, new, L
  <1>6. \A e, stamp : ~Pending(e, stamp, rd.todo, segs)
    BY DEF Pending
  <1>7. ASSUME rd.moved = {}, NEW i \in DOMAIN new, NEW z \in Range(rec), IsRotatedKind(z),
               Later(new[i], z, rec)
        PROVE  \E j \in DOMAIN new : i < j /\ new[j] = z
    <2>0. ListingIsSound(rd, act, segs, rec, gone)
      BY <1>7 DEF ReadingIsSound
    <2>1. CASE i \in DOMAIN old
      <3>1. (\E j \in DOMAIN old : i < j /\ old[j] = z) \/ z \in Range(act)
        BY <1>3, <1>6, <1>7, <2>0, <2>1 DEF ListingIsSound, old
      <3>2. CASE z \in Range(act)
        <4>1. z \in Range(last)
          BY <1>2, <1>7, <3>2
        <4>2. PICK j \in DOMAIN last : last[j] = z
          BY <4>1 DEF Range
        <4>3. i < L + j
          BY <1>4, <2>1
        <4> QED
          BY <1>3, <4>2, <4>3
      <3> QED
        BY <1>3, <3>1, <3>2
    <2>2. CASE i - L \in DOMAIN last
      <3> DEFINE a == i - L
      <3>1. a \in DOMAIN last /\ i = L + a /\ new[i] = last[a]
        <4>1. i = L + a
          BY <1>4
        <4> QED
          BY <1>3, <2>2, <4>1
      <3> HIDE DEF a
      <3>2. last[a] \in Range(last) /\ Later(last[a], z, rec)
        BY <1>7, <3>1 DEF Range
      <3>3. z \in Range(act)
        BY <1>2, <1>7, <3>2 DEF FilesAreSound
      <3>4. z \in Range(last)
        BY <1>2, <1>7, <3>3
      <3>5. PICK j \in DOMAIN last : last[j] = z
        BY <3>4 DEF Range
      <3>6. a < j
        BY <1>1, <1>2, <3>1, <3>2, <3>5, LaterIsAfter
      <3>7. i < L + j
        BY <1>4, <3>1, <3>6
      <3> QED
        BY <1>3, <3>5, <3>7
    <2> QED
      BY <1>3, <2>1, <2>2
  <1>8. ASSUME rd.moved = {}, NEW z \in Range(rec), IsRotatedKind(z)
        PROVE  z \in gone \/ z \in Range(new)
    <2>1. z \in gone \/ z \in Range(old) \/ z \in Range(act)
      BY <1>6, <1>8 DEF ReadingIsSound, ListingIsSound, old
    <2> QED
      BY <1>2, <1>3, <1>8, <2>1
  <1>9. \A e \in Range(new) : IsRotatedKind(e) /\ e \in Range(rec)
    BY <1>2, <1>3 DEF ReadingIsSound, FilesAreSound, InOrder, old
  <1>10. rd2.due \subseteq Range(new) \cup rd2.moved
    BY <1>2, <1>3, <1>6 DEF ReadingIsSound, old
  <1> QED
    BY <1>5, <1>7, <1>8, <1>9, <1>10 DEF ReadIsSound, new

-----------------------------------------------------------------------------
(* Steps of the log                                                         *)

LEMMA RecordedOnce ==
    ASSUME NEW st, NEW rec, NEW ws, NEW n, Unique(st, rec, ws, n)
    PROVE  NoRepeats(rec)
  BY DEF Unique, NoRepeats

\* A writer keeps its event until it is written or lost.
LEMMA UniqueKept ==
    ASSUME NEW st, NEW rec, NEW ws, NEW n, Unique(st, rec, ws, n), NEW ws2,
           \A v \in Writers : ws2[v].pc # "idle" => ws[v].pc # "idle" /\ ws2[v].event = ws[v].event
    PROVE  Unique(st, rec, ws2, n)
  BY DEF Unique

\* Steps of writers and of gc leave a reader sound.
LEMMA ReaderUndisturbed ==
    ASSUME LogInv, reader' = reader, rotations' \in Nat, rotations <= rotations',
           Range(active) \subseteq Range(active)', dropped \subseteq dropped',
           \A g \in segments' : g.stamp <= rotations =>
             \E f \in segments : f.stamp = g.stamp /\ f.body = g.body,
           \/ recorded' = recorded
           \/ \E e : recorded' = Append(recorded, e) /\ e \in Range(active)'
    PROVE  ReaderInv'
  <1> USE DEF LogInv
  <1>0. recorded \in Seq(EventsOf(setting)) /\ reader.seen \in Nat
    BY DEF Types, ReadersOf
  <1>1. CASE reader.pc = "segments"
    <2>1. /\ \A n \in reader.todo : n.stamp <= rotations /\ n.stamp \in Nat
          /\ ReadingIsSound(reader, active, segments, recorded, dropped)
      BY <1>1 DEF ReaderInv, Types, ReadersOf
    <2>2. \A n \in reader.todo : n.stamp <= rotations'
      BY <2>1 DEF Types
    <2>3. \A n \in reader.todo, g \in segments' : g.stamp = n.stamp =>
            \E f \in segments : f.stamp = n.stamp /\ f.body = g.body
      BY <2>1
    <2>4. /\ Range(recorded) \subseteq Range(recorded')
          /\ \A z \in Range(recorded') : z \in Range(recorded) \/ z \in Range(active')
          /\ \A a, z : Later(a, z, recorded') => Later(a, z, recorded) \/ z \in Range(active')
      <3>1. CASE recorded' = recorded
        BY <3>1
      <3>2. CASE \E e : recorded' = Append(recorded, e) /\ e \in Range(active)'
        <4>1. PICK e : recorded' = Append(recorded, e) /\ e \in Range(active')
          BY <3>2 DEF Range
        <4>2. Range(recorded') = Range(recorded) \cup {e}
          BY <1>0, <4>1, RangeAppend
        <4>3. \A a, z : Later(a, z, recorded') => Later(a, z, recorded) \/ z = e
          BY <1>0, <4>1, LaterAppend
        <4> QED
          BY <4>1, <4>2, <4>3
      <3> QED
        BY <3>1, <3>2
    <2>5. Range(active) \subseteq Range(active')
      BY DEF Range
    <2>6. ReadingIsSound(reader, active', segments', recorded', dropped')
      BY <2>1, <2>3, <2>4, <2>5, ReadingGoesOn
    <2> QED
      BY <1>1, <2>2, <2>6 DEF ReaderInv
  <1>2. CASE reader.pc \in {"answers", "done"}
    <2>1. ReadIsSound(reader, recorded, dropped)
      BY <1>2 DEF ReaderInv
    <2>2. ReadIsSound(reader, recorded', dropped')
      BY <1>0, <2>1, ReadStaysSound
    <2> QED
      BY <1>2, <2>2 DEF ReaderInv
  <1>3. CASE reader.pc \notin {"segments", "answers", "done"}
    BY <1>3 DEF ReaderInv
  <1> QED
    BY <1>1, <1>2, <1>3

LEMMA InitInv == Init => LogInv
  <1> SUFFICES ASSUME Init PROVE LogInv
    OBVIOUS
  <1> USE DEF Init
  <1>1. Types
    <2>1. setting.maxEvents \in Nat
      BY EventLogAssumption
    <2>2. IdleWriter \in WritersOf(setting)
      BY DEF IdleWriter, WritersOf
    <2>3. IdleReader \in ReadersOf(setting)
      BY DEF IdleReader, ReadersOf
    <2> QED
      BY <2>1, <2>2, <2>3, FS_EmptySet DEF Types
  <1>2. Unique(setting, recorded, writer, created)
    BY DEF Unique, IdleWriter
  <1>3. FilesAreSound(active, segments, recorded, dropped)
    BY DEF FilesAreSound, InOrder, Range
  <1>4. Discipline
    <2>1. \A w \in Writers : writer[w].pc = "idle" /\ lock # w
      BY EventLogAssumption DEF IdleWriter
    <2> QED
      BY <2>1 DEF Discipline, Holding
  <1>5. ReaderInv
    BY DEF ReaderInv, IdleReader
  <1> QED
    BY <1>1, <1>2, <1>3, <1>4, <1>5 DEF LogInv

LEMMA CreateKeeps ==
    ASSUME LogInv, NEW w \in Writers, Create(w)
    PROVE  LogInv'
  <1> USE DEF LogInv
  <1>1. PICK c \in setting.contents :
          writer' = [writer EXCEPT ![w] =
            [IdleWriter EXCEPT !.pc = "waiting", !.event = [ts |-> created + 1, what |-> c]]]
    BY DEF Create
  <1> DEFINE e == [ts |-> created + 1, what |-> c]
             now == [IdleWriter EXCEPT !.pc = "waiting", !.event = e]
  <1>2. e \in EventsOf(setting) /\ e.ts = created + 1 /\ created \in Nat
    BY EventLogAssumption DEF Create, Types, EventsOf
  <1>3. now \in WritersOf(setting) /\ now.pc = "waiting" /\ now.event = e
    <2> HIDE DEF e
    <2>0. IdleWriter \in [pc : {"idle"}, event : {<<>>}, rest : {<<>>}]
      BY DEF IdleWriter
    <2>1. now \in [pc : {"waiting"}, event : {e}, rest : {<<>>}]
      BY <2>0
    <2>2. <<>> \in Seq(EventsOf(setting))
      OBVIOUS
    <2> HIDE DEF now
    <2>3. now.pc = "waiting" /\ now.event = e
      BY <2>1
    <2>4. now \in WritersOf(setting)
      BY <1>2, <2>1, <2>2 DEF WritersOf
    <2> QED
      BY <2>3, <2>4
  <1> HIDE DEF e, now
  <1>4. /\ writer' = [writer EXCEPT ![w] = now]
        /\ writer'[w] = now
        /\ \A v \in Writers : v # w => writer'[v] = writer[v]
    BY <1>1 DEF now, e, Types
  <1>5. Types'
    <2>1. writer' \in [Writers -> WritersOf(setting)]
      BY <1>3, <1>4 DEF Types
    <2>2. created' \in 0..setting.maxEvents
      BY EventLogAssumption DEF Create, Types
    <2> QED
      BY <2>1, <2>2 DEF Create, Types
  <1>6. Unique(setting, recorded, writer', created')
    <2>1. /\ \A i \in DOMAIN recorded : recorded[i].ts \in Nat
          /\ \A v \in Writers : writer[v].pc # "idle" => writer[v].event.ts \in Nat
      <3>1. recorded \in Seq(EventsOf(setting))
        BY DEF Types
      <3>2. \A x \in EventsOf(setting) : x.ts \in Nat
        BY DEF EventsOf
      <3> QED
        BY <3>1, <3>2 DEF Unique
    <2>2. created' = created + 1
      BY DEF Create
    <2> QED
      BY <1>2, <1>3, <1>4, <2>1, <2>2 DEF Unique
  <1>7. Discipline'
    <2>1. writer[w].pc = "idle" /\ lock # w
      BY DEF Create, Discipline, Holding
    <2>2. \A v \in Writers : writer'[v].pc \in Holding <=> lock = v
      BY <1>3, <1>4, <2>1 DEF Discipline, Holding
    <2>3. \A v \in Writers : writer'[v].pc \in {"copied", "moved"} => v # w /\ writer'[v] = writer[v]
      BY <1>3, <1>4
    <2> QED
      BY <2>2, <2>3 DEF Create, Discipline
  <1>8. ReaderInv'
    BY DEF Create, ReaderInv
  <1> QED
    BY <1>5, <1>6, <1>7, <1>8 DEF Create

LEMMA LockKeeps ==
    ASSUME LogInv, NEW w \in Writers, Lock(w)
    PROVE  LogInv'
  <1> USE DEF LogInv
  <1>1. /\ \A v \in Writers : v # w => writer'[v] = writer[v]
        /\ writer'[w].pc \in {"rotate", "append"} /\ writer'[w].event = writer[w].event
        /\ writer' \in [Writers -> WritersOf(setting)]
    BY ZenonT(60) DEF Lock, Types, WritersOf, Holding
  <1>2. Types'
    BY <1>1 DEF Lock, Types
  <1>3. Unique(setting, recorded, writer', created)
    <2>1. \A v \in Writers : writer'[v].pc # "idle" =>
            writer[v].pc # "idle" /\ writer'[v].event = writer[v].event
      BY <1>1 DEF Lock
    <2> QED
      BY <2>1, UniqueKept
  <1>4. Discipline'
    <2>1. \A v \in Writers : writer[v].pc \notin Holding
      BY EventLogAssumption DEF Lock, Discipline
    <2>2. \A v \in Writers : writer'[v].pc \in Holding <=> lock' = v
      BY <1>1, <2>1 DEF Lock, Holding
    <2>3. \A v \in Writers : writer'[v].pc \notin {"copied", "moved"}
      BY <1>1, <2>1 DEF Holding
    <2> QED
      BY <2>2, <2>3 DEF Lock, Discipline
  <1>5. ReaderInv'
    BY DEF Lock, ReaderInv
  <1> QED
    BY <1>2, <1>3, <1>4, <1>5 DEF Lock

\* The holder of the lock goes on: nobody else is in a rotation.
LEMMA HolderGoesOn ==
    ASSUME LogInv, NEW w \in Writers, writer[w].pc \in Holding, NEW ws, NEW p \in Holding,
           \A v \in Writers : v # w => ws[v] = writer[v], ws[w].pc = p
    PROVE  /\ lock = w
           /\ \A v \in Writers : ws[v].pc \in Holding <=> lock = v
           /\ \A v \in Writers : ws[v].pc \in {"copied", "moved"} => v = w
  <1>1. \A v \in Writers : writer[v].pc \in Holding <=> lock = v
    BY DEF LogInv, Discipline
  <1>2. lock = w
    BY <1>1
  <1>3. \A v \in Writers : ws[v].pc \in Holding <=> lock = v
    BY <1>1, <1>2
  <1>4. {"copied", "moved"} \subseteq Holding
    BY DEF Holding
  <1> QED
    BY <1>2, <1>3, <1>4

LEMMA CopyOutKeeps ==
    ASSUME LogInv, NEW w \in Writers, CopyOut(w)
    PROVE  LogInv'
  <1> USE DEF LogInv
  <1>0. writer[w].pc = "rotate" /\ writer[w].pc \in Holding
    BY DEF CopyOut, Holding
  <1>1. CASE RotatedLines(active) = <<>> /\ segments' = segments
    <2>1. /\ \A v \in Writers : v # w => writer'[v] = writer[v]
          /\ writer'[w].pc = "append" /\ writer'[w].event = writer[w].event
          /\ writer' \in [Writers -> WritersOf(setting)]
      <3>1. writer' = [writer EXCEPT ![w].pc = "append"]
        BY <1>1 DEF CopyOut
      <3>2. writer \in [Writers -> WritersOf(setting)]
        BY DEF Types
      <3>3. [writer[w] EXCEPT !.pc = "append"] \in WritersOf(setting)
        BY <3>2 DEF WritersOf, Holding
      <3> QED
        BY <3>1, <3>2, <3>3 DEF WritersOf
    <2>2. UNCHANGED <<segments, rotations>>
      BY <1>1 DEF CopyOut
    <2>3. Types'
      BY <2>1, <2>2 DEF CopyOut, Types
    <2>4. Unique(setting, recorded, writer', created)
      BY <1>0, <2>1, UniqueKept
    <2>5. Discipline'
      <3>1. /\ \A v \in Writers : writer'[v].pc \in Holding <=> lock = v
            /\ \A v \in Writers : writer'[v].pc \in {"copied", "moved"} => v = w
        <4>1. "append" \in Holding
          BY DEF Holding
        <4> QED
          BY <1>0, <2>1, <4>1, HolderGoesOn
      <3>2. \A v \in Writers : writer'[v].pc \notin {"copied", "moved"}
        BY <2>1, <3>1
      <3> QED
        BY <2>2, <3>1, <3>2 DEF CopyOut, Discipline
    <2>6. ReaderInv'
      BY <2>2 DEF CopyOut, ReaderInv
    <2> QED
      BY <2>2, <2>3, <2>4, <2>5, <2>6 DEF CopyOut
  <1>2. CASE RotatedLines(active) # <<>>
    <2> DEFINE f == [stamp |-> rotations + 1, body |-> RotatedLines(active),
                     gz |-> Compress[w], tmp |-> TRUE]
    <2>1. /\ writer' = [writer EXCEPT ![w].pc = "copied", ![w].rest = OtherLines(active)]
          /\ segments' = segments \cup {f}
          /\ rotations' = rotations + 1
      BY <1>2 DEF CopyOut
    <2>2. RotatedLines(active) \in Seq(EventsOf(setting)) /\ OtherLines(active) \in Seq(EventsOf(setting))
      BY Halves DEF Types
    <2>3. /\ f \in FilesOf(setting) /\ f.stamp = rotations + 1 /\ f.body = RotatedLines(active) /\ f.tmp
          /\ rotations \in Nat
      BY <2>2, EventLogAssumption DEF Types, FilesOf
    <2> HIDE DEF f
    <2>4. /\ \A v \in Writers : v # w => writer'[v] = writer[v]
          /\ writer'[w].pc = "copied" /\ writer'[w].event = writer[w].event
          /\ writer'[w].rest = OtherLines(active)
          /\ writer' \in [Writers -> WritersOf(setting)]
      BY <2>1, <2>2, ZenonT(60) DEF Types, WritersOf, Holding
    <2>5. \A g \in segments : g.stamp < f.stamp /\ g.stamp \in Nat /\ g.stamp <= rotations
      BY <2>3 DEF Types, FilesOf, Discipline
    <2>6. Types'
      <3>1. IsFiniteSet(segments')
        BY <2>1, FS_AddElement DEF Types
      <3> QED
        BY <2>1, <2>3, <2>4, <3>1 DEF CopyOut, Types
    <2>7. Unique(setting, recorded, writer', created)
      BY <1>0, <2>4, UniqueKept
    <2>8. FilesAreSound(active, segments', recorded, dropped)
      <3>1. setting \in Settings /\ active \in Seq(EventsOf(setting))
        BY DEF Types
      <3> QED
        BY <2>1, <2>3, <2>5, <3>1, CopyKeepsFiles
    <2>9. Discipline'
      <3>1. /\ \A v \in Writers : writer'[v].pc \in Holding <=> lock = v
            /\ \A v \in Writers : writer'[v].pc \in {"copied", "moved"} => v = w
        <4>1. "copied" \in Holding
          BY DEF Holding
        <4> QED
          BY <1>0, <2>4, <4>1, HolderGoesOn
      <3>2. \A d \in doomed : d <= rotations /\ d \in Nat
        BY DEF Discipline, Types
      <3>3. /\ \A g \in segments' : g.stamp <= rotations'
            /\ \A d \in doomed : d <= rotations' /\ d # rotations' /\ d < f.stamp
        BY <2>1, <2>3, <2>5, <3>2
      <3>4. \A g \in segments' : g.stamp \notin doomed => \A d \in doomed : d < g.stamp
        BY <2>1, <3>3 DEF Discipline
      <3>5. \A v \in Writers : writer'[v].pc \in {"copied", "moved"} =>
              /\ writer'[v].rest = OtherLines(active)
              /\ RotatedLines(active) # <<>>
              /\ rotations' \notin doomed
              /\ \E g \in segments' : /\ g.stamp = rotations' /\ g.body = RotatedLines(active)
                                      /\ writer'[v].pc = "moved" => ~g.tmp
        BY <1>2, <2>1, <2>3, <2>4, <3>1, <3>3
      <3> QED
        BY <3>1, <3>3, <3>4, <3>5 DEF CopyOut, Discipline
    <2>10. ReaderInv'
      <3>1. \A g \in segments' : g.stamp <= rotations =>
              \E h \in segments : h.stamp = g.stamp /\ h.body = g.body
        BY <2>1, <2>3, <2>5
      <3>2. rotations' \in Nat /\ rotations <= rotations'
        BY <2>1, <2>3
      <3>3. UNCHANGED <<reader, active, dropped, recorded>>
        BY DEF CopyOut
      <3>4. Range(active) \subseteq Range(active)'
        BY <3>3
      <3> QED
        BY <3>1, <3>2, <3>3, <3>4, ReaderUndisturbed
    <2> QED
      BY <2>6, <2>7, <2>8, <2>9, <2>10 DEF CopyOut
  <1> QED
    BY <1>1, <1>2 DEF CopyOut

LEMMA ReplaceSegmentKeeps ==
    ASSUME LogInv, NEW w \in Writers, ReplaceSegment(w)
    PROVE  LogInv'
  <1> USE DEF LogInv
  <1>0. writer[w].pc = "copied" /\ writer[w].pc \in Holding
    BY DEF ReplaceSegment, Holding
  <1>1. /\ \A v \in Writers : v # w => writer'[v] = writer[v]
        /\ writer'[w].pc = "moved" /\ writer'[w].event = writer[w].event
        /\ writer'[w].rest = writer[w].rest
        /\ writer' \in [Writers -> WritersOf(setting)]
    BY DEF ReplaceSegment, Types, WritersOf, Holding
  <1>2. segments' = Renamed(segments, rotations)
    BY DEF ReplaceSegment, Renamed
  <1>3. /\ segments' \in SUBSET FilesOf(setting)
        /\ \A g \in segments' : \E f \in segments :
             g.stamp = f.stamp /\ g.body = f.body /\ (f.stamp = rotations => ~g.tmp)
        /\ \A f \in segments : \E g \in segments' :
             g.stamp = f.stamp /\ g.body = f.body /\ (f.stamp = rotations => ~g.tmp)
    <2>1. segments \in SUBSET FilesOf(setting)
      BY DEF Types
    <2> QED
      BY <1>2, <2>1, RenamedFields
  <1>4. Types'
    <2>1. IsFiniteSet(segments')
      <3> DEFINE new == [f \in segments |->
                          IF f.stamp = rotations THEN [f EXCEPT !.tmp = FALSE] ELSE f]
      <3>1. new \in Surjection(segments, segments')
        BY <1>2 DEF Renamed, Surjection
      <3> HIDE DEF new
      <3> QED
        BY <3>1, FS_Surjection DEF Types
    <2> QED
      BY <1>1, <1>3, <2>1 DEF ReplaceSegment, Types
  <1>5. Unique(setting, recorded, writer', created)
    BY <1>0, <1>1, UniqueKept
  <1>6. FilesAreSound(active, segments', recorded, dropped)
    BY <1>2, RenameKeepsFiles DEF Types
  <1>7. Discipline'
    <2>1. /\ \A v \in Writers : writer'[v].pc \in Holding <=> lock = v
          /\ \A v \in Writers : writer'[v].pc \in {"copied", "moved"} => v = w
      <3>1. "moved" \in Holding
        BY DEF Holding
      <3> QED
        BY <1>0, <1>1, <3>1, HolderGoesOn
    <2>2. /\ writer[w].rest = OtherLines(active)
          /\ RotatedLines(active) # <<>>
          /\ rotations \notin doomed
          /\ \E f \in segments : f.stamp = rotations /\ f.body = RotatedLines(active)
      BY <1>0 DEF Discipline
    <2>3. \E g \in segments' : g.stamp = rotations /\ g.body = RotatedLines(active) /\ ~g.tmp
      BY <1>3, <2>2
    <2>4. /\ \A g \in segments' : g.stamp <= rotations
          /\ \A g \in segments' : g.stamp \notin doomed => \A d \in doomed : d < g.stamp
      BY <1>3 DEF Discipline
    <2>5. UNCHANGED <<active, rotations, doomed, lock>>
      BY DEF ReplaceSegment
    <2> HIDE DEF LogInv
    <2>6. \A v \in Writers : writer'[v].pc \in {"copied", "moved"} =>
            /\ writer'[v].rest = OtherLines(active)
            /\ RotatedLines(active) # <<>>
            /\ rotations \notin doomed
            /\ \E g \in segments' : /\ g.stamp = rotations /\ g.body = RotatedLines(active)
                                    /\ writer'[v].pc = "moved" => ~g.tmp
      BY <1>1, <2>1, <2>2, <2>3
    <2>7. \A d \in doomed : d <= rotations
      BY DEF LogInv, Discipline
    <2> QED
      BY <2>1, <2>4, <2>5, <2>6, <2>7 DEF Discipline
  <1>8. ReaderInv'
    <2>1. \A g \in segments' : g.stamp <= rotations =>
            \E h \in segments : h.stamp = g.stamp /\ h.body = g.body
      BY <1>3
    <2>2. UNCHANGED <<reader, active, dropped, recorded, rotations>>
      BY DEF ReplaceSegment
    <2>3. rotations' \in Nat /\ rotations <= rotations' /\ Range(active) \subseteq Range(active)'
      BY <2>2 DEF Types
    <2> QED
      BY <2>1, <2>2, <2>3, ReaderUndisturbed
  <1> QED
    BY <1>4, <1>5, <1>6, <1>7, <1>8 DEF ReplaceSegment

LEMMA ReplaceActiveKeeps ==
    ASSUME LogInv, NEW w \in Writers, ReplaceActive(w)
    PROVE  LogInv'
  <1> USE DEF LogInv
  <1>0. writer[w].pc = "moved" /\ writer[w].pc \in Holding
    BY DEF ReplaceActive, Holding
  <1>1. /\ \A v \in Writers : v # w => writer'[v] = writer[v]
        /\ writer'[w].pc = "retain" /\ writer'[w].event = writer[w].event
        /\ writer' \in [Writers -> WritersOf(setting)]
    BY DEF ReplaceActive, Types, WritersOf, Holding
  <1>2. PICK f \in segments : f.stamp = rotations /\ f.body = RotatedLines(active) /\ ~f.tmp
    BY <1>0 DEF Discipline
  <1>3. active' = OtherLines(active) /\ RotatedLines(active) # <<>>
    BY <1>0 DEF ReplaceActive, Discipline
  <1>4. /\ setting \in Settings /\ active \in Seq(EventsOf(setting))
        /\ segments \in SUBSET FilesOf(setting) /\ \A g \in segments : g.stamp <= f.stamp
    BY <1>2 DEF Types, Discipline
  <1>5. active' \in Seq(EventsOf(setting)) /\ Range(RotatedLines(active)) \subseteq EventsOf(setting)
    <2>1. OtherLines(active) \in Seq(EventsOf(setting)) /\ RotatedLines(active) \in Seq(EventsOf(setting))
      BY <1>4, Halves
    <2> QED
      BY <1>3, <2>1 DEF Range
  <1>6. reader' \in ReadersOf(setting)
    <2>1. reader \in ReadersOf(setting)
      BY DEF Types
    <2>2. reader' = [reader EXCEPT !.moved =
            IF reader.pc = "segments" THEN @ \cup Range(RotatedLines(active)) ELSE @]
      BY DEF ReplaceActive
    <2>3. (IF reader.pc = "segments" THEN reader.moved \cup Range(RotatedLines(active))
                                     ELSE reader.moved) \in SUBSET EventsOf(setting)
      BY <1>5, <2>1 DEF ReadersOf
    <2> QED
      BY <2>1, <2>2, <2>3 DEF ReadersOf
  <1>7. Types'
    BY <1>1, <1>5, <1>6 DEF ReplaceActive, Types
  <1>8. Unique(setting, recorded, writer', created)
    BY <1>0, <1>1, UniqueKept
  <1>9. FilesAreSound(active', segments, recorded, dropped)
    BY <1>2, <1>3, <1>4, ReplaceKeepsFiles
  <1>10. Discipline'
    <2>1. /\ \A v \in Writers : writer'[v].pc \in Holding <=> lock = v
          /\ \A v \in Writers : writer'[v].pc \in {"copied", "moved"} => v = w
      <3>1. "retain" \in Holding
        BY DEF Holding
      <3> QED
        BY <1>0, <1>1, <3>1, HolderGoesOn
    <2>2. \A v \in Writers : writer'[v].pc \notin {"copied", "moved"}
      BY <1>1, <2>1
    <2> QED
      BY <2>1, <2>2 DEF ReplaceActive, Discipline
  <1>11. ReaderInv'
    <2>1. reader \in ReadersOf(setting)
      BY DEF Types
    <2>2. CASE reader.pc = "segments"
      <3>1. /\ reader'.pc = "segments" /\ reader'.todo = reader.todo /\ reader'.seen = reader.seen
            /\ reader'.answers = reader.answers /\ reader'.due = reader.due
            /\ reader'.moved = reader.moved \cup Range(RotatedLines(active))
        BY <2>1, <2>2 DEF ReplaceActive, ReadersOf
      <3>2. /\ ReadingIsSound(reader, active, segments, recorded, dropped)
            /\ \A n \in reader.todo : n.stamp <= rotations
            /\ reader.seen = 0
        BY <2>2 DEF ReaderInv
      <3>3. ReadingIsSound(reader', active', segments, recorded, dropped)
        BY <1>3, <1>4, <3>1, <3>2, ReadingNotesMoved
      <3> QED
        BY <3>1, <3>2, <3>3 DEF ReplaceActive, ReaderInv
    <2>3. CASE reader.pc # "segments"
      <3>1. reader' = reader
        <4>1. reader' = [reader EXCEPT !.moved = reader.moved]
          BY <2>3 DEF ReplaceActive
        <4> QED
          BY <2>1, <4>1 DEF ReadersOf
      <3> QED
        BY <2>3, <3>1 DEF ReplaceActive, ReaderInv
    <2> QED
      BY <2>2, <2>3
  <1> QED
    BY <1>7, <1>8, <1>9, <1>10, <1>11 DEF ReplaceActive

\* Files are removed oldest first, by the holder of the lock or by gc.
LEMMA UnlinkKeeps ==
    ASSUME LogInv, NEW stamps, Unlink(stamps),
           \A f, g \in segments : f.stamp \in stamps /\ g.stamp \notin stamps => f.stamp < g.stamp,
           UNCHANGED <<setting, active, recorded, rotations, reader>>
    PROVE  /\ segments' = {f \in segments : f.stamp \notin stamps}
           /\ segments' \in SUBSET FilesOf(setting) /\ IsFiniteSet(segments')
           /\ dropped' \in SUBSET EventsOf(setting)
           /\ FilesAreSound(active, segments', recorded, dropped')
           /\ ReaderInv'
  <1> USE DEF LogInv
  <1> DEFINE keep == {f \in segments : f.stamp \notin stamps}
  <1>1. /\ segments' = keep
        /\ dropped' = dropped \cup (Lines(segments \ keep) \ (Range(active) \cup Lines(keep)))
    BY DEF Unlink
  <1>2. segments \in SUBSET FilesOf(setting) /\ keep \in SUBSET segments
    BY DEF Types
  <1>3. IsFiniteSet(keep)
    BY <1>2, FS_Subset DEF Types
  <1>4. Lines(segments \ keep) \subseteq EventsOf(setting)
    <2>1. \A f \in segments : f.body \in Seq(EventsOf(setting))
      BY <1>2 DEF FilesOf
    <2>2. \A f \in segments : Range(f.body) \subseteq EventsOf(setting)
      BY <2>1 DEF Range
    <2> QED
      BY <2>2 DEF Lines
  <1>5. \A f \in keep, g \in segments \ keep : g.stamp < f.stamp
    OBVIOUS
  <1>6. FilesAreSound(active, keep, recorded, dropped')
    <2> HIDE DEF keep
    <2>1. keep = {f \in segments : f.stamp \notin stamps}
      BY DEF keep
    <2> QED
      BY <1>1, <1>2, <1>5, <2>1, UnlinkKeepsFiles
  <1>7. ReaderInv'
    <2>1. \A g \in segments' : g.stamp <= rotations =>
            \E h \in segments : h.stamp = g.stamp /\ h.body = g.body
      BY <1>1
    <2>2. rotations' \in Nat /\ rotations <= rotations' /\ Range(active) \subseteq Range(active)'
      BY DEF Types
    <2>3. dropped \subseteq dropped'
      BY <1>1
    <2> QED
      BY <2>1, <2>2, <2>3, ReaderUndisturbed
  <1>8. dropped' \in SUBSET EventsOf(setting)
    BY <1>1, <1>4 DEF Types
  <1> QED
    BY <1>1, <1>2, <1>3, <1>6, <1>7, <1>8

\* An expired set has all files of its stamps, and all that are older.
LEMMA ExpiredIsOldest ==
    ASSUME LogInv, NEW old \in Expired \cup {{}}
    PROVE  /\ old \subseteq segments
           /\ \A f \in segments : f.stamp \in Stamps(old) <=> f \in old
           /\ \A f \in old, g \in segments \ old : f.stamp < g.stamp
  <1>1. old \subseteq segments /\ \A f \in old, g \in segments \ old : f.stamp < g.stamp
    BY DEF Expired
  <1>2. \A f, g \in segments : f.stamp = g.stamp => f = g
    BY DEF LogInv, FilesAreSound
  <1> QED
    BY <1>1, <1>2 DEF Stamps

LEMMA RetainKeeps ==
    ASSUME LogInv, NEW w \in Writers, Retain(w)
    PROVE  LogInv'
  <1> USE DEF LogInv
  <1>0. writer[w].pc = "retain" /\ writer[w].pc \in Holding
    BY DEF Retain, Holding
  <1>1. /\ \A v \in Writers : v # w => writer'[v] = writer[v]
        /\ writer'[w].pc = "append" /\ writer'[w].event = writer[w].event
        /\ writer' \in [Writers -> WritersOf(setting)]
    BY DEF Retain, Types, WritersOf, Holding
  <1>2. PICK old \in Expired \cup {{}} : Unlink(Stamps(old))
    BY DEF Retain
  <1>3. \A f, g \in segments : f.stamp \in Stamps(old) /\ g.stamp \notin Stamps(old) => f.stamp < g.stamp
    BY ExpiredIsOldest
  <1>4. UNCHANGED <<setting, active, recorded, rotations, reader, lock, doomed, created>>
    BY DEF Retain
  <1>5. /\ segments' = {f \in segments : f.stamp \notin Stamps(old)}
        /\ segments' \in SUBSET FilesOf(setting) /\ IsFiniteSet(segments')
        /\ dropped' \in SUBSET EventsOf(setting)
        /\ FilesAreSound(active, segments', recorded, dropped')
        /\ ReaderInv'
    BY <1>2, <1>3, <1>4, UnlinkKeeps
  <1>6. Types'
    BY <1>1, <1>4, <1>5 DEF Types
  <1>7. Unique(setting, recorded, writer', created)
    BY <1>0, <1>1, UniqueKept
  <1>8. Discipline'
    <2>1. /\ \A v \in Writers : writer'[v].pc \in Holding <=> lock = v
          /\ \A v \in Writers : writer'[v].pc \in {"copied", "moved"} => v = w
      <3>1. "append" \in Holding
        BY DEF Holding
      <3> QED
        BY <1>0, <1>1, <3>1, HolderGoesOn
    <2>2. \A v \in Writers : writer'[v].pc \notin {"copied", "moved"}
      BY <1>1, <2>1
    <2>3. segments' \subseteq segments
      BY <1>5
    <2> QED
      BY <1>4, <2>1, <2>2, <2>3 DEF Discipline
  <1> QED
    BY <1>4, <1>5, <1>6, <1>7, <1>8

LEMMA WriteLineKeeps ==
    ASSUME LogInv, NEW w \in Writers, WriteLine(w)
    PROVE  LogInv'
  <1> USE DEF LogInv
  <1> DEFINE T == EventsOf(setting)
             e == writer[w].event
  <1>0. writer[w].pc = "append" /\ writer[w].pc \in Holding
    BY DEF WriteLine, Holding
  <1>1. /\ active' = Append(active, e) /\ recorded' = Append(recorded, e) /\ lock' = Nobody
        /\ writer' = [writer EXCEPT ![w] = IdleWriter]
        /\ UNCHANGED <<setting, segments, reader, doomed, created, rotations, dropped>>
    BY DEF WriteLine
  <1>2. /\ \A v \in Writers : v # w => writer'[v] = writer[v]
        /\ writer'[w].pc = "idle"
        /\ writer' \in [Writers -> WritersOf(setting)]
    <2>1. IdleWriter \in WritersOf(setting) /\ IdleWriter.pc = "idle"
      BY DEF IdleWriter, WritersOf
    <2> QED
      BY <1>1, <2>1 DEF Types
  <1>3. e \in T /\ active \in Seq(T) /\ recorded \in Seq(T) /\ setting \in Settings
    BY <1>0 DEF Unique, Types
  <1>4. e \notin Range(recorded)
    BY <1>0 DEF Unique, Range
  <1>5. Types'
    <2>1. active' \in Seq(T) /\ recorded' \in Seq(T)
      BY <1>1, <1>3
    <2> QED
      BY <1>1, <1>2, <2>1 DEF Types
  <1>6. Unique(setting, recorded', writer', created)
    <2>1. /\ DOMAIN recorded = 1..Len(recorded) /\ DOMAIN recorded' = 1..(Len(recorded) + 1)
          /\ Len(recorded) \in Nat
          /\ recorded'[Len(recorded) + 1] = e /\ \A i \in DOMAIN recorded : recorded'[i] = recorded[i]
      <3>1. recorded \in Seq(T)
        BY <1>3
      <3> QED
        BY <1>1, <3>1, RangeAppend
    <2>2. \A i \in DOMAIN recorded' : i \in DOMAIN recorded \/ i = Len(recorded) + 1
      BY <2>1
    <2>3. \A i, j \in DOMAIN recorded : recorded[i].ts = recorded[j].ts => i = j
      BY DEF Unique
    <2>4. /\ e.ts <= created /\ \A i \in DOMAIN recorded : recorded[i].ts # e.ts /\ recorded[i].ts <= created
      BY <1>0 DEF Unique
    <2> HIDE DEF e
    <2>5. \A i, j \in DOMAIN recorded' : recorded'[i].ts = recorded'[j].ts => i = j
      BY <2>1, <2>2, <2>3, <2>4
    <2>6. \A i \in DOMAIN recorded' : recorded'[i].ts <= created
      BY <2>1, <2>2, <2>4
    <2>7. ASSUME NEW v \in Writers, writer'[v].pc # "idle"
          PROVE  /\ writer'[v].event \in EventsOf(setting) /\ writer'[v].event.ts <= created
                 /\ \A i \in DOMAIN recorded' : recorded'[i].ts # writer'[v].event.ts
                 /\ \A u \in Writers : writer'[u].pc # "idle" /\ writer'[u].event.ts = writer'[v].event.ts
                      => u = v
      <3>1. v # w /\ writer'[v] = writer[v]
        BY <1>2, <2>7
      <3>2. /\ writer[v].event \in EventsOf(setting) /\ writer[v].event.ts <= created
            /\ \A i \in DOMAIN recorded : recorded[i].ts # writer[v].event.ts
            /\ \A u \in Writers : writer[u].pc # "idle" /\ writer[u].event.ts = writer[v].event.ts
                 => u = v
        BY <2>7, <3>1 DEF Unique
      <3>3. e.ts # writer[v].event.ts
        BY <1>0, <3>1, <3>2 DEF e
      <3> QED
        BY <1>2, <2>1, <2>2, <3>1, <3>2, <3>3
    <2> QED
      BY <2>5, <2>6, <2>7 DEF Unique
  <1>7. FilesAreSound(active', segments, recorded', dropped)
    <2>1. \A f \in segments : f.body \in Seq(EventsOf(setting))
      BY DEF Types, FilesOf
    <2> QED
      BY <1>1, <1>3, <1>4, <2>1, AppendKeepsFiles
  <1>8. Discipline'
    <2>1. \A v \in Writers : v # w => writer[v].pc \notin Holding
      BY <1>0 DEF Discipline
    <2>2. \A v \in Writers : writer'[v].pc \notin Holding
      BY <1>2, <2>1 DEF Holding
    <2>3. \A v \in Writers : lock' # v /\ writer'[v].pc \notin {"copied", "moved"}
      BY <1>1, <2>2, EventLogAssumption DEF Holding
    <2> QED
      BY <1>1, <2>2, <2>3 DEF Discipline
  <1>9. ReaderInv'
    <2>1. Range(active') = Range(active) \cup {e}
      BY <1>1, <1>3, RangeAppend
    <2>2. Range(active) \subseteq Range(active)' /\ e \in Range(active)'
      BY <2>1 DEF Range
    <2>3. rotations' \in Nat /\ rotations <= rotations'
      BY <1>1 DEF Types
    <2> QED
      BY <1>1, <2>2, <2>3, ReaderUndisturbed
  <1> QED
    BY <1>1, <1>5, <1>6, <1>7, <1>8, <1>9

LEMMA CrashKeeps ==
    ASSUME LogInv, NEW w \in Writers, Crash(w)
    PROVE  LogInv'
  <1> USE DEF LogInv
  <1>1. /\ \A v \in Writers : v # w => writer'[v] = writer[v]
        /\ writer'[w].pc = "idle"
        /\ writer' \in [Writers -> WritersOf(setting)]
    <2>1. IdleWriter \in WritersOf(setting) /\ IdleWriter.pc = "idle"
      BY DEF IdleWriter, WritersOf
    <2> QED
      BY <2>1 DEF Crash, Types
  <1>2. Types'
    BY <1>1 DEF Crash, Types
  <1>3. Unique(setting, recorded, writer', created)
    <2>1. \A v \in Writers : writer'[v].pc # "idle" =>
            writer[v].pc # "idle" /\ writer'[v].event = writer[v].event
      BY <1>1
    <2> QED
      BY <2>1, UniqueKept
  <1>4. Discipline'
    <2>1. \A v \in Writers : writer'[v].pc \in Holding <=> lock' = v
      BY <1>1, EventLogAssumption DEF Crash, Discipline, Holding
    <2>2. \A v \in Writers : writer'[v].pc \in {"copied", "moved"} => writer'[v] = writer[v]
      BY <1>1
    <2> QED
      BY <2>1, <2>2 DEF Crash, Discipline
  <1>5. ReaderInv'
    BY DEF Crash, ReaderInv
  <1> QED
    BY <1>2, <1>3, <1>4, <1>5 DEF Crash

\* While the lock is held the newest file is not expired.
LEMMA NewestIsKept ==
    ASSUME LogInv, NEW old \in Expired, lock # Nobody, NEW f \in segments, f.stamp = rotations
    PROVE  f \notin old
  <1> USE DEF LogInv
  <1> SUFFICES ASSUME f \in old PROVE FALSE
    OBVIOUS
  <1>1. old = segments
    <2>1. ASSUME NEW g \in segments \ old PROVE FALSE
      <3>1. f.stamp < g.stamp
        BY DEF Expired
      <3>2. g.stamp <= rotations /\ g.stamp \in Nat /\ rotations \in Nat
        BY DEF Discipline, Types, FilesOf
      <3> QED
        BY <3>1, <3>2
    <2> QED
      BY <2>1 DEF Expired
  <1> DEFINE all == Cardinality(segments)
  <1>2. all \in Nat /\ all # 0
    BY FS_CardinalityType, FS_EmptySet DEF Types
  <1>3. all \in ExpiredCounts
    BY <1>1 DEF Expired
  <1> HIDE DEF all
  <1> DEFINE excess == IF MaxSegments \in 1..all THEN all - MaxSegments ELSE 0
  <1>4. excess \in Nat /\ excess <= all - 1
    BY <1>2, EventLogAssumption
  <1>5. all \in excess..(IF RetentionDays THEN all - 1 ELSE excess)
    BY <1>3 DEF ExpiredCounts, all
  <1> HIDE DEF excess
  <1>6. (IF RetentionDays THEN all - 1 ELSE excess) <= all - 1
    BY <1>2, <1>4, EventLogAssumption
  <1> QED
    BY <1>2, <1>4, <1>5, <1>6, EventLogAssumption

LEMMA GcScanKeeps ==
    ASSUME LogInv, GcScan
    PROVE  LogInv'
  <1> USE DEF LogInv
  <1>1. PICK old \in Expired : doomed' = Stamps(old)
    BY DEF GcScan
  <1>2. /\ old \subseteq segments
        /\ \A f \in segments : f.stamp \in Stamps(old) <=> f \in old
        /\ \A f \in old, g \in segments \ old : f.stamp < g.stamp
    BY ExpiredIsOldest
  <1>3. UNCHANGED <<setting, active, segments, lock, writer, reader, created, rotations, recorded, dropped>>
    BY DEF GcScan
  <1>4. \A d \in doomed' : \E f \in old : d = f.stamp
    BY <1>1 DEF Stamps
  <1>5. Types'
    <2>1. doomed' \in SUBSET (Nat \ {0})
      BY <1>2, <1>4 DEF Types, FilesOf
    <2> QED
      BY <1>3, <2>1 DEF Types
  <1>6. Discipline'
    <2>1. ASSUME NEW w \in Writers, writer[w].pc \in {"copied", "moved"}
          PROVE  rotations \notin doomed'
      <3>1. lock = w /\ lock # Nobody
        BY <2>1, EventLogAssumption DEF Discipline, Holding
      <3>2. PICK f \in segments : f.stamp = rotations
        BY <2>1 DEF Discipline
      <3>3. f \notin old
        BY <3>1, <3>2, NewestIsKept
      <3> QED
        BY <1>1, <1>2, <3>2, <3>3
    <2>2. \A d \in doomed' : d <= rotations
      BY <1>2, <1>4 DEF Discipline
    <2>3. \A f \in segments : f.stamp \notin doomed' => \A d \in doomed' : d < f.stamp
      BY <1>1, <1>2, <1>4
    <2> QED
      BY <1>3, <2>1, <2>2, <2>3 DEF Discipline
  <1>7. ReaderInv'
    BY <1>3 DEF ReaderInv
  <1> QED
    BY <1>3, <1>5, <1>6, <1>7

LEMMA GcUnlinkKeeps ==
    ASSUME LogInv, GcUnlink
    PROVE  LogInv'
  <1> USE DEF LogInv
  <1>1. PICK stamp \in doomed : /\ \A other \in doomed : stamp <= other
                                /\ Unlink({stamp})
                                /\ doomed' = doomed \ {stamp}
    BY DEF GcUnlink
  <1>2. UNCHANGED <<setting, active, lock, writer, reader, created, rotations, recorded>>
    BY DEF GcUnlink
  <1>3. \A f, g \in segments : f.stamp \in {stamp} /\ g.stamp \notin {stamp} => f.stamp < g.stamp
    <2> SUFFICES ASSUME NEW g \in segments, g.stamp # stamp PROVE stamp < g.stamp
      OBVIOUS
    <2>1. stamp \in Nat /\ g.stamp \in Nat
      BY DEF Types, FilesOf
    <2>2. CASE g.stamp \in doomed
      BY <1>1, <2>1, <2>2
    <2>3. CASE g.stamp \notin doomed
      BY <2>3 DEF Discipline
    <2> QED
      BY <2>2, <2>3
  <1>4. /\ segments' = {f \in segments : f.stamp \notin {stamp}}
        /\ segments' \in SUBSET FilesOf(setting) /\ IsFiniteSet(segments')
        /\ dropped' \in SUBSET EventsOf(setting)
        /\ FilesAreSound(active, segments', recorded, dropped')
        /\ ReaderInv'
    BY <1>1, <1>2, <1>3, UnlinkKeeps
  <1>5. Types'
    BY <1>1, <1>2, <1>4 DEF Types
  <1>6. Discipline'
    <2>1. ASSUME NEW w \in Writers, writer[w].pc \in {"copied", "moved"}
          PROVE  /\ rotations \notin doomed'
                 /\ \E f \in segments' : /\ f.stamp = rotations /\ f.body = RotatedLines(active)
                                         /\ writer[w].pc = "moved" => ~f.tmp
      <3>1. rotations \notin doomed /\ stamp # rotations
        BY <1>1, <2>1 DEF Discipline
      <3> QED
        BY <1>1, <1>4, <2>1, <3>1 DEF Discipline
    <2>2. \A f \in segments' : f.stamp \notin doomed' => \A d \in doomed' : d < f.stamp
      BY <1>1, <1>4 DEF Discipline
    <2> QED
      BY <1>1, <1>2, <1>4, <2>1, <2>2 DEF Discipline
  <1> QED
    BY <1>2, <1>4, <1>5, <1>6

\* Reader steps change nothing but the reader.
OnlyReader ==
    UNCHANGED <<setting, active, segments, lock, writer, doomed, created, rotations, recorded, dropped>>

LEMMA ReaderStep ==
    ASSUME LogInv, OnlyReader, reader' \in ReadersOf(setting), ReaderInv'
    PROVE  LogInv'
  <1> USE DEF LogInv, OnlyReader
  <1>1. Types'
    BY DEF Types
  <1>2. Discipline'
    BY DEF Discipline
  <1> QED
    BY <1>1, <1>2

LEMMA ListPathsKeeps ==
    ASSUME LogInv, ListPaths
    PROVE  LogInv'
  <1> USE DEF LogInv
  <1> DEFINE names == {[stamp |-> f.stamp, tmp |-> f.tmp] : f \in segments}
             owed == Range(RotatedLines(recorded)) \ dropped
  <1>1. OnlyReader
    BY DEF ListPaths, OnlyReader
  <1>2. /\ names \in SUBSET [stamp : Nat \ {0}, tmp : BOOLEAN]
        /\ \A n \in names : n.stamp <= rotations
    BY DEF Types, FilesOf, Discipline
  <1>3. owed \in SUBSET EventsOf(setting)
    <2>1. RotatedLines(recorded) \in Seq(EventsOf(setting))
      BY Halves DEF Types
    <2> QED
      BY <2>1 DEF Range
  <1>4. reader' = [IdleReader EXCEPT !.pc = "segments", !.todo = names, !.due = owed]
    BY DEF ListPaths
  <1> HIDE DEF names, owed
  <1>5. reader' \in [pc : {"segments"}, todo : {names}, answers : {<<>>}, outcomes : {<<>>},
                     due : {owed}, moved : {{}}, seen : {0}]
    <2>1. IdleReader \in [pc : {"idle"}, todo : {{}}, answers : {<<>>}, outcomes : {<<>>},
                          due : {{}}, moved : {{}}, seen : {0}]
      BY DEF IdleReader
    <2> QED
      BY <1>4, <2>1
  <1>6. reader' \in ReadersOf(setting)
    <2> DEFINE nil == <<>>
    <2>1. nil \in Seq(EventsOf(setting)) /\ {} \in SUBSET EventsOf(setting) /\ 0 \in Nat
      OBVIOUS
    <2>2. reader' \in [pc : {"segments"}, todo : {names}, answers : {nil}, outcomes : {nil},
                       due : {owed}, moved : {{}}, seen : {0}]
      BY <1>5
    <2> HIDE DEF nil
    <2> QED
      BY <1>2, <1>3, <2>1, <2>2 DEF ReadersOf
  <1>7. /\ reader'.pc = "segments" /\ reader'.todo = names /\ reader'.answers = <<>>
        /\ reader'.moved = {} /\ reader'.due = owed /\ reader'.seen = 0
    BY <1>5
  <1>8. ReadingIsSound(reader', active, segments, recorded, dropped)
    BY <1>7, ListingStartsSound DEF names, owed, Types
  <1>9. ReaderInv'
    BY <1>1, <1>2, <1>7, <1>8 DEF OnlyReader, ReaderInv
  <1> QED
    BY <1>1, <1>6, <1>9, ReaderStep

LEMMA ReadSegmentKeeps ==
    ASSUME LogInv, ReadSegment
    PROVE  LogInv'
  <1> USE DEF LogInv
  <1>1. OnlyReader /\ reader.pc = "segments"
    BY DEF ReadSegment, OnlyReader
  <1>2. PICK name \in reader.todo, f \in segments :
          /\ f.stamp = name.stamp /\ f.tmp = name.tmp
          /\ IsNext(name)
          /\ \E n \in 0..Len(f.body) :
               /\ ~f.tmp => n = Len(f.body)
               /\ reader' = [reader EXCEPT !.todo = @ \ {name},
                               !.answers = @ \o SubSeq(f.body, 1, n)]
    BY ZenonT(60) DEF ReadSegment, Named
  <1>3. PICK n \in 0..Len(f.body) :
               /\ ~f.tmp => n = Len(f.body)
               /\ reader' = [reader EXCEPT !.todo = @ \ {name},
                               !.answers = @ \o SubSeq(f.body, 1, n)]
    BY <1>2
  <1>4. /\ reader \in ReadersOf(setting) /\ f.body \in Seq(EventsOf(setting))
        /\ reader.todo \in SUBSET [stamp : Nat \ {0}, tmp : BOOLEAN]
        /\ reader.answers \in Seq(EventsOf(setting))
    BY DEF Types, ReadersOf, FilesOf
  <1>5. SubSeq(f.body, 1, n) \in Seq(EventsOf(setting))
    BY <1>3, <1>4
  <1>6. reader.answers \o SubSeq(f.body, 1, n) \in Seq(EventsOf(setting))
    BY <1>4, <1>5
  <1>7. /\ reader' \in ReadersOf(setting)
        /\ reader'.pc = "segments" /\ reader'.todo = reader.todo \ {name}
        /\ reader'.answers = reader.answers \o SubSeq(f.body, 1, n)
        /\ reader'.due = reader.due /\ reader'.moved = reader.moved /\ reader'.seen = reader.seen
    BY <1>1, <1>3, <1>4, <1>6 DEF ReadersOf
  <1>8. /\ ReadingIsSound(reader, active, segments, recorded, dropped)
        /\ \A m \in reader.todo : m.stamp <= rotations
        /\ reader.seen = 0
    BY <1>1 DEF ReaderInv
  <1>9. ReadingIsSound(reader', active, segments, recorded, dropped)
    <2>1. NoRepeats(recorded)
      BY RecordedOnce
    <2>2. \A m \in reader.todo : name.stamp <= m.stamp
      BY <1>2 DEF IsNext
    <2>3. setting \in Settings /\ segments \in SUBSET FilesOf(setting) /\ recorded \in Seq(EventsOf(setting))
      BY DEF Types
    <2> HIDE DEF LogInv
    <2>4. FilesAreSound(active, segments, recorded, dropped)
      BY DEF LogInv
    <2>5. /\ f.stamp = name.stamp /\ f.tmp = name.tmp /\ (~f.tmp => n = Len(f.body))
          /\ reader'.todo = reader.todo \ {name}
          /\ reader'.answers = reader.answers \o SubSeq(f.body, 1, n)
          /\ reader'.due = reader.due /\ reader'.moved = reader.moved
          /\ reader \in ReadersOf(setting)
          /\ ReadingIsSound(reader, active, segments, recorded, dropped)
      BY <1>2, <1>3, <1>4, <1>7, <1>8
    <2> QED
      BY <2>1, <2>2, <2>3, <2>4, <2>5, SegmentReadSound
  <1>10. ReaderInv'
    BY <1>1, <1>7, <1>8, <1>9 DEF OnlyReader, ReaderInv
  <1> QED
    BY <1>1, <1>7, <1>10, ReaderStep

LEMMA ReadActiveKeeps ==
    ASSUME LogInv, ReadActive
    PROVE  LogInv'
  <1> USE DEF LogInv
  <1>1. /\ OnlyReader /\ reader.pc = "segments" /\ reader.todo = {}
        /\ reader' = [reader EXCEPT !.pc = "answers", !.answers = @ \o RotatedLines(active),
                                    !.seen = Len(recorded)]
    BY DEF ReadActive, OnlyReader
  <1>2. /\ setting \in Settings /\ active \in Seq(EventsOf(setting)) /\ recorded \in Seq(EventsOf(setting))
        /\ reader \in ReadersOf(setting) /\ reader.answers \in Seq(EventsOf(setting))
    BY DEF Types, ReadersOf
  <1>3. RotatedLines(active) \in Seq(EventsOf(setting)) /\ Len(recorded) \in Nat
    BY <1>2, Halves
  <1>4. reader.answers \o RotatedLines(active) \in Seq(EventsOf(setting))
    BY <1>2, <1>3
  <1>5. /\ reader' \in ReadersOf(setting)
        /\ reader'.pc = "answers" /\ reader'.answers = reader.answers \o RotatedLines(active)
        /\ reader'.seen = Len(recorded) /\ reader'.due = reader.due /\ reader'.moved = reader.moved
    BY <1>1, <1>2, <1>3, <1>4 DEF ReadersOf
  <1>6. ReadingIsSound(reader, active, segments, recorded, dropped)
    BY <1>1 DEF ReaderInv
  <1>7. NoRepeats(recorded) /\ FilesAreSound(active, segments, recorded, dropped)
    BY RecordedOnce
  <1>8. ReadIsSound(reader', recorded, dropped)
    <2> HIDE DEF LogInv
    <2> QED
      BY <1>1, <1>2, <1>5, <1>6, <1>7, ActiveReadSound
  <1>9. ReaderInv'
    BY <1>1, <1>5, <1>8 DEF OnlyReader, ReaderInv
  <1> QED
    BY <1>1, <1>5, <1>9, ReaderStep

LEMMA ReadOutcomesKeeps ==
    ASSUME LogInv, ReadOutcomes
    PROVE  LogInv'
  <1> USE DEF LogInv
  <1>1. /\ OnlyReader /\ reader.pc = "answers"
        /\ reader' = [reader EXCEPT !.pc = "done", !.outcomes = OfKinds(active, {"answer_outcome"})]
    BY DEF ReadOutcomes, OnlyReader
  <1>2. reader \in ReadersOf(setting) /\ active \in Seq(EventsOf(setting))
    BY DEF Types
  <1>3. OfKinds(active, {"answer_outcome"}) \in Seq(EventsOf(setting))
    BY <1>2, OfKindsType
  <1>4. /\ reader' \in ReadersOf(setting)
        /\ reader'.pc = "done" /\ reader'.answers = reader.answers
        /\ reader'.seen = reader.seen /\ reader'.due = reader.due /\ reader'.moved = reader.moved
    BY <1>1, <1>2, <1>3 DEF ReadersOf
  <1>5. ReadIsSound(reader, recorded, dropped)
    BY <1>1 DEF ReaderInv
  <1>6. ReadIsSound(reader', recorded, dropped)
    BY <1>4, <1>5 DEF ReadIsSound
  <1>7. ReaderInv'
    BY <1>1, <1>4, <1>6 DEF OnlyReader, ReaderInv
  <1> QED
    BY <1>1, <1>4, <1>7, ReaderStep

LEMMA ReadEndKeeps ==
    ASSUME LogInv, FailRead \/ EndRead
    PROVE  LogInv'
  <1> USE DEF LogInv
  <1>1. OnlyReader /\ (reader' = IdleReader \/ reader' = [IdleReader EXCEPT !.pc = "failed"])
    BY DEF FailRead, EndRead, OnlyReader
  <1>2. reader' \in [pc : {"idle", "failed"}, todo : {{}}, answers : {<<>>}, outcomes : {<<>>},
                     due : {{}}, moved : {{}}, seen : {0}]
    <2>1. IdleReader \in [pc : {"idle"}, todo : {{}}, answers : {<<>>}, outcomes : {<<>>},
                          due : {{}}, moved : {{}}, seen : {0}]
      BY DEF IdleReader
    <2> QED
      BY <1>1, <2>1
  <1>3. reader' \in ReadersOf(setting) /\ reader'.pc \in {"idle", "failed"} /\ reader'.seen = 0
    <2> DEFINE nil == <<>>
    <2>1. nil \in Seq(EventsOf(setting)) /\ {} \in SUBSET EventsOf(setting) /\ 0 \in Nat
      OBVIOUS
    <2>2. reader' \in [pc : {"idle", "failed"}, todo : {{}}, answers : {nil}, outcomes : {nil},
                       due : {{}}, moved : {{}}, seen : {0}]
      BY <1>2
    <2> HIDE DEF nil
    <2>3. reader' \in ReadersOf(setting)
      BY <2>1, <2>2 DEF ReadersOf
    <2> QED
      BY <2>2, <2>3
  <1>4. ReaderInv'
    BY <1>1, <1>3 DEF OnlyReader, ReaderInv
  <1> QED
    BY <1>1, <1>3, <1>4, ReaderStep

LEMMA NextInv == LogInv /\ [Next]_vars => LogInv'
  <1> SUFFICES ASSUME LogInv, [Next]_vars PROVE LogInv'
    OBVIOUS
  <1>1. ASSUME NEW w \in Writers, Write(w) PROVE LogInv'
    BY <1>1, CreateKeeps, LockKeeps, CopyOutKeeps, ReplaceSegmentKeeps, ReplaceActiveKeeps,
       RetainKeeps, WriteLineKeeps, CrashKeeps DEF Write, FinishAppend
  <1>2. CASE Gc
    BY <1>2, GcScanKeeps, GcUnlinkKeeps DEF Gc
  <1>3. CASE Read
    BY <1>3, ListPathsKeeps, ReadSegmentKeeps, ReadActiveKeeps, ReadOutcomesKeeps, ReadEndKeeps DEF Read
  <1>4. CASE UNCHANGED vars
    BY <1>4 DEF vars, LogInv, Types, Discipline, ReaderInv
  <1> QED
    BY <1>1, <1>2, <1>3, <1>4 DEF Next

LEMMA LogIsSound == Spec => []LogInv
  BY InitInv, NextInv, PTL DEF Spec

-----------------------------------------------------------------------------
(* Theorems                                                                 *)

\* Whatever writers, kills, retention and gc do in between, an event whose append
\* returned is in the active file or in a finished segment until the last file
\* that has it is removed, and durable events keep their order (events.py: append,
\* _rotate, _apply_retention; gc.py).
THEOREM EventsAreKept == Spec => []LogKeepsEvents
  <1>1. LogInv => LogKeepsEvents
    <2> SUFFICES ASSUME LogInv PROVE LogKeepsEvents
      OBVIOUS
    <2>1. Events = EventsOf(setting) /\ Files = FilesOf(setting)
      BY DEF Events, Files, EventsOf, FilesOf
    <2>2. reader.seen \in 0..Len(recorded)
      <3>1. reader.seen \in Nat /\ Len(recorded) \in Nat
        BY DEF LogInv, Types, ReadersOf
      <3>2. reader.seen <= Len(recorded)
        BY <3>1 DEF LogInv, ReaderInv, ReadIsSound
      <3> QED
        BY <3>1, <3>2
    <2>3. TypeOK
      BY <2>1, <2>2 DEF LogInv, Types, TypeOK, WritersOf, ReadersOf, Holding
    <2>4. NoEventLost /\ OthersInOrder
      BY DEF LogInv, FilesAreSound, NoEventLost, OthersInOrder
    <2> QED
      BY <2>3, <2>4 DEF LogKeepsEvents
  <1> QED
    BY <1>1, LogIsSound, PTL

\* A reader that takes no lock misses only answers that a rotation moved while it
\* read (events.py: event_log_paths, read_events).
THEOREM ReadersMissOnlyMoved == Spec => []ReaderMissesOnlyMoved
  <1>1. LogInv => ReaderMissesOnlyMoved
    BY DEF LogInv, ReaderInv, ReadIsSound, ReaderMissesOnlyMoved
  <1> QED
    BY <1>1, LogIsSound, PTL

-----------------------------------------------------------------------------
(* The marks                                                                *)

LEMMA GreatestIndex ==
    ASSUME NEW n \in Nat, NEW S \in SUBSET (1..n), S # {}
    PROVE  \E x \in S : \A y \in S : y <= x
  <1> DEFINE D == {n - x : x \in S}
  <1>1. D \in SUBSET Nat /\ D # {}
    <2>1. \A x \in S : n - x \in Nat
      OBVIOUS
    <2>2. D \subseteq Nat
      BY <2>1
    <2>3. PICK x : x \in S
      OBVIOUS
    <2>4. n - x \in D
      BY <2>3
    <2> QED
      BY <2>2, <2>4
  <1>2. PICK d \in D : \A e \in D : d <= e
    <2> HIDE DEF D
    <2> QED
      BY <1>1, LeastNatural
  <1>3. PICK x \in S : d = n - x
    OBVIOUS
  <1>4. ASSUME NEW y \in S PROVE y <= x
    <2>1. n - x <= n - y
      BY <1>2, <1>3
    <2>2. x \in Nat /\ y \in Nat /\ n \in Nat
      OBVIOUS
    <2> HIDE DEF D
    <2> QED
      BY <2>1, <2>2
  <1> QED
    BY <1>4

\* What a reader found, against the history up to the moment it read the active file.
FindsThePast(answers, past, gone) ==
    /\ \A e \in Range(answers) : IsRotatedKind(e) /\ e \in Range(past)
    /\ \A z \in Range(past) : IsRotatedKind(z) => z \in gone \/ z \in Range(answers)
    /\ \A i \in DOMAIN answers, z \in Range(past) :
         IsRotatedKind(z) /\ Later(answers[i], z, past) =>
           \E j \in DOMAIN answers : i < j /\ answers[j] = z

\* The last answer a reader found to a query is the last one that was served,
\* unless that one is gone.
LEMMA LastAnswerIsLast ==
    ASSUME NEW st \in Settings, NEW answers \in Seq(EventsOf(st)), NEW past \in Seq(EventsOf(st)),
           NEW gone, FindsThePast(answers, past, gone), NEW ref
    PROVE  /\ ByHash(answers, ref) \subseteq ByHash(RotatedLines(past), ref)
           /\ ByHash(RotatedLines(past), ref) \cap gone = {} =>
                ByHash(RotatedLines(past), ref) \subseteq ByHash(answers, ref)
  <1> DEFINE served == RotatedLines(past)
  <1>1. InOrder(past, past)
    BY DEF InOrder, Later
  <1>2. /\ served \in Seq(EventsOf(st)) /\ Range(served) = {e \in Range(past) : IsRotatedKind(e)}
        /\ InOrder(served, past)
    BY <1>1, Halves
  <1> HIDE DEF served
  <1>3. /\ DOMAIN served = 1..Len(served) /\ Len(served) \in Nat
        /\ DOMAIN answers = 1..Len(answers) /\ Len(answers) \in Nat
    BY <1>2
  <1>4. ASSUME NEW i \in DOMAIN answers PROVE \E p \in DOMAIN served : served[p] = answers[i]
    <2>1. answers[i] \in Range(answers)
      BY DEF Range
    <2>2. answers[i] \in Range(served)
      BY <1>2, <2>1 DEF FindsThePast
    <2> QED
      BY <2>2 DEF Range
  \* A later served answer was read later.
  <1>5. ASSUME NEW i \in DOMAIN answers, NEW p \in DOMAIN served, NEW q \in DOMAIN served,
               served[p] = answers[i], p < q
        PROVE  \E j \in DOMAIN answers : i < j /\ answers[j] = served[q]
    <2>1. Later(answers[i], served[q], past)
      BY <1>2, <1>5 DEF InOrder
    <2>2. served[q] \in Range(served)
      BY DEF Range
    <2>3. served[q] \in Range(past) /\ IsRotatedKind(served[q])
      BY <1>2, <2>2
    <2> QED
      BY <2>1, <2>3 DEF FindsThePast
  <1>6. ASSUME NEW a \in ByHash(answers, ref) PROVE a \in ByHash(served, ref)
    <2>1. PICK i \in DOMAIN answers :
            /\ a = answers[i] /\ answers[i].what.ref = ref
            /\ \A k \in DOMAIN answers : k > i => answers[k].what.ref # ref
      BY DEF ByHash
    <2>2. PICK p \in DOMAIN served : served[p] = answers[i]
      BY <1>4
    <2>3. ASSUME NEW q \in DOMAIN served, q > p PROVE served[q].what.ref # ref
      <3>1. p < q
        BY <1>3, <2>3
      <3>2. PICK j \in DOMAIN answers : i < j /\ answers[j] = served[q]
        BY <1>5, <2>2, <3>1
      <3>3. j > i
        BY <1>3, <3>2
      <3> QED
        BY <2>1, <3>2, <3>3
    <2> QED
      BY <2>1, <2>2, <2>3 DEF ByHash
  <1>7. ASSUME ByHash(served, ref) \cap gone = {}, NEW a \in ByHash(served, ref)
        PROVE  a \in ByHash(answers, ref)
    <2>1. PICK p \in DOMAIN served :
            /\ a = served[p] /\ served[p].what.ref = ref
            /\ \A k \in DOMAIN served : k > p => served[k].what.ref # ref
      BY DEF ByHash
    <2>2. a \in Range(served)
      BY <2>1 DEF Range
    <2>3. a \in Range(answers)
      BY <1>2, <1>7, <2>2 DEF FindsThePast
    <2> DEFINE S == {i \in DOMAIN answers : answers[i].what.ref = ref}
    <2>4. S \in SUBSET (1..Len(answers)) /\ S # {}
      BY <1>3, <2>1, <2>3 DEF Range
    <2>5. PICK i \in S : \A k \in S : k <= i
      <3> HIDE DEF S
      <3> QED
        BY <1>3, <2>4, GreatestIndex
    <2>6. \A k \in DOMAIN answers : k > i => answers[k].what.ref # ref
      BY <1>3, <2>5
    <2>7. PICK q \in DOMAIN served : served[q] = answers[i]
      BY <1>4, <2>5
    <2>8. ~(q < p)
      <3> SUFFICES ASSUME q < p PROVE FALSE
        OBVIOUS
      <3>1. PICK j \in DOMAIN answers : i < j /\ answers[j] = served[p]
        BY <1>5, <2>5, <2>7
      <3>2. j > i
        BY <1>3, <2>5, <3>1
      <3> QED
        BY <2>1, <2>6, <3>1, <3>2
    <2>9. ~(q > p)
      BY <2>1, <2>5, <2>7
    <2>10. q = p
      BY <1>3, <2>8, <2>9
    <2> QED
      BY <2>1, <2>5, <2>6, <2>7, <2>10 DEF ByHash
  <1> QED
    BY <1>6, <1>7 DEF served

\* However the log was rotated, duplicated by kills and pruned, a mark counts for
\* the binding that served its query last, before the mark or after it, or for
\* none, and a binding is capped only for a query it served last (history.py:
\* from_project; signals.py: is_capped).
THEOREM MarksAreJoinedToLast == Spec => []MarksFollowLastAnswer
  <1>1. LogInv => MarksFollowLastAnswer
    <2> SUFFICES ASSUME LogInv PROVE MarksFollowLastAnswer
      OBVIOUS
    <2> DEFINE past == SubSeq(recorded, 1, reader.seen)
               answers == reader.answers
               outcomes == reader.outcomes
    <2>0. /\ setting \in Settings /\ answers \in Seq(EventsOf(setting))
          /\ recorded \in Seq(EventsOf(setting)) /\ outcomes \in Seq(EventsOf(setting))
          /\ reader.seen \in Nat
      BY DEF LogInv, Types, ReadersOf
    <2>1. ASSUME reader.pc = "done"
          PROVE  /\ ReadIsSound(reader, recorded, dropped) /\ past \in Seq(EventsOf(setting))
                 /\ Range(past) \subseteq Range(recorded)
      <3>1. ReadIsSound(reader, recorded, dropped)
        BY <2>1 DEF LogInv, ReaderInv
      <3>2. reader.seen <= Len(recorded)
        BY <3>1 DEF ReadIsSound
      <3>3. /\ past \in Seq(EventsOf(setting)) /\ DOMAIN past = 1..reader.seen
            /\ \A i \in 1..reader.seen : past[i] = recorded[i] /\ i \in DOMAIN recorded
        BY <2>0, <3>2
      <3> HIDE DEF past
      <3>4. Range(past) \subseteq Range(recorded)
        BY <3>3 DEF Range
      <3> QED
        BY <3>1, <3>3, <3>4
    <2>2. Served = RotatedLines(past)
      BY DEF Served
    <2>3. ASSUME reader.pc = "done", reader.moved = {}, NEW ref
          PROVE  /\ ByHash(answers, ref) \subseteq ByHash(Served, ref)
                 /\ ByHash(Served, ref) \cap dropped = {} =>
                      ByHash(Served, ref) \subseteq ByHash(answers, ref)
      <3>1. FindsThePast(answers, past, dropped)
        BY <2>1, <2>3 DEF ReadIsSound, FindsThePast
      <3> HIDE DEF past, answers
      <3> QED
        BY <2>0, <2>1, <2>2, <2>3, <3>1, LastAnswerIsLast
    <2>4. MarksKeepTheirBinding
      <3> SUFFICES ASSUME reader.pc = "done", reader.moved = {}
                   PROVE  /\ Found \subseteq Known
                          /\ \A r \in Known : ByHash(Served, r.ref) \cap dropped = {} => r \in Found
        BY DEF MarksKeepTheirBinding
      <3>3. ASSUME NEW ref
            PROVE  /\ ByHash(answers, ref) \subseteq ByHash(Served, ref)
                   /\ ByHash(Served, ref) \cap dropped = {} =>
                        ByHash(Served, ref) \subseteq ByHash(answers, ref)
        BY <2>3
      <3> HIDE DEF past, answers, outcomes
      <3>4. Found = Records(answers, outcomes) /\ Known = Records(Served, outcomes)
        BY DEF Found, Known, answers, outcomes
      <3>5. Found \subseteq Known
        BY <3>3, <3>4 DEF Records
      <3>6. ASSUME NEW r \in Known, ByHash(Served, r.ref) \cap dropped = {} PROVE r \in Found
        <4>1. PICK o \in LatestOutcomeByRef(outcomes) :
                \E a \in ByHash(Served, o.what.ref) : \E m \in DOMAIN a.what.resolved :
                  r = RecordOf(o, a, m)
          BY <3>4 DEF Records
        <4>2. PICK a \in ByHash(Served, o.what.ref) : \E m \in DOMAIN a.what.resolved :
                r = RecordOf(o, a, m)
          BY <4>1
        <4>3. r.ref = o.what.ref
          BY <4>2 DEF RecordOf
        <4>4. a \in ByHash(answers, o.what.ref)
          BY <3>3, <3>6, <4>3
        <4> QED
          BY <3>4, <4>2, <4>4 DEF Records
      <3> QED
        BY <3>5, <3>6
    <2>5. CapIsEarned
      <3> SUFFICES ASSUME reader.pc = "done", NEW b \in Bindings, IsCapped(Found, b, 1)
                   PROVE  \E k \in DOMAIN outcomes :
                            LET mark == outcomes[k].what
                            IN  /\ mark.verdict = "wrong_definition"
                                /\ \A l \in k + 1 .. Len(outcomes) : outcomes[l].what.ref # mark.ref
                                /\ \E e \in Range(recorded) :
                                     /\ IsRotatedKind(e) /\ e.what.ref = mark.ref
                                     /\ b \in Range(e.what.resolved)
                                     /\ reader.moved = {} => e \in ByHash(Served, mark.ref)
        BY DEF CapIsEarned
      <3>1. PICK r \in Found : r.binding = b /\ r.verdict = "wrong_definition"
        BY DEF IsCapped, WrongDefinition
      <3>2. PICK o \in LatestOutcomeByRef(outcomes) :
              \E a \in ByHash(answers, o.what.ref) : \E m \in DOMAIN a.what.resolved :
                r = RecordOf(o, a, m)
        BY <3>1 DEF Found, Records
      <3>3. PICK a \in ByHash(answers, o.what.ref) : \E m \in DOMAIN a.what.resolved :
              r = RecordOf(o, a, m)
        BY <3>2
      <3>4. PICK m \in DOMAIN a.what.resolved : r = RecordOf(o, a, m)
        BY <3>3
      <3>5. r.binding = a.what.resolved[m] /\ r.verdict = o.what.verdict
        BY <3>4 DEF RecordOf
      <3>6. PICK k \in DOMAIN outcomes :
              /\ o = outcomes[k]
              /\ \A l \in DOMAIN outcomes : l > k => outcomes[l].what.ref # o.what.ref
        BY DEF LatestOutcomeByRef
      <3>7. \A l \in k + 1 .. Len(outcomes) : l \in DOMAIN outcomes /\ l > k
        <4> HIDE DEF outcomes
        <4> QED
          BY <2>0
      <3>8. a \in Range(answers) /\ a.what.ref = o.what.ref
        BY DEF ByHash, Range
      <3>9. IsRotatedKind(a) /\ a \in Range(recorded)
        <4>1. \A e \in Range(answers) : IsRotatedKind(e) /\ e \in Range(past)
          BY <2>1 DEF ReadIsSound
        <4> HIDE DEF past, answers
        <4> QED
          BY <2>1, <3>8, <4>1
      <3>10. b \in Range(a.what.resolved)
        BY <3>1, <3>5 DEF Range
      <3>11. reader.moved = {} => a \in ByHash(Served, o.what.ref)
        BY <2>3
      <3> HIDE DEF outcomes, answers, past
      <3> QED
        BY <3>1, <3>5, <3>6, <3>7, <3>8, <3>9, <3>10, <3>11
    <2> QED
      BY <2>4, <2>5 DEF MarksFollowLastAnswer
  <1> QED
    BY <1>1, LogIsSound, PTL

=============================================================================
