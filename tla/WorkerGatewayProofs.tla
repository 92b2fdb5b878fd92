------------------------ MODULE WorkerGatewayProofs ------------------------
(***************************************************************************)
(* Proofs about WorkerGateway: type correctness, that only the newest      *)
(* lease of a request decides its outcome, that what was accepted stays    *)
(* the outcome in memory and in the file, and that repeated calls are      *)
(* answered alike.                                                         *)
(***************************************************************************)
EXTENDS WorkerGateway, FiniteSetTheorems, WellFoundedInduction, TLAPS

-----------------------------------------------------------------------------
(* The inductive invariant.  Most handlers change records twice, by the
   sweep and by their own store, and a record may be in memory, in its file or
   in both: what is said of one is said of its value, against the number mk of
   requests and ls of leases and the histories gr, de, ac and to. *)

Grant == [request : Requests, lease : 1..MaxLeases, token : 1..MaxLeases]

Answers ==
    [key : Keys \cup {NoKey}, request : Requests, state : Terminal,
     result : Results \cup {NoResult}]

\* The outcome of record r was reported under the lease that has its token.
FromReport(r, rec, de) ==
    \E d \in de :
        d.request = r /\ d.token = rec.token /\ d.state = rec.state /\ d.result = rec.result

\* A record is as new as every lease of its request, and has the outcome that
\* the host or a caller was told.
RecordFine(r, rec, mk, ls, gr, de, ac, to) ==
    /\ rec \in Record \cup {Gone}
    /\ rec # Gone =>
        /\ r <= mk
        /\ rec.token <= ls
        /\ \A g \in gr : g.request = r => g.token <= rec.token
        /\ rec.state \in Outcomes => FromReport(r, rec, de)
        /\ \A a \in ac : a.request = r => rec.state = a.state /\ rec.result = a.result
        /\ \A t \in to : t.request = r =>
              rec.key = t.key /\ rec.state = t.state /\ rec.result = t.result

\* Only the file of an open record may be newer than memory.
RowFine(r, m, d, mk, ls, gr, de, ac, to) ==
    /\ RecordFine(r, m, mk, ls, gr, de, ac, to)
    /\ RecordFine(r, d, mk, ls, gr, de, ac, to)
    /\ m.state \in Terminal => d = m

\* Leases and reports are of requests that were made.
GrantsFine(mk, gr) == gr \subseteq Grant /\ \A g \in gr : g.request <= mk

ReportsFine(mk, reps) == reps \subseteq Report /\ \A rep \in reps : rep.request <= mk

\* A request has one outcome.
ToldFine(mk, to) ==
    /\ to \subseteq Answers
    /\ \A t \in to : t.request <= mk
    /\ \A a, b \in to : a.request = b.request => a = b

\* FromNewest, of the histories gr and de.
NewestFor(o, gr, de) ==
    \E d \in de :
        /\ d.request = o.request /\ d.state = o.state /\ d.result = o.result
        /\ \A g \in gr : g.request = o.request => g.token <= d.token

Newest(gr, de, ac, to) ==
    /\ \A a \in ac : NewestFor(a, gr, de)
    /\ \A t \in to : t.state \in Outcomes => NewestFor(t, gr, de)

\* As long as no write was torn, the files are what memory is, a key has one
\* record, and a record a caller was told of is there until its key is dropped.
KeysFine(m, d, to, dr) ==
    /\ d = m
    /\ \A p, q \in Requests :
          m[p] # Gone /\ m[q] # Gone /\ m[p].key = m[q].key /\ m[p].key # NoKey => p = q
    /\ \A t \in to : t.key # NoKey /\ t.key \notin dr => m[t.request] # Gone

RowsFine(m, d, mk, ls, gr, de, ac, to) ==
    /\ m \in [Requests -> Record \cup {Gone}]
    /\ d \in [Requests -> Record \cup {Gone}]
    /\ \A r \in Requests : RowFine(r, m[r], d[r], mk, ls, gr, de, ac, to)

HistFine(mk, gr, la, de, ac, to) ==
    /\ GrantsFine(mk, gr)
    /\ ReportsFine(mk, la)
    /\ ReportsFine(mk, de)
    /\ ReportsFine(mk, ac)
    /\ ToldFine(mk, to)
    /\ Newest(gr, de, ac, to)

Counted == made \in 0..MaxRequests /\ leases \in 0..MaxLeases

HostFine == host \subseteq granted /\ Cardinality(host) <= 1

FaultsFine == torn \in 0..faults /\ faults \in 0..MaxFaults

IInv ==
    /\ Counted
    /\ HostFine
    /\ FaultsFine
    /\ HistFine(made, granted, late, decided, accepted, told)
    /\ RowsFine(mem, disk, made, leases, granted, decided, accepted, told)
    /\ torn = 0 => KeysFine(mem, disk, told, dropped)

-----------------------------------------------------------------------------
(* One record *)

LEMMA BoundsAreNumbers ==
    /\ MaxRequests \in Nat /\ MaxLeases \in Nat /\ MaxActive \in Nat /\ MaxFaults \in Nat
    /\ RequestTTL \in Nat /\ LeaseTTL \in Nat
    /\ 0 \in 0..MaxLeases /\ 0 \in 0..LeaseTTL
BY GatewayBoundsAssumption, TimesAssumption

LEMMA GoneIsNoRecord == Gone \notin Record
BY DEF Gone, Record, Terminal, Outcomes

\* What was reported, or told, is an outcome: a record that is still open has
\* no such history.
OnlyOutcomes(ac, to) ==
    /\ \A a \in ac : a.state \in Terminal
    /\ \A t \in to : t.state \in Terminal

\* The sweep turns a record into a record, deletes only one that has ended, and
\* changes an ended one in no other way.
LEMMA SweptRecord ==
    ASSUME NEW rec \in Record \cup {Gone}
    PROVE  /\ Swept(rec) \in Record \cup {Gone}
           /\ Swept(rec) # Gone =>
                /\ rec # Gone
                /\ Swept(rec).key = rec.key
                /\ Swept(rec).token = rec.token
                /\ Swept(rec).result = rec.result
                /\ Swept(rec) # rec => ~Ended(rec) /\ Swept(rec).state \notin Outcomes
           /\ Swept(rec) = Gone /\ rec # Gone => Ended(rec)
<1>1. CASE rec = Gone
  BY <1>1 DEF Swept
<1>2. CASE rec # Gone
  <2>1. rec \in Record
    BY <1>2
  <2>2. CASE Ended(rec)
    BY <1>2, <2>1, <2>2 DEF Swept
  <2>3. CASE ~Ended(rec)
    <3> DEFINE e == [rec EXCEPT !.state = "expired", !.lease = 0, !.left = 0]
               q == [rec EXCEPT !.state = "queued", !.lease = 0]
    <3>1. Swept(rec) \in {e, q, rec}
      BY <1>2, <2>3 DEF Swept
    <3>2. /\ e \in Record /\ e.key = rec.key /\ e.token = rec.token
          /\ e.result = rec.result /\ e.state \notin Outcomes
      <4>1. "expired" \in {"queued", "leased"} \cup Terminal
        BY DEF Terminal
      <4>2. e \in Record
        BY <2>1, <4>1, BoundsAreNumbers DEF Record
      <4> QED BY <2>1, <4>2 DEF Record, Outcomes
    <3>3. /\ q \in Record /\ q.key = rec.key /\ q.token = rec.token
          /\ q.result = rec.result /\ q.state \notin Outcomes
      <4>1. q \in Record
        BY <2>1, BoundsAreNumbers DEF Record
      <4> QED BY <2>1, <4>1 DEF Record, Outcomes
    <3> HIDE DEF e, q
    <3> QED BY <1>2, <2>1, <2>3, <3>1, <3>2, <3>3, GoneIsNoRecord
  <2> QED BY <2>2, <2>3
<1> QED BY <1>1, <1>2

LEMMA SweptFine ==
    ASSUME NEW r, NEW rec, NEW mk, NEW ls, NEW gr, NEW de, NEW ac, NEW to,
           OnlyOutcomes(ac, to),
           RecordFine(r, rec, mk, ls, gr, de, ac, to)
    PROVE  RecordFine(r, Swept(rec), mk, ls, gr, de, ac, to)
<1>1. rec \in Record \cup {Gone}
  BY DEF RecordFine
<1> DEFINE s == Swept(rec)
<1>2. /\ s \in Record \cup {Gone}
      /\ s # Gone =>
           /\ rec # Gone /\ s.key = rec.key /\ s.token = rec.token /\ s.result = rec.result
           /\ s # rec => ~Ended(rec) /\ s.state \notin Outcomes
  BY <1>1, SweptRecord
<1> HIDE DEF s
<1>3. CASE s = Gone \/ s = rec
  BY <1>2, <1>3 DEF RecordFine, s
<1>4. CASE s # Gone /\ s # rec
  <2>1. rec # Gone /\ rec.state \notin Terminal /\ s.state \notin Outcomes
    BY <1>2, <1>4 DEF Ended
  <2>2. \A a \in ac : a.request # r
    BY <2>1 DEF RecordFine, OnlyOutcomes
  <2>3. \A t \in to : t.request # r
    BY <2>1 DEF RecordFine, OnlyOutcomes
  <2> QED BY <1>2, <1>4, <2>1, <2>2, <2>3 DEF RecordFine, s
<1> QED BY <1>3, <1>4 DEF s

\* The age of a record is not what the invariant speaks of.
LEMMA AgedRecord ==
    ASSUME NEW rec \in Record \cup {Gone}
    PROVE  /\ Aged(rec) \in Record \cup {Gone}
           /\ Aged(rec) = Gone <=> rec = Gone
           /\ Aged(rec).state = rec.state
           /\ rec # Gone =>
                /\ Aged(rec).key = rec.key
                /\ Aged(rec).token = rec.token
                /\ Aged(rec).result = rec.result
<1>1. CASE rec = Gone
  BY <1>1 DEF Aged
<1>2. CASE rec # Gone
  <2>1. rec \in Record
    BY <1>2
  <2>2. Aged(rec) = [rec EXCEPT !.ttl = IF @ = 0 THEN 0 ELSE @ - 1,
                                !.left = IF @ = 0 THEN 0 ELSE @ - 1]
    BY <1>2 DEF Aged
  <2> DEFINE ttl == IF rec.ttl = 0 THEN 0 ELSE rec.ttl - 1
             left == IF rec.left = 0 THEN 0 ELSE rec.left - 1
  <2>3. rec.ttl \in 0..RequestTTL /\ rec.left \in 0..LeaseTTL
    BY <2>1 DEF Record
  <2>4. ttl \in 0..RequestTTL /\ left \in 0..LeaseTTL
    BY <2>3, BoundsAreNumbers
  <2>5. Aged(rec) = [rec EXCEPT !.ttl = ttl, !.left = left]
    BY <2>1, <2>2 DEF Record
  <2> HIDE DEF ttl, left
  <2>6. Aged(rec) \in Record
    BY <2>1, <2>4, <2>5 DEF Record
  <2> QED BY <1>2, <2>1, <2>5, <2>6, GoneIsNoRecord DEF Record
<1> QED BY <1>1, <1>2

LEMMA AgedFine ==
    ASSUME NEW r, NEW rec, NEW mk, NEW ls, NEW gr, NEW de, NEW ac, NEW to,
           RecordFine(r, rec, mk, ls, gr, de, ac, to)
    PROVE  RecordFine(r, Aged(rec), mk, ls, gr, de, ac, to)
<1>1. rec \in Record \cup {Gone}
  BY DEF RecordFine
<1> DEFINE s == Aged(rec)
<1>2. /\ s \in Record \cup {Gone}
      /\ s = Gone <=> rec = Gone
      /\ rec # Gone =>
           s.state = rec.state /\ s.key = rec.key /\ s.token = rec.token /\ s.result = rec.result
  BY <1>1, AgedRecord
<1> HIDE DEF s
<1>3. FromReport(r, rec, de) /\ rec # Gone => FromReport(r, s, de)
  BY <1>2 DEF FromReport
<1> QED BY <1>2, <1>3 DEF RecordFine, s

\* What happens to another request leaves a record as it is.
LEMMA GrownFine ==
    ASSUME NEW r \in Nat, NEW rec, NEW mk \in Nat, NEW ls \in Nat, NEW gr, NEW de, NEW ac, NEW to,
           NEW mk2 \in Nat, NEW ls2 \in Nat, NEW gr2, NEW de2, NEW ac2, NEW to2,
           mk <= mk2, ls <= ls2, gr \subseteq gr2, de \subseteq de2,
           \A g \in gr2 : g.request = r => g \in gr,
           \A a \in ac2 : a.request = r => a \in ac,
           \A t \in to2 : t.request = r => t \in to,
           RecordFine(r, rec, mk, ls, gr, de, ac, to)
    PROVE  RecordFine(r, rec, mk2, ls2, gr2, de2, ac2, to2)
<1>1. rec # Gone => rec \in Record /\ rec.token \in Nat
  BY GatewayBoundsAssumption DEF RecordFine, Record
<1>2. rec # Gone => r <= mk2 /\ rec.token <= ls2
  BY <1>1 DEF RecordFine
<1>3. FromReport(r, rec, de) => FromReport(r, rec, de2)
  BY DEF FromReport
<1> QED BY <1>1, <1>2, <1>3 DEF RecordFine

-----------------------------------------------------------------------------
(* The sweep *)

LEMMA HistoryHasOutcomes ==
    ASSUME NEW mk, NEW ls, NEW gr, NEW la, NEW de, NEW ac, NEW to, HistFine(mk, gr, la, de, ac, to)
    PROVE  OnlyOutcomes(ac, to)
BY DEF HistFine, ReportsFine, ToldFine, Answers, OnlyOutcomes, Report, Terminal

LEMMA SweptRows ==
    ASSUME NEW S \in SUBSET Requests, NEW mk, NEW ls, NEW gr, NEW de, NEW ac, NEW to,
           OnlyOutcomes(ac, to),
           RowsFine(mem, disk, mk, ls, gr, de, ac, to)
    PROVE  RowsFine(MemAfter(S), DiskAfter(S), mk, ls, gr, de, ac, to)
<1>1. ASSUME NEW r \in Requests
      PROVE  RowFine(r, MemAfter(S)[r], DiskAfter(S)[r], mk, ls, gr, de, ac, to)
  <2>1. RowFine(r, mem[r], disk[r], mk, ls, gr, de, ac, to)
    BY DEF RowsFine
  <2>2. RecordFine(r, Swept(mem[r]), mk, ls, gr, de, ac, to)
    BY <2>1, SweptFine DEF RowFine
  <2>3. CASE r \in S /\ Swept(mem[r]) # mem[r]
    BY <2>2, <2>3 DEF RowFine, MemAfter, DiskAfter
  <2>4. CASE r \notin S \/ Swept(mem[r]) = mem[r]
    <3>1. MemAfter(S)[r] = mem[r] /\ DiskAfter(S)[r] = disk[r]
      BY <2>4 DEF MemAfter, DiskAfter
    <3> QED BY <2>1, <3>1
  <2> QED BY <2>3, <2>4
<1>2. ASSUME NEW r \in Requests
      PROVE  MemAfter(S)[r] \in Record \cup {Gone} /\ DiskAfter(S)[r] \in Record \cup {Gone}
  BY <1>1 DEF RowFine, RecordFine
<1>3. /\ MemAfter(S) = [r \in Requests |-> MemAfter(S)[r]]
      /\ DiskAfter(S) = [r \in Requests |-> DiskAfter(S)[r]]
  BY DEF MemAfter, DiskAfter
<1>4. /\ MemAfter(S) \in [Requests -> Record \cup {Gone}]
      /\ DiskAfter(S) \in [Requests -> Record \cup {Gone}]
  BY <1>2, <1>3
<1> QED BY <1>1, <1>4 DEF RowsFine

LEMMA SweptKeys ==
    ASSUME NEW S \in SUBSET Requests, NEW mk, NEW ls, NEW gr, NEW de, NEW ac,
           ToldFine(mk, told),
           RowsFine(mem, disk, mk, ls, gr, de, ac, told),
           KeysFine(mem, disk, told, dropped)
    PROVE  KeysFine(MemAfter(S), DiskAfter(S), told, dropped \cup DroppedBy(S))
<1> DEFINE m == MemAfter(S)
<1>1. DiskAfter(S) = m
  <2>1. disk = mem
    BY DEF KeysFine
  <2> QED BY <2>1 DEF MemAfter, DiskAfter
<1>2. ASSUME NEW r \in Requests, m[r] # Gone
      PROVE  mem[r] # Gone /\ m[r].key = mem[r].key
  <2>1. mem[r] \in Record \cup {Gone}
    BY DEF RowsFine
  <2> QED BY <1>2, <2>1, SweptRecord DEF MemAfter
<1>3. ASSUME NEW t \in told, t.key # NoKey, t.key \notin dropped \cup DroppedBy(S)
      PROVE  m[t.request] # Gone
  <2>1. t.request \in Requests
    BY DEF ToldFine, Answers
  <2>2. mem[t.request] # Gone
    BY <1>3 DEF KeysFine
  <2>3. mem[t.request].key = t.key
    BY <2>1, <2>2 DEF RowsFine, RowFine, RecordFine
  <2>4. ~(t.request \in S /\ Swept(mem[t.request]) = Gone)
    BY <1>3, <2>2, <2>3 DEF DroppedBy
  <2> QED BY <2>1, <2>2, <2>4 DEF MemAfter
<1> HIDE DEF m
<1>4. ASSUME NEW p \in Requests, NEW q \in Requests,
             m[p] # Gone, m[q] # Gone, m[p].key = m[q].key, m[p].key # NoKey
      PROVE  p = q
  <2>1. /\ mem[p] # Gone /\ m[p].key = mem[p].key
        /\ mem[q] # Gone /\ m[q].key = mem[q].key
    BY <1>2, <1>4
  <2> QED BY <1>4, <2>1 DEF KeysFine
<1> QED BY <1>1, <1>3, <1>4 DEF KeysFine, m

LEMMA AfterSweep ==
    ASSUME IInv, NEW S \in SUBSET Requests
    PROVE  /\ RowsFine(MemAfter(S), DiskAfter(S), made, leases, granted, decided, accepted, told)
           /\ torn = 0 =>
                KeysFine(MemAfter(S), DiskAfter(S), told, dropped \cup DroppedBy(S))
<1>1. OnlyOutcomes(accepted, told)
  BY HistoryHasOutcomes DEF IInv
<1>2. ToldFine(made, told)
  BY DEF IInv, HistFine
<1>3. RowsFine(mem, disk, made, leases, granted, decided, accepted, told)
  BY DEF IInv
<1>4. torn = 0 => KeysFine(mem, disk, told, dropped)
  BY DEF IInv
<1> QED BY <1>1, <1>2, <1>3, <1>4, SweptRows, SweptKeys

-----------------------------------------------------------------------------
(* A store, behind the sweep *)

\* What was added to a history is about request r.
AddedFor(r, old, new) == old \subseteq new /\ \A e \in new : e \in old \/ e.request = r

LEMMA ChangedRows ==
    ASSUME NEW m, NEW d, NEW r \in Requests, NEW x, NEW y,
           NEW mk \in Nat, NEW ls \in Nat, NEW gr, NEW de, NEW ac, NEW to,
           NEW mk2 \in Nat, NEW ls2 \in Nat, NEW gr2, NEW de2, NEW ac2, NEW to2,
           mk <= mk2, ls <= ls2, de \subseteq de2,
           AddedFor(r, gr, gr2), AddedFor(r, ac, ac2), AddedFor(r, to, to2),
           RowsFine(m, d, mk, ls, gr, de, ac, to),
           RowFine(r, x, y, mk2, ls2, gr2, de2, ac2, to2)
    PROVE  RowsFine([m EXCEPT ![r] = x], [d EXCEPT ![r] = y], mk2, ls2, gr2, de2, ac2, to2)
<1>1. m \in [Requests -> Record \cup {Gone}] /\ d \in [Requests -> Record \cup {Gone}]
  BY DEF RowsFine
<1>2. x \in Record \cup {Gone} /\ y \in Record \cup {Gone}
  BY DEF RowFine, RecordFine
<1>3. ASSUME NEW p \in Requests, p # r
      PROVE  RowFine(p, m[p], d[p], mk2, ls2, gr2, de2, ac2, to2)
  <2>1. RowFine(p, m[p], d[p], mk, ls, gr, de, ac, to)
    BY DEF RowsFine
  <2>2. p \in Nat
    BY BoundsAreNumbers DEF Requests
  <2>3. /\ gr \subseteq gr2
        /\ \A g \in gr2 : g.request = p => g \in gr
        /\ \A a \in ac2 : a.request = p => a \in ac
        /\ \A t \in to2 : t.request = p => t \in to
    BY <1>3 DEF AddedFor
  <2>4. RecordFine(p, m[p], mk2, ls2, gr2, de2, ac2, to2)
    BY <2>1, <2>2, <2>3, GrownFine DEF RowFine
  <2>5. RecordFine(p, d[p], mk2, ls2, gr2, de2, ac2, to2)
    BY <2>1, <2>2, <2>3, GrownFine DEF RowFine
  <2> QED BY <2>1, <2>4, <2>5 DEF RowFine
<1>4. ASSUME NEW p \in Requests
      PROVE  RowFine(p, [m EXCEPT ![r] = x][p], [d EXCEPT ![r] = y][p],
                     mk2, ls2, gr2, de2, ac2, to2)
  <2>1. CASE p = r
    BY <1>1, <2>1
  <2>2. CASE p # r
    BY <1>1, <1>3, <2>2
  <2> QED BY <2>1, <2>2
<1> QED BY <1>1, <1>2, <1>4 DEF RowsFine

\* The key of the stored record is the one it has, or of no record there is.
LEMMA ChangedKeys ==
    ASSUME NEW m \in [Requests -> Record \cup {Gone}], NEW d, NEW to, NEW dr,
           NEW r \in Requests, NEW rec, rec # Gone,
           \/ m[r] # Gone /\ rec.key = m[r].key
           \/ rec.key = NoKey
           \/ \A p \in Requests : m[p] # Gone => m[p].key # rec.key,
           KeysFine(m, d, to, dr)
    PROVE  KeysFine([m EXCEPT ![r] = rec], [d EXCEPT ![r] = rec], to, dr)
<1> DEFINE n == [m EXCEPT ![r] = rec]
<1>1. n[r] = rec /\ \A p \in Requests : p # r => n[p] = m[p]
  OBVIOUS
<1>2. [d EXCEPT ![r] = rec] = n
  BY DEF KeysFine
<1>3. ASSUME NEW t \in to, t.key # NoKey, t.key \notin dr PROVE n[t.request] # Gone
  <2>1. m[t.request] # Gone
    BY <1>3 DEF KeysFine
  <2> QED BY <2>1
<1> HIDE DEF n
<1>4. ASSUME NEW p \in Requests, NEW q \in Requests,
             n[p] # Gone, n[q] # Gone, n[p].key = n[q].key, n[p].key # NoKey
      PROVE  p = q
  BY <1>1, <1>4 DEF KeysFine
<1> QED BY <1>2, <1>3, <1>4 DEF KeysFine, n

\* An error leaves the counts of errors right.
LEMMA FaultCounted ==
    ASSUME FaultsFine, Fault, torn' = torn \/ torn' = torn + 1
    PROVE  FaultsFine' /\ (torn' = torn + 1 => torn' # 0)
BY BoundsAreNumbers DEF FaultsFine, Fault

-----------------------------------------------------------------------------
(* Callers *)

LEMMA InitInv == Init => IInv
<1> SUFFICES ASSUME Init PROVE IInv
  OBVIOUS
<1>1. Counted /\ FaultsFine /\ HostFine
  BY BoundsAreNumbers, FS_EmptySet DEF Init, Counted, FaultsFine, HostFine
<1>2. HistFine(made, granted, late, decided, accepted, told)
  BY DEF Init, HistFine, GrantsFine, ReportsFine, ToldFine, Newest
<1>3. \A r \in Requests : mem[r] = Gone /\ disk[r] = Gone
  BY DEF Init
<1>4. Gone.state \notin Terminal
  BY DEF Gone, Terminal, Outcomes
<1>5. RowsFine(mem, disk, made, leases, granted, decided, accepted, told)
  BY <1>3, <1>4 DEF Init, RowsFine, RowFine, RecordFine
<1>6. KeysFine(mem, disk, told, dropped)
  BY <1>3 DEF Init, KeysFine
<1> QED BY <1>1, <1>2, <1>5, <1>6 DEF IInv

\* A handler that only sweeps, or whose sweep breaks.
LEMMA SweepInv ==
    ASSUME IInv, NEW S \in SUBSET Requests,
           mem' = MemAfter(S),
           \/ disk' = DiskAfter(S) /\ torn' = torn
           \/ \E x \in Requests :
                /\ mem[x] # Gone /\ Swept(mem[x]) # mem[x] /\ x \notin S
                /\ Swept(mem[x]) # Gone
                /\ disk' = [DiskAfter(S) EXCEPT ![x] = Swept(mem[x])]
                /\ Fault /\ torn' = torn + 1,
           dropped' = dropped \cup DroppedBy(S),
           (faults' = faults /\ torn' = torn) \/ Fault,
           UNCHANGED <<made, leases, host, late, granted, decided, accepted, told>>
    PROVE  IInv'
<1>1. /\ RowsFine(MemAfter(S), DiskAfter(S), made, leases, granted, decided, accepted, told)
      /\ torn = 0 => KeysFine(MemAfter(S), DiskAfter(S), told, dropped \cup DroppedBy(S))
  BY AfterSweep
<1>2. FaultsFine' /\ (torn' = torn + 1 => torn' # 0)
  BY FaultCounted DEF IInv, FaultsFine, Fault
<1>3. Counted' /\ HostFine' /\ HistFine(made, granted, late, decided, accepted, told)'
  BY DEF IInv, Counted, HostFine
<1>4. CASE disk' = DiskAfter(S) /\ torn' = torn
  BY <1>1, <1>2, <1>3, <1>4 DEF IInv
<1>5. CASE ~(disk' = DiskAfter(S) /\ torn' = torn)
  <2>1. PICK x \in Requests :
                /\ mem[x] # Gone /\ Swept(mem[x]) # mem[x] /\ x \notin S
                /\ Swept(mem[x]) # Gone
                /\ disk' = [DiskAfter(S) EXCEPT ![x] = Swept(mem[x])]
                /\ torn' = torn + 1
    BY <1>5
  <2> DEFINE m == MemAfter(S)
  <2>2. m[x] = mem[x] /\ m = [m EXCEPT ![x] = mem[x]]
    BY <2>1 DEF MemAfter
  <2>3. RowFine(x, mem[x], disk[x], made, leases, granted, decided, accepted, told)
    BY DEF IInv, RowsFine
  <2>4. OnlyOutcomes(accepted, told)
    BY HistoryHasOutcomes DEF IInv
  <2>5. RecordFine(x, Swept(mem[x]), made, leases, granted, decided, accepted, told)
    BY <2>3, <2>4, SweptFine DEF RowFine
  <2>6. mem[x].state \notin Terminal
    BY <2>1 DEF Swept, Ended
  <2>7. RowFine(x, mem[x], Swept(mem[x]), made, leases, granted, decided, accepted, told)
    BY <2>3, <2>5, <2>6 DEF RowFine
  <2>8. made \in Nat /\ leases \in Nat
    BY BoundsAreNumbers DEF IInv, Counted
  <2>9. /\ AddedFor(x, granted, granted) /\ AddedFor(x, accepted, accepted)
        /\ AddedFor(x, told, told)
    BY DEF AddedFor
  <2> HIDE DEF m
  <2>10. RowsFine([m EXCEPT ![x] = mem[x]], [DiskAfter(S) EXCEPT ![x] = Swept(mem[x])],
                  made, leases, granted, decided, accepted, told)
    BY <1>1, <2>7, <2>8, <2>9, ChangedRows DEF m
  <2>11. mem' = [m EXCEPT ![x] = mem[x]]
    BY <2>2 DEF m
  <2> QED BY <1>2, <1>3, <2>1, <2>10, <2>11 DEF IInv
<1> QED BY <1>4, <1>5

LEMMA PollInv == ASSUME IInv, Poll PROVE IInv'
BY SweepInv DEF Poll, Swept0, SweptMem

LEMMA BrokenSweepInv ==
    ASSUME IInv, NEW x \in Requests, NEW S \in SUBSET Requests, BrokenSweep(x, S)
    PROVE  IInv'
BY SweepInv DEF BrokenSweep

LEMMA AnswerInv == ASSUME IInv, NEW r \in Requests, Answer(r) PROVE IInv'
<1> DEFINE m == SweptMem
           d == DiskAfter(Requests)
           t == [key |-> m[r].key, request |-> r, state |-> m[r].state, result |-> m[r].result]
           tolds == told \cup {t}
<1>1. /\ m[r] # Gone /\ m[r].state \in Terminal
      /\ told' = tolds /\ mem' = m /\ disk' = d
      /\ dropped' = dropped \cup DroppedBy(Requests)
      /\ UNCHANGED <<made, leases, host, late, granted, decided, accepted, torn, faults>>
  BY DEF Answer, Swept0, Ended
<1>2. /\ RowsFine(m, d, made, leases, granted, decided, accepted, told)
      /\ torn = 0 => KeysFine(m, d, told, dropped \cup DroppedBy(Requests))
  BY AfterSweep DEF SweptMem
<1>3. t.request = r /\ t.key = m[r].key /\ t.state = m[r].state /\ t.result = m[r].result
  OBVIOUS
<1> HIDE DEF m, d
<1>4. RowFine(r, m[r], d[r], made, leases, granted, decided, accepted, told)
  BY <1>2 DEF RowsFine
<1>5. made \in Nat /\ leases \in Nat
  BY BoundsAreNumbers DEF IInv, Counted
<1>6. /\ AddedFor(r, granted, granted) /\ AddedFor(r, accepted, accepted)
      /\ AddedFor(r, told, tolds)
  BY <1>3 DEF AddedFor
<1>7. d[r] = m[r]
  BY <1>1, <1>4 DEF RowFine
<1>8. RecordFine(r, m[r], made, leases, granted, decided, accepted, tolds)
  BY <1>1, <1>3, <1>4 DEF RowFine, RecordFine
<1>9. RowFine(r, m[r], d[r], made, leases, granted, decided, accepted, tolds)
  BY <1>7, <1>8 DEF RowFine
<1>10. m = [m EXCEPT ![r] = m[r]] /\ d = [d EXCEPT ![r] = d[r]]
  BY <1>2 DEF RowsFine
<1>11. RowsFine([m EXCEPT ![r] = m[r]], [d EXCEPT ![r] = d[r]],
                made, leases, granted, decided, accepted, tolds)
  BY <1>2, <1>5, <1>6, <1>9, ChangedRows
<1>12. RowsFine(m, d, made, leases, granted, decided, accepted, tolds)
  BY <1>10, <1>11
<1>13. t \in Answers
  BY <1>1, <1>4, GoneIsNoRecord DEF RowFine, RecordFine, Record, Answers
<1>14. \A u \in told : u.request = r => u = t
  <2>1. SUFFICES ASSUME NEW u \in told, u.request = r PROVE u = t
    OBVIOUS
  <2>2. m[r].key = u.key /\ m[r].state = u.state /\ m[r].result = u.result
    BY <1>1, <1>4, <2>1 DEF RowFine, RecordFine
  <2>3. u \in Answers
    BY DEF IInv, HistFine, ToldFine
  <2> QED BY <1>3, <2>1, <2>2, <2>3, <1>13 DEF Answers
<1>15. r <= made
  BY <1>1, <1>4 DEF RowFine, RecordFine
<1>16. ToldFine(made, tolds)
  BY <1>1, <1>3, <1>14, <1>15, <1>13 DEF IInv, HistFine, ToldFine
<1>17. HistFine(made, granted, late, decided, accepted, tolds)
  <2>1. t.state \in Outcomes => NewestFor(t, granted, decided)
    BY <1>1, <1>3, <1>8 DEF RecordFine, FromReport, NewestFor
  <2>2. Newest(granted, decided, accepted, tolds)
    BY <2>1 DEF IInv, HistFine, Newest
  <2> QED BY <1>16, <2>2 DEF IInv, HistFine
<1>18. torn = 0 => KeysFine(m, d, tolds, dropped \cup DroppedBy(Requests))
  BY <1>1, <1>2, <1>3 DEF KeysFine
<1>19. Counted' /\ HostFine' /\ FaultsFine'
  BY <1>1 DEF IInv, Counted, HostFine, FaultsFine
<1> QED BY <1>1, <1>12, <1>17, <1>18, <1>19 DEF IInv

-----------------------------------------------------------------------------
(* The queue *)

\* A set of requests that is not empty has an oldest one.
LEMMA OldestExists ==
    ASSUME NEW T \in SUBSET Requests, T # {}
    PROVE  \E r \in T : \A q \in T : r <= q
<1>1. T \subseteq Nat
  BY BoundsAreNumbers DEF Requests
<1>2. IsWellFoundedOn(OpToRel(<, Nat), Nat)
  BY NatLessThanWellFounded
<1>3. PICK r \in T : \A q \in T : ~ (<<q, r>> \in OpToRel(<, Nat))
  BY <1>1, <1>2, WFMin
<1>4. ASSUME NEW q \in T PROVE ~(q < r)
  BY <1>1, <1>3 DEF OpToRel
<1> QED BY <1>1, <1>4

-----------------------------------------------------------------------------
(* A handler that stores a record *)

\* With the histories as they are after it, a store leaves the records as fine as
\* the stored one is, in its file only or in memory too.
LEMMA StoreInv ==
    ASSUME IInv, NEW r \in Requests, NEW rec, rec # Gone,
           Counted', made <= made', leases <= leases', decided \subseteq decided',
           AddedFor(r, granted, granted'), AddedFor(r, accepted, accepted'), told' = told,
           RecordFine(r, SweptMem[r], made, leases, granted, decided, accepted, told) =>
              RecordFine(r, rec, made', leases', granted', decided', accepted', told),
           \/ /\ Stored(r, rec)
              /\ \/ SweptMem[r] # Gone /\ rec.key = SweptMem[r].key
                 \/ rec.key = NoKey
                 \/ \A p \in Requests : SweptMem[p] # Gone => SweptMem[p].key # rec.key
           \/ /\ StoredTorn(r, rec)
              /\ UNCHANGED <<granted, accepted>>
              /\ SweptMem[r].state \notin Terminal
    PROVE  /\ RowsFine(mem, disk, made, leases, granted, decided, accepted, told)'
           /\ (torn = 0 => KeysFine(mem, disk, told, dropped))'
           /\ FaultsFine'
<1> DEFINE m == SweptMem
           d == DiskAfter(Requests)
           dr == dropped \cup DroppedBy(Requests)
           mk2 == made'
           ls2 == leases'
           gr2 == granted'
           de2 == decided'
           ac2 == accepted'
<1>1. /\ RowsFine(m, d, made, leases, granted, decided, accepted, told)
      /\ torn = 0 => KeysFine(m, d, told, dr)
  BY AfterSweep DEF SweptMem
<1>2. /\ made \in Nat /\ leases \in Nat
      /\ mk2 \in Nat /\ ls2 \in Nat
      /\ made <= mk2 /\ leases <= ls2
      /\ decided \subseteq de2
  BY BoundsAreNumbers DEF IInv, Counted
<1>3. AddedFor(r, granted, gr2) /\ AddedFor(r, accepted, ac2) /\ AddedFor(r, told, told)
  BY DEF AddedFor
<1>4. RecordFine(r, m[r], made, leases, granted, decided, accepted, told)
  BY <1>1 DEF RowsFine, RowFine
<1>5. RecordFine(r, rec, mk2, ls2, gr2, de2, ac2, told)
  BY <1>4
<1>6. m \in [Requests -> Record \cup {Gone}]
  BY <1>1 DEF RowsFine
<1>7. dropped' = dr
  BY DEF Stored, StoredTorn
<1>8. CASE /\ Stored(r, rec)
           /\ \/ m[r] # Gone /\ rec.key = m[r].key
              \/ rec.key = NoKey
              \/ \A p \in Requests : m[p] # Gone => m[p].key # rec.key
  <2>1. mem' = [m EXCEPT ![r] = rec] /\ disk' = [d EXCEPT ![r] = rec]
    BY <1>8 DEF Stored
  <2>2. torn' = torn /\ FaultsFine'
    BY <1>8 DEF Stored, IInv, FaultsFine
  <2>3. \/ m[r] # Gone /\ rec.key = m[r].key
        \/ rec.key = NoKey
        \/ \A p \in Requests : m[p] # Gone => m[p].key # rec.key
    BY <1>8
  <2> HIDE DEF m, d, dr, mk2, ls2, gr2, de2, ac2
  <2>4. RowFine(r, rec, rec, mk2, ls2, gr2, de2, ac2, told)
    BY <1>5 DEF RowFine
  <2>5. RowsFine([m EXCEPT ![r] = rec], [d EXCEPT ![r] = rec], mk2, ls2, gr2, de2, ac2, told)
    BY <1>1, <1>2, <1>3, <2>4, ChangedRows
  <2>6. torn = 0 => KeysFine([m EXCEPT ![r] = rec], [d EXCEPT ![r] = rec], told, dr)
    BY <1>1, <1>6, <2>3, ChangedKeys
  <2> QED BY <1>7, <2>1, <2>2, <2>5, <2>6 DEF mk2, ls2, gr2, de2, ac2
<1>9. CASE StoredTorn(r, rec) /\ UNCHANGED <<granted, accepted>> /\ m[r].state \notin Terminal
  <2>1. mem' = m /\ disk' = [d EXCEPT ![r] = rec]
    BY <1>9 DEF StoredTorn
  <2>2. torn' # 0 /\ FaultsFine'
    BY <1>9, FaultCounted DEF StoredTorn, IInv
  <2>3. gr2 = granted /\ ac2 = accepted /\ m[r].state \notin Terminal
    BY <1>9
  <2> HIDE DEF m, d, dr, mk2, ls2, gr2, de2, ac2
  <2>4. r \in Nat
    BY BoundsAreNumbers DEF Requests
  <2>5. RecordFine(r, m[r], mk2, ls2, gr2, de2, ac2, told)
    BY <1>2, <1>4, <2>3, <2>4, GrownFine
  <2>6. RowFine(r, m[r], rec, mk2, ls2, gr2, de2, ac2, told)
    BY <1>5, <2>3, <2>5 DEF RowFine
  <2>7. RowsFine([m EXCEPT ![r] = m[r]], [d EXCEPT ![r] = rec], mk2, ls2, gr2, de2, ac2, told)
    BY <1>1, <1>2, <1>3, <2>6, ChangedRows
  <2>8. [m EXCEPT ![r] = m[r]] = m
    BY <1>6
  <2> QED BY <2>1, <2>2, <2>7, <2>8 DEF mk2, ls2, gr2, de2, ac2
<1> QED BY <1>8, <1>9

LEMMA SubmitInv == ASSUME IInv, NEW k \in Keys \cup {NoKey}, Submit(k) PROVE IInv'
<1> DEFINE r == made + 1
           rec == Queued(k)
           m == SweptMem
<1>1. /\ SameCall(k) = {} /\ made < MaxRequests /\ made' = r
      /\ Stored(r, rec) \/ StoredTorn(r, rec)
      /\ UNCHANGED <<leases, host, late, granted, decided, accepted, told>>
  BY DEF Submit
<1>2. made \in Nat /\ leases \in Nat /\ leases \in 0..MaxLeases
  BY BoundsAreNumbers DEF IInv, Counted
<1>3. r \in Requests /\ r \in 0..MaxRequests /\ made <= r
  BY <1>1, <1>2, BoundsAreNumbers DEF Requests
<1>4. rec \in Record /\ rec # Gone
  <2>1. rec \in Record
    BY BoundsAreNumbers DEF Queued, Record
  <2> QED BY <2>1, GoneIsNoRecord
<1>5. /\ \A g \in granted : g.request # r
      /\ \A a \in accepted : a.request # r
      /\ \A t \in told : t.request # r
  <2>1. \A g \in granted : g.request # r
    <3>1. \A g \in granted : g.request \in Requests /\ g.request <= made
      BY DEF IInv, HistFine, GrantsFine, Grant
    <3> QED BY <1>2, <3>1, BoundsAreNumbers DEF Requests
  <2>2. \A a \in accepted : a.request # r
    <3>1. \A a \in accepted : a.request \in Requests /\ a.request <= made
      BY DEF IInv, HistFine, ReportsFine, Report
    <3> QED BY <1>2, <3>1, BoundsAreNumbers DEF Requests
  <2>3. \A t \in told : t.request # r
    <3>1. \A t \in told : t.request \in Requests /\ t.request <= made
      BY DEF IInv, HistFine, ToldFine, Answers
    <3> QED BY <1>2, <3>1, BoundsAreNumbers DEF Requests
  <2> QED BY <2>1, <2>2, <2>3
<1>6. RowsFine(m, DiskAfter(Requests), made, leases, granted, decided, accepted, told)
  BY AfterSweep DEF SweptMem
<1>7. m[r].state \notin Terminal
  <2>1. RecordFine(r, m[r], made, leases, granted, decided, accepted, told)
    BY <1>3, <1>6 DEF RowsFine, RowFine
  <2>2. m[r] = Gone
    BY <1>2, <2>1 DEF RecordFine
  <2> QED BY <2>2 DEF Gone, Terminal, Outcomes
<1>8. rec.key = k /\ rec.state = "queued" /\ rec.token = 0
  BY DEF Queued
<1>9. \/ rec.key = NoKey
      \/ \A p \in Requests : m[p] # Gone => m[p].key # rec.key
  BY <1>1, <1>8 DEF SameCall
<1> HIDE DEF r, rec, m
<1>10. RecordFine(r, rec, r, leases, granted, decided, accepted, told)
  <2>1. r <= r /\ rec.token <= leases /\ rec.state \notin Outcomes
    BY <1>2, <1>3, <1>8 DEF Outcomes
  <2> QED BY <1>4, <1>5, <2>1 DEF RecordFine
<1>11. Counted' /\ HostFine'
  BY <1>1, <1>2, <1>3 DEF IInv, HostFine, Counted
<1>12. HistFine(made, granted, late, decided, accepted, told)'
  <2>1. \A g \in granted : g.request \in Nat /\ (g.request <= made => g.request <= r)
    BY <1>2, <1>3, BoundsAreNumbers DEF IInv, HistFine, GrantsFine, Grant, Requests, r
  <2>2. \A t \in told : t.request \in Nat /\ (t.request <= made => t.request <= r)
    BY <1>2, <1>3, BoundsAreNumbers DEF IInv, HistFine, ToldFine, Answers, Requests, r
  <2>3. GrantsFine(r, granted) /\ ToldFine(r, told)
    BY <2>1, <2>2 DEF IInv, HistFine, GrantsFine, ToldFine
  <2>4. ASSUME NEW reps, ReportsFine(made, reps) PROVE ReportsFine(r, reps)
    <3>1. \A rep \in reps : rep.request \in Nat
      BY <2>4, BoundsAreNumbers DEF ReportsFine, Report, Requests
    <3> QED BY <1>2, <1>3, <2>4, <3>1 DEF ReportsFine, r
  <2>5. HistFine(r, granted, late, decided, accepted, told)
    BY <2>3, <2>4 DEF IInv, HistFine
  <2> QED BY <1>1, <2>5
<1>13. /\ RowsFine(mem, disk, made, leases, granted, decided, accepted, told)'
       /\ (torn = 0 => KeysFine(mem, disk, told, dropped))'
       /\ FaultsFine'
  <2>1. AddedFor(r, granted, granted') /\ AddedFor(r, accepted, accepted')
    BY <1>1 DEF AddedFor
  <2>2. /\ made <= made' /\ leases <= leases' /\ told' = told
        /\ RecordFine(r, rec, made', leases', granted', decided', accepted', told)
        /\ decided \subseteq decided'
    BY <1>1, <1>2, <1>3, <1>10
  <2>3. \/ /\ Stored(r, rec)
           /\ \/ SweptMem[r] # Gone /\ rec.key = SweptMem[r].key
              \/ rec.key = NoKey
              \/ \A p \in Requests : SweptMem[p] # Gone => SweptMem[p].key # rec.key
        \/ /\ StoredTorn(r, rec)
           /\ UNCHANGED <<granted, accepted>>
           /\ SweptMem[r].state \notin Terminal
    BY <1>1, <1>7, <1>9 DEF m
  <2> QED BY <1>3, <1>4, <1>11, <2>1, <2>2, <2>3, StoreInv
<1> QED BY <1>11, <1>12, <1>13 DEF IInv

-----------------------------------------------------------------------------
(* The worker loop of the host *)

LEMMA LeaseInv == ASSUME IInv, Lease PROVE IInv'
<1> DEFINE m == SweptMem
           r == CHOOSE q \in Waiting : \A p \in Waiting : q <= p
           rec == Leased(m[r])
           lease == [request |-> r, lease |-> rec.lease, token |-> rec.token]
           gr2 == granted'
<1>1. /\ host = {} /\ Waiting # {} /\ leases < MaxLeases
      /\ leases' = leases + 1
      /\ \/ /\ Stored(r, rec)
            /\ granted' = granted \cup {lease}
            /\ host' \in {host, {lease}}
         \/ StoredTorn(r, rec) /\ UNCHANGED <<granted, host>>
      /\ UNCHANGED <<made, late, decided, accepted, told>>
  BY DEF Lease
<1>2. r \in Waiting
  <2>1. Waiting \subseteq Requests
    BY DEF Waiting
  <2>2. \E q \in Waiting : \A p \in Waiting : q <= p
    BY <1>1, <2>1, OldestExists
  <2> QED BY <2>2
<1> HIDE DEF r
<1>3. r \in Requests /\ m[r].state = "queued"
  BY <1>2 DEF Waiting
<1>4. RowsFine(m, DiskAfter(Requests), made, leases, granted, decided, accepted, told)
  BY AfterSweep DEF SweptMem
<1>5. m[r] \in Record
  <2>1. m[r] \in Record \cup {Gone}
    BY <1>3, <1>4 DEF RowsFine
  <2> QED BY <1>3, <2>1 DEF Gone
<1>6. RecordFine(r, m[r], made, leases, granted, decided, accepted, told) /\ m[r] # Gone
  BY <1>3, <1>4, <1>5, GoneIsNoRecord DEF RowsFine, RowFine
<1>7. /\ made \in Nat /\ made \in 0..MaxRequests
      /\ leases \in Nat /\ leases' \in Nat /\ leases <= leases' /\ leases' \in 0..MaxLeases
      /\ leases' \in 1..MaxLeases /\ ~(leases' <= leases)
  BY <1>1, BoundsAreNumbers DEF IInv, Counted
<1>8. m[r].token \in Nat /\ m[r].token <= leases
  BY <1>5, <1>6, BoundsAreNumbers DEF RecordFine, Record
<1>9. rec.token = m[r].token + 1 /\ rec.lease = leases' /\ rec.state = "leased"
      /\ rec.key = m[r].key
  BY <1>1, <1>5 DEF Leased, Record
<1>10. rec.token \in 1..MaxLeases /\ rec.token <= leases' /\ ~(rec.token <= m[r].token)
  BY <1>1, <1>7, <1>8, <1>9, BoundsAreNumbers
<1>11. rec \in Record /\ rec # Gone
  <2> DEFINE n == leases + 1
             k == m[r].token + 1
  <2>1. n \in 0..MaxLeases /\ k \in 0..MaxLeases
    BY <1>1, <1>7, <1>8, BoundsAreNumbers
  <2>2. LeaseTTL \in 0..LeaseTTL
    BY BoundsAreNumbers
  <2>3. rec = [m[r] EXCEPT !.state = "leased", !.lease = n, !.token = k, !.left = LeaseTTL]
    BY <1>5 DEF Leased, Record
  <2> HIDE DEF n, k, m, rec
  <2>4. rec \in Record
    BY <1>5, <2>1, <2>2, <2>3 DEF Record
  <2> QED BY <2>4, GoneIsNoRecord
<1>12. lease \in Grant /\ lease.request = r /\ lease.lease = leases' /\ lease.token = rec.token
  BY <1>3, <1>7, <1>9, <1>10 DEF Grant
<1> HIDE DEF m, rec, lease
<1>13. /\ \A a \in accepted : a.request # r
       /\ \A t \in told : t.request # r
  <2>1. OnlyOutcomes(accepted, told)
    BY HistoryHasOutcomes DEF IInv
  <2>2. m[r].state \notin Terminal
    BY <1>3 DEF Terminal, Outcomes
  <2> QED BY <1>6, <2>1, <2>2 DEF RecordFine, OnlyOutcomes
<1>14. gr2 = granted \/ gr2 = granted \cup {lease}
  BY <1>1
<1>15. \A g \in granted : g.request = r => g.token <= rec.token
  <2>1. \A g \in granted : g.token \in Nat
    BY BoundsAreNumbers DEF IInv, HistFine, GrantsFine, Grant
  <2>2. \A g \in granted : g.request = r => g.token <= m[r].token
    BY <1>6 DEF RecordFine
  <2> QED BY <1>8, <1>9, <2>1, <2>2
<1>16. rec.token <= rec.token
  BY <1>10
<1> HIDE DEF gr2
<1>17. RecordFine(r, rec, made, leases', gr2, decided, accepted, told)
  <2>1. \A g \in gr2 : g.request = r => g.token <= rec.token
    BY <1>12, <1>14, <1>15, <1>16
  <2>2. rec.state \notin Outcomes
    BY <1>9 DEF Outcomes
  <2> QED BY <1>6, <1>10, <1>11, <1>13, <2>1, <2>2 DEF RecordFine
<1>18. GrantsFine(made, gr2)
  <2>1. granted \subseteq Grant /\ \A g \in granted : g.request <= made
    BY DEF IInv, HistFine, GrantsFine
  <2>2. r <= made
    BY <1>6 DEF RecordFine
  <2> QED BY <1>12, <1>14, <2>1, <2>2 DEF GrantsFine
<1>19. HistFine(made, gr2, late, decided, accepted, told)
  <2>1. ASSUME NEW o, o.request # r, NewestFor(o, granted, decided)
        PROVE  NewestFor(o, gr2, decided)
    BY <1>12, <1>14, <2>1 DEF NewestFor
  <2>2. Newest(gr2, decided, accepted, told)
    BY <1>13, <2>1 DEF IInv, HistFine, Newest
  <2> QED BY <1>18, <2>2 DEF IInv, HistFine
<1>20. HostFine'
  <2>1. granted' = gr2
    BY DEF gr2
  <2>2. CASE host' = host
    BY <1>14, <2>1, <2>2 DEF IInv, HostFine
  <2>3. CASE host' = {lease} /\ gr2 = granted \cup {lease}
    <3>1. Cardinality({lease}) = 1
      BY FS_Singleton
    <3> QED BY <2>1, <2>3, <3>1 DEF HostFine
  <2> QED BY <1>1, <2>2, <2>3 DEF gr2
<1>21. Counted'
  BY <1>1, <1>7 DEF Counted
<1>22. /\ RowsFine(mem, disk, made, leases, granted, decided, accepted, told)'
       /\ (torn = 0 => KeysFine(mem, disk, told, dropped))'
       /\ FaultsFine'
  <2>1. AddedFor(r, granted, granted') /\ AddedFor(r, accepted, accepted')
    BY <1>1, <1>12, <1>14 DEF AddedFor, gr2
  <2>2. /\ made <= made' /\ leases <= leases' /\ told' = told
        /\ RecordFine(r, rec, made', leases', granted', decided', accepted', told)
        /\ decided \subseteq decided'
    BY <1>1, <1>7, <1>17 DEF gr2
  <2>3. m[r].state \notin Terminal
    BY <1>3 DEF Terminal, Outcomes
  <2>4. \/ /\ Stored(r, rec)
           /\ \/ SweptMem[r] # Gone /\ rec.key = SweptMem[r].key
              \/ rec.key = NoKey
              \/ \A p \in Requests : SweptMem[p] # Gone => SweptMem[p].key # rec.key
        \/ /\ StoredTorn(r, rec)
           /\ UNCHANGED <<granted, accepted>>
           /\ SweptMem[r].state \notin Terminal
    BY <1>1, <1>6, <1>9, <2>3 DEF m
  <2> QED BY <1>3, <1>11, <1>21, <2>1, <2>2, <2>4, StoreInv
<1>23. HistFine(made, granted, late, decided, accepted, told)'
  BY <1>1, <1>19 DEF gr2
<1> QED BY <1>20, <1>21, <1>22, <1>23 DEF IInv

\* What finish does with a report.
LEMMA FinishInv ==
    ASSUME IInv, NEW rep \in Report, rep.request <= made,
           Finish(rep),
           UNCHANGED <<made, leases, granted, told>>
    PROVE  /\ RowsFine(mem, disk, made, leases, granted, decided, accepted, told)'
           /\ (torn = 0 => KeysFine(mem, disk, told, dropped))'
           /\ FaultsFine'
           /\ ReportsFine(made, decided') /\ ReportsFine(made, accepted')
           /\ Newest(granted, decided', accepted', told)
<1> DEFINE r == rep.request
           m == SweptMem
           d == DiskAfter(Requests)
           dr == dropped \cup DroppedBy(Requests)
           rec == m[r]
           out == WithOutcome(rec, rep)
           ac2 == accepted \cup {rep}
           de2 == decided \cup {rep}
<1>1. /\ rec # Gone
      /\ \/ /\ Ended(rec) /\ rec.state = rep.state /\ rec.result = rep.result
            /\ Swept0 /\ accepted' = ac2 /\ decided' = decided
         \/ /\ ~Ended(rec) /\ ValidLease(rec, rep)
            /\ decided' = de2
            /\ \/ Stored(r, out) /\ accepted' = ac2
               \/ StoredTorn(r, out) /\ accepted' = accepted
  BY DEF Finish, Accept, Decide
<1>2. r \in Requests /\ rep.state \in Outcomes /\ rep.token \in Nat
      /\ rep.result \in Results
  BY BoundsAreNumbers DEF Report
<1>3. /\ RowsFine(m, d, made, leases, granted, decided, accepted, told)
      /\ torn = 0 => KeysFine(m, d, told, dr)
  BY AfterSweep DEF SweptMem
<1>4. RowFine(r, rec, d[r], made, leases, granted, decided, accepted, told)
  BY <1>2, <1>3 DEF RowsFine
<1>5. rec \in Record /\ RecordFine(r, rec, made, leases, granted, decided, accepted, told)
  BY <1>1, <1>4 DEF RowFine, RecordFine
<1>6. /\ decided \subseteq decided' /\ decided' \subseteq de2
      /\ accepted \subseteq accepted' /\ accepted' \subseteq ac2
  BY <1>1
<1>7. made \in Nat /\ leases \in Nat /\ Counted'
  BY BoundsAreNumbers DEF IInv, Counted
<1>8. AddedFor(r, accepted, ac2) /\ AddedFor(r, accepted, accepted)
      /\ AddedFor(r, granted, granted) /\ AddedFor(r, told, told)
  BY DEF AddedFor
<1>9. ReportsFine(made, decided') /\ ReportsFine(made, accepted')
  <2>1. ReportsFine(made, decided) /\ ReportsFine(made, accepted)
    BY DEF IInv, HistFine
  <2> HIDE DEF r, m, d, dr, rec, out
  <2> QED BY <1>6, <2>1 DEF ReportsFine
<1>10. NewestFor(rep, granted, decided') => Newest(granted, decided', accepted', told)
  <2>1. Newest(granted, decided, accepted, told)
    BY DEF IInv, HistFine
  <2>2. ASSUME NEW o, NewestFor(o, granted, decided) PROVE NewestFor(o, granted, decided')
    BY ONLY <1>6, <2>2 DEF NewestFor
  <2> HIDE DEF r, m, d, dr, rec, out, de2
  <2> QED BY <1>6, <2>1, <2>2 DEF Newest
<1>11. CASE Ended(rec) /\ rec.state = rep.state /\ rec.result = rep.result
            /\ Swept0 /\ accepted' = ac2 /\ decided' = decided
  <2>1. /\ mem' = m /\ disk' = d /\ dropped' = dr /\ accepted' = ac2
        /\ torn' = torn /\ faults' = faults /\ decided' = decided
    BY <1>11 DEF Swept0
  <2>2. d[r] = rec
    BY <1>4, <1>11 DEF RowFine, Ended
  <2>3. rec.state = rep.state /\ rec.result = rep.result
    BY <1>11
  <2> HIDE DEF m, d, dr, rec, r
  <2>4. NewestFor(rep, granted, decided)
    <3>1. PICK h \in decided : /\ h.request = r /\ h.token = rec.token
                               /\ h.state = rec.state /\ h.result = rec.result
      BY <1>1, <1>2, <1>5, <2>3 DEF RecordFine, FromReport
    <3>2. \A g \in granted : g.request = r => g.token <= rec.token
      BY <1>1, <1>5 DEF RecordFine
    <3> QED BY <2>3, <3>1, <3>2 DEF NewestFor, r
  <2>5. RecordFine(r, rec, made, leases, granted, decided, ac2, told)
    BY <1>5, <2>3 DEF RecordFine
  <2>6. RowFine(r, rec, d[r], made, leases, granted, decided, ac2, told)
    BY <2>2, <2>5 DEF RowFine
  <2>7. RowsFine([m EXCEPT ![r] = rec], [d EXCEPT ![r] = d[r]],
                 made, leases, granted, decided, ac2, told)
    BY <1>2, <1>3, <1>7, <1>8, <2>6, ChangedRows
  <2>8. [m EXCEPT ![r] = rec] = m /\ [d EXCEPT ![r] = d[r]] = d
    BY <1>3 DEF RowsFine, rec
  <2>9. RowsFine(mem, disk, made, leases, granted, decided, accepted, told)'
    BY <2>1, <2>7, <2>8
  <2>10. (torn = 0 => KeysFine(mem, disk, told, dropped))'
    BY <1>3, <2>1
  <2>11. FaultsFine'
    BY <2>1 DEF IInv, FaultsFine
  <2>12. Newest(granted, decided', accepted', told)
    BY <1>10, <2>1, <2>4
  <2> QED BY <1>9, <2>9, <2>10, <2>11, <2>12
<1>12. CASE /\ ~Ended(rec) /\ ValidLease(rec, rep)
            /\ decided' = de2
            /\ \/ Stored(r, out) /\ accepted' = ac2
               \/ StoredTorn(r, out) /\ accepted' = accepted
  <2>1. out \in Record /\ out # Gone
    <3>1. rep.state \in {"queued", "leased"} \cup Terminal
      BY <1>2 DEF Terminal
    <3>2. out = [rec EXCEPT !.state = rep.state, !.result = rep.result, !.left = 0]
      BY DEF WithOutcome
    <3> HIDE DEF out, rec
    <3>3. out \in Record
      BY <1>2, <1>5, <3>1, <3>2, BoundsAreNumbers DEF Record
    <3> QED BY <3>3, GoneIsNoRecord
  <2>2. /\ out.state = rep.state /\ out.result = rep.result
        /\ out.key = rec.key /\ out.token = rec.token
    BY <1>5 DEF WithOutcome, Record
  <2>3. rec.token = rep.token /\ rec.state \notin Terminal
    BY <1>12 DEF ValidLease, Ended
  <2>4. /\ decided' = de2
        /\ \/ Stored(r, out) /\ accepted' = ac2
           \/ StoredTorn(r, out) /\ accepted' = accepted
    BY <1>12
  <2> HIDE DEF d, dr, out
  <2>5. /\ \A a \in accepted : a.request # r
        /\ \A t \in told : t.request # r
    <3>1. OnlyOutcomes(accepted, told)
      BY HistoryHasOutcomes DEF IInv
    <3> HIDE DEF r, rec
    <3>2. ASSUME NEW a \in accepted PROVE a.request # r
      BY <1>1, <1>5, <2>3, <3>1 DEF RecordFine, OnlyOutcomes
    <3>3. ASSUME NEW t \in told PROVE t.request # r
      BY <1>1, <1>5, <2>3, <3>1 DEF RecordFine, OnlyOutcomes
    <3> QED BY <3>2, <3>3
  <2>6. \A g \in granted : g.request = r => g.token <= rec.token
    <3> HIDE DEF r, rec
    <3> QED BY <1>1, <1>5 DEF RecordFine
  <2>7. /\ RecordFine(r, out, made, leases, granted, de2, ac2, told)
        /\ RecordFine(r, out, made, leases, granted, de2, accepted, told)
    <3>1. rep \in de2 /\ rep.request = r
      OBVIOUS
    <3> HIDE DEF r, rec, de2
    <3>2. FromReport(r, out, de2)
      BY <2>2, <2>3, <3>1 DEF FromReport
    <3>3. r <= made /\ out.token <= leases
      BY <1>1, <1>5, <2>2 DEF RecordFine
    <3>4. \A g \in granted : g.request = r => g.token <= out.token
      BY <2>2, <2>6
    <3>5. \A a \in ac2 : a.request = r => out.state = a.state /\ out.result = a.result
      BY <2>2, <2>5
    <3> QED BY <2>1, <2>5, <3>2, <3>3, <3>4, <3>5 DEF RecordFine
  <2>8. AddedFor(r, granted, granted') /\ AddedFor(r, accepted, accepted')
    BY <1>8, <2>4
  <2>9. RecordFine(r, out, made', leases', granted', decided', accepted', told)
    BY <2>4, <2>7
  <2>10. \/ /\ Stored(r, out)
            /\ \/ SweptMem[r] # Gone /\ out.key = SweptMem[r].key
               \/ out.key = NoKey
               \/ \A p \in Requests : SweptMem[p] # Gone => SweptMem[p].key # out.key
         \/ /\ StoredTorn(r, out)
            /\ UNCHANGED <<granted, accepted>>
            /\ SweptMem[r].state \notin Terminal
    BY <1>1, <2>2, <2>3, <2>4
  <2>11. made <= made' /\ leases <= leases' /\ told' = told /\ decided \subseteq decided'
    BY <1>6, <1>7
  <2>12. NewestFor(rep, granted, decided')
    <3> HIDE DEF rec, m
    <3> QED BY <2>3, <2>4, <2>6 DEF NewestFor
  <2> HIDE DEF r, rec, m, de2, ac2
  <2>13. /\ RowsFine(mem, disk, made, leases, granted, decided, accepted, told)'
         /\ (torn = 0 => KeysFine(mem, disk, told, dropped))'
         /\ FaultsFine'
    BY <1>2, <1>7, <2>1, <2>8, <2>9, <2>10, <2>11, StoreInv
  <2> QED BY <1>9, <1>10, <2>12, <2>13
<1> QED BY <1>1, <1>11, <1>12

\* What the host reports is a report, of the request of its lease.
LEMMA ExecutedReport ==
    ASSUME NEW l \in Grant, NEW state \in Outcomes, NEW result \in Results
    PROVE  /\ Executed(l, state, result) \in Report
           /\ Executed(l, state, result).request = l.request
BY DEF Executed, Grant, Report

LEMMA HeldLease ==
    ASSUME IInv, NEW l \in host
    PROVE  l \in Grant /\ l.request <= made
BY DEF IInv, HostFine, HistFine, GrantsFine

LEMMA PublishInv ==
    ASSUME IInv, NEW l \in host, NEW state \in Outcomes, NEW result \in Results,
           Publish(l, state, result)
    PROVE  IInv'
<1> DEFINE rep == Executed(l, state, result)
<1>1. /\ Finish(rep) /\ host' = {}
      /\ UNCHANGED <<made, leases, late, granted, told>>
  BY DEF Publish
<1>2. rep \in Report /\ rep.request <= made
  BY HeldLease, ExecutedReport
<1> HIDE DEF rep
<1>3. /\ RowsFine(mem, disk, made, leases, granted, decided, accepted, told)'
      /\ (torn = 0 => KeysFine(mem, disk, told, dropped))'
      /\ FaultsFine'
      /\ ReportsFine(made, decided') /\ ReportsFine(made, accepted')
      /\ Newest(granted, decided', accepted', told)
  BY <1>1, <1>2, FinishInv
<1>4. Counted' /\ HostFine'
  BY <1>1, FS_EmptySet DEF IInv, Counted, HostFine
<1>5. HistFine(made, granted, late, decided, accepted, told)'
  BY <1>1, <1>3 DEF IInv, HistFine
<1> QED BY <1>3, <1>4, <1>5 DEF IInv

LEMMA GiveUpInv ==
    ASSUME IInv, NEW l \in host, NEW state \in Outcomes, NEW result \in Results,
           GiveUp(l, state, result)
    PROVE  IInv'
<1> DEFINE rep == Executed(l, state, result)
<1>1. /\ host' = {} /\ late' \in {late, late \cup {rep}}
      /\ UNCHANGED <<mem, disk, made, leases, granted, decided, accepted, told, dropped,
                  torn, faults>>
  BY DEF GiveUp, gatewayVars, history
<1>2. rep \in Report /\ rep.request <= made
  BY HeldLease, ExecutedReport
<1> HIDE DEF rep
<1>3. ReportsFine(made, late')
  BY <1>1, <1>2 DEF IInv, HistFine, ReportsFine
<1>4. HostFine'
  BY <1>1, FS_EmptySet DEF HostFine
<1> QED BY <1>1, <1>3, <1>4 DEF IInv, Counted, FaultsFine, HistFine

LEMMA ArriveInv == ASSUME IInv, NEW rep \in late, Arrive(rep) PROVE IInv'
<1>1. /\ Finish(rep) /\ late' = late \ {rep}
      /\ UNCHANGED <<made, leases, host, granted, told>>
  BY DEF Arrive
<1>2. rep \in Report /\ rep.request <= made
  BY DEF IInv, HistFine, ReportsFine
<1>3. /\ RowsFine(mem, disk, made, leases, granted, decided, accepted, told)'
      /\ (torn = 0 => KeysFine(mem, disk, told, dropped))'
      /\ FaultsFine'
      /\ ReportsFine(made, decided') /\ ReportsFine(made, accepted')
      /\ Newest(granted, decided', accepted', told)
  BY <1>1, <1>2, FinishInv
<1>4. Counted' /\ HostFine'
  BY <1>1 DEF IInv, Counted, HostFine
<1>5. ReportsFine(made, late')
  BY <1>1 DEF IInv, HistFine, ReportsFine
<1>6. HistFine(made, granted, late, decided, accepted, told)'
  BY <1>1, <1>3, <1>5 DEF IInv, HistFine
<1> QED BY <1>3, <1>4, <1>6 DEF IInv

-----------------------------------------------------------------------------
(* Time and crashes *)

LEMMA TickInv == ASSUME IInv, Tick PROVE IInv'
<1> DEFINE m == [r \in Requests |-> Aged(mem[r])]
           d == [r \in Requests |-> Aged(disk[r])]
<1>1. /\ mem' = m /\ disk' = d
      /\ UNCHANGED <<made, leases, host, late, granted, decided, accepted, told, dropped,
                  torn, faults>>
  BY DEF Tick, history
<1>2. RowsFine(mem, disk, made, leases, granted, decided, accepted, told)
  BY DEF IInv
<1>3. ASSUME NEW r \in Requests
      PROVE  RowFine(r, m[r], d[r], made, leases, granted, decided, accepted, told)
  <2>1. RowFine(r, mem[r], disk[r], made, leases, granted, decided, accepted, told)
    BY <1>2 DEF RowsFine
  <2>2. Aged(mem[r]).state = mem[r].state
    BY <1>2, AgedRecord DEF RowsFine
  <2>3. m[r] = Aged(mem[r]) /\ d[r] = Aged(disk[r])
    OBVIOUS
  <2> QED BY <2>1, <2>2, <2>3, AgedFine DEF RowFine
<1>4. ASSUME NEW r \in Requests
      PROVE  /\ m[r] \in Record \cup {Gone}
             /\ d[r] \in Record \cup {Gone}
             /\ m[r] = Gone <=> mem[r] = Gone
             /\ mem[r] # Gone => m[r].key = mem[r].key
  BY <1>2, AgedRecord DEF RowsFine
<1>5. RowsFine(m, d, made, leases, granted, decided, accepted, told)
  <2>1. m \in [Requests -> Record \cup {Gone}] /\ d \in [Requests -> Record \cup {Gone}]
    BY <1>4
  <2> HIDE DEF m, d
  <2> QED BY <1>3, <2>1 DEF RowsFine
<1>6. torn = 0 => KeysFine(m, d, told, dropped)
  <2>1. SUFFICES ASSUME torn = 0 PROVE KeysFine(m, d, told, dropped)
    OBVIOUS
  <2>2. KeysFine(mem, disk, told, dropped)
    BY <2>1 DEF IInv
  <2>3. d = m
    BY <2>2 DEF KeysFine
  <2>4. \A t \in told : t.request \in Requests
    BY DEF IInv, HistFine, ToldFine, Answers
  <2> HIDE DEF m, d
  <2> QED BY <1>4, <2>2, <2>3, <2>4 DEF KeysFine
<1> HIDE DEF m, d
<1>7. Counted' /\ HostFine' /\ FaultsFine'
  BY <1>1 DEF IInv, Counted, HostFine, FaultsFine
<1>8. HistFine(made, granted, late, decided, accepted, told)'
  BY <1>1 DEF IInv
<1> QED BY <1>1, <1>5, <1>6, <1>7, <1>8 DEF IInv

\* What is in the files is fine as what is in memory is.
LEMMA RestartInv == ASSUME IInv, Restart PROVE IInv'
<1>1. /\ mem' = disk /\ Fault
      /\ UNCHANGED <<disk, made, leases, host, late, granted, decided, accepted, told, dropped,
                  torn>>
  BY DEF Restart, history
<1>2. RowsFine(mem, disk, made, leases, granted, decided, accepted, told)
  BY DEF IInv
<1>3. RowsFine(disk, disk, made, leases, granted, decided, accepted, told)
  BY <1>2 DEF RowsFine, RowFine
<1>4. torn = 0 => KeysFine(disk, disk, told, dropped)
  BY DEF IInv, KeysFine
<1>5. FaultsFine'
  BY <1>1, FaultCounted DEF IInv
<1>6. Counted' /\ HostFine' /\ HistFine(made, granted, late, decided, accepted, told)'
  BY <1>1 DEF IInv, Counted, HostFine
<1> QED BY <1>1, <1>3, <1>4, <1>5, <1>6 DEF IInv

LEMMA HostRestartInv == ASSUME IInv, HostRestart PROVE IInv'
<1>1. /\ host' = {} /\ Fault
      /\ UNCHANGED <<mem, disk, made, leases, late, granted, decided, accepted, told, dropped,
                  torn>>
  BY DEF HostRestart, gatewayVars, history
<1>2. FaultsFine'
  BY <1>1, FaultCounted DEF IInv
<1>3. HostFine'
  BY <1>1, FS_EmptySet DEF HostFine
<1> QED BY <1>1, <1>2, <1>3 DEF IInv, Counted

-----------------------------------------------------------------------------
(* Theorems *)

LEMMA NextInv == ASSUME IInv, [Next]_vars PROVE IInv'
<1>1. CASE Handlers
  BY <1>1, SubmitInv, AnswerInv, LeaseInv, PollInv, PublishInv, GiveUpInv, ArriveInv,
     BrokenSweepInv DEF Handlers
<1>2. CASE Tick
  BY <1>2, TickInv
<1>3. CASE Restart
  BY <1>3, RestartInv
<1>4. CASE HostRestart
  BY <1>4, HostRestartInv
<1>5. CASE UNCHANGED vars
  <2>1. UNCHANGED <<mem, disk, made, leases, host, late, granted, decided, accepted, told, dropped,
                    torn, faults>>
    BY <1>5 DEF vars, gatewayVars, history
  <2> QED BY <2>1 DEF IInv, Counted, HostFine, FaultsFine
<1> QED BY <1>1, <1>2, <1>3, <1>4, <1>5 DEF Next

\* The invariant is inductive: with the sweep before every handler, with writes that
\* fail before or behind the rename, with reports that arrive late (refresh_locked,
\* write_record, finish).
THEOREM Inductive == Spec => []IInv
<1>1. IInv /\ [Next]_vars => IInv'
  BY NextInv
<1> QED BY InitInv, <1>1, PTL DEF Spec

\* Records are well formed in memory and in the files, and the host holds one lease
\* that was given to it (WorkerRpcRecord, the worker loop of remote-node.ts).
THEOREM TypeCorrect == Spec => []TypeOK
<1>1. IInv => TypeOK
  <2>1. SUFFICES ASSUME IInv PROVE TypeOK
    OBVIOUS
  <2>2. late \subseteq Report /\ decided \subseteq Report /\ accepted \subseteq Report
    BY <2>1 DEF IInv, HistFine, ReportsFine
  <2> QED BY <2>1, <2>2 DEF IInv, Counted, HostFine, FaultsFine, RowsFine, TypeOK
<1> QED BY <1>1, Inductive, PTL

\* Whatever the host or a caller is told as an outcome was reported under the newest
\* lease of its request, and no lease of it is given out afterwards; a report of an older
\* lease that is answered with success repeats it (validate_active_lease, finish).
THEOREM NewestDecides == Spec => []DecidedByNewest
<1>1. IInv => DecidedByNewest
  BY DEF IInv, HistFine, Newest, NewestFor, DecidedByNewest, FromNewest
<1> QED BY <1>1, Inductive, PTL

\* A report that was accepted is the outcome in memory and in the file, through failed
\* writes and restarts, until the record is deleted (finish, write_record, open).
THEOREM DurableAlways == Spec => []AcceptedIsDurable
<1>1. IInv => AcceptedIsDurable
  <2>1. SUFFICES ASSUME IInv, NEW a \in accepted, NEW rec \in {mem[a.request], disk[a.request]},
                        rec # Gone
                 PROVE  rec.state = a.state /\ rec.result = a.result
    BY DEF AcceptedIsDurable
  <2>2. a.request \in Requests
    BY <2>1 DEF IInv, HistFine, ReportsFine, Report
  <2>3. RecordFine(a.request, rec, made, leases, granted, decided, accepted, told)
    BY <2>1, <2>2 DEF IInv, RowsFine, RowFine
  <2> QED BY <2>1, <2>3 DEF RecordFine
<1> QED BY <1>1, Inductive, PTL

\* Two callers of one key hear of one request and one outcome, unless the record was
\* deleted or a file got ahead of memory (submit_for, get).
THEOREM RepeatsAgreeAlways == Spec => []RepeatsAgree
<1>1. IInv => RepeatsAgree
  <2>1. SUFFICES ASSUME IInv, NEW a \in told, NEW b \in told
                 PROVE  /\ a.request = b.request => a = b
                        /\ a.key = b.key /\ a.key # NoKey /\ a # b =>
                              a.key \in dropped \/ torn > 0
    BY DEF RepeatsAgree
  <2>2. a.request = b.request => a = b
    BY <2>1 DEF IInv, HistFine, ToldFine
  <2>3. ASSUME a.key = b.key, a.key # NoKey, a.key \notin dropped, torn = 0
        PROVE  a = b
    <3>1. KeysFine(mem, disk, told, dropped)
      BY <2>1, <2>3 DEF IInv
    <3>2. mem[a.request] # Gone /\ mem[b.request] # Gone
      BY <2>3, <3>1 DEF KeysFine
    <3>3. a.request \in Requests /\ b.request \in Requests
      BY <2>1 DEF IInv, HistFine, ToldFine, Answers
    <3>4. mem[a.request].key = a.key /\ mem[b.request].key = b.key
      BY <2>1, <3>2, <3>3 DEF IInv, RowsFine, RowFine, RecordFine
    <3>5. a.request = b.request
      BY <2>3, <3>1, <3>2, <3>3, <3>4 DEF KeysFine
    <3> QED BY <2>2, <3>5
  <2>4. torn = 0 \/ torn > 0
    BY <2>1, BoundsAreNumbers DEF IInv, FaultsFine
  <2> QED BY <2>2, <2>3, <2>4
<1> QED BY <1>1, Inductive, PTL

=============================================================================
