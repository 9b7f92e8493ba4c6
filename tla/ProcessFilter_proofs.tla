----------------------- MODULE ProcessFilter_proofs -----------------------
(***************************************************************************)
(* The invariants of ProcessFilter hold for every set of ids and names.    *)
(*                                                                         *)
(* The operations compute with the tables as one value s, through states   *)
(* in which the invariants do not all hold: a thread row exists before its *)
(* process is looked up, a process row before its main thread.  The lemmas *)
(* are therefore about Core(s), which every intermediate value satisfies,  *)
(* and about the three remaining invariants relative to the rows that are  *)
(* still to be completed: unowned threads of tids X, processes of pids Y.  *)
(***************************************************************************)
EXTENDS ProcessFilter, WellFoundedInduction, FiniteSetTheorems, TLAPS

State == [th : Seq(Thread), pr : Seq(Process),
          tids : SUBSET (Ids \X Nat), pids : SUBSET (Ids \X Nat)]

\* The rows refer to rows that exist and the indexes agree with them.
Core(s) ==
    /\ s \in State
    /\ \A i \in DOMAIN s.th : s.th[i].ipid \in 0 .. Len(s.pr)
    /\ s.tids = {<<s.th[i].tid, i>> : i \in DOMAIN s.th}
    /\ \A p \in s.pids : p[2] \in 1 .. Len(s.pr) /\ s.pr[p[2]].pid = p[1]
    /\ \A p, q \in s.pids : p[1] = q[1] => p = q

\* The thread i belongs to a process of this pid.
Belongs(s, i, pid) == s.th[i].ipid # NoRow /\ s.pr[s.th[i].ipid].pid = pid

OneRow(s) ==
    \A i, j \in DOMAIN s.th : \A pid \in Ids :
        s.th[i].tid = s.th[j].tid /\ Belongs(s, i, pid) /\ Belongs(s, j, pid) => i = j

\* An unowned thread is alone with its tid, unless the tid is in X.
Alone(s, X) ==
    \A i, j \in DOMAIN s.th :
        s.th[i].tid = s.th[j].tid /\ s.th[i].ipid = NoRow /\ s.th[i].tid \notin X
            => i = j

\* A tid has at most one unowned thread.
Single(s) ==
    \A i, j \in DOMAIN s.th :
        s.th[i].tid = s.th[j].tid /\ s.th[i].ipid = NoRow /\ s.th[j].ipid = NoRow
            => i = j

\* The processes of the map have main threads, unless the pid is in Y.
Mains(s, Y) ==
    \A p \in s.pids : p[1] \notin Y =>
        \E i \in DOMAIN s.th : s.th[i].tid = p[1] /\ Belongs(s, i, p[1])

\* What holds between the building blocks of an operation, and between
\* operations.
Partly(s, X, Y) ==
    Core(s) /\ OneRow(s) /\ Single(s) /\ Alone(s, X) /\ Mains(s, Y)

Good(s) == Partly(s, {}, {})

\* Rows are added and unowned threads get owners; nothing else changes.
Keeps(s, t) ==
    /\ DOMAIN s.th \subseteq DOMAIN t.th
    /\ DOMAIN s.pr \subseteq DOMAIN t.pr
    /\ \A i \in DOMAIN s.th :
        /\ t.th[i].tid = s.th[i].tid
        /\ s.th[i].ipid # NoRow => t.th[i].ipid = s.th[i].ipid
    /\ \A r \in DOMAIN s.pr : t.pr[r].pid = s.pr[r].pid
    /\ s.pids \subseteq t.pids

\* The map, moreover, is told of every new process row.
Grows(s, t) ==
    /\ Keeps(s, t)
    /\ \A r \in DOMAIN t.pr : r \notin DOMAIN s.pr => <<t.pr[r].pid, r>> \in t.pids

-----------------------------------------------------------------------------
\* What the lookups return on tables whose indexes agree with the rows.

\* The multimap lists exactly the rows of a tid.
LEMMA TidsOf ==
    ASSUME NEW s, Core(s), NEW tid
    PROVE  GetInternalTids(s, tid) = {i \in DOMAIN s.th : s.th[i].tid = tid}
BY DEF Core, GetInternalTids

\* GetInternalTid(tid, pid) finds a thread of the process if there is one; if
\* it finds none of them and no unowned thread of the tid, there is none.
LEMMA LookupWithPid ==
    ASSUME NEW s, Core(s), OneRow(s), Single(s), NEW tid \in Ids, NEW pid \in Ids
    PROVE  LET r == GetInternalTid(s, tid, pid)
           IN  \/ r \in DOMAIN s.th /\ s.th[r].tid = tid /\ Belongs(s, r, pid)
               \/ /\ r \in DOMAIN s.th /\ s.th[r].tid = tid /\ s.th[r].ipid = NoRow
                  /\ \A i \in DOMAIN s.th : s.th[i].tid = tid => ~Belongs(s, i, pid)
               \/ /\ r = NoRow
                  /\ \A i \in DOMAIN s.th : s.th[i].tid = tid =>
                        ~Belongs(s, i, pid) /\ s.th[i].ipid # NoRow
<1> DEFINE O == OwnedBy(s, tid, pid)
           U == Unowned(s, tid)
<1>1. O = {i \in DOMAIN s.th : s.th[i].tid = tid /\ Belongs(s, i, pid)}
  BY TidsOf DEF OwnedBy, Belongs
<1>2. U = {i \in DOMAIN s.th : s.th[i].tid = tid /\ s.th[i].ipid = NoRow}
  BY TidsOf DEF Unowned
<1>3. \A i, j \in O : i = j
  BY <1>1 DEF OneRow
<1>4. \A i, j \in U : i = j
  BY <1>2 DEF Single
<1>5. DOMAIN s.th \subseteq Nat
  BY DEF Core, State
<1>6. CASE O # {}
  <2>1. PICK i \in O : \A j \in O : i <= j
    BY <1>6, <1>3, <1>1, <1>5
  <2>2. GetInternalTid(s, tid, pid) \in O
    BY <2>1, <1>6 DEF GetInternalTid
  <2> QED BY <2>2, <1>1
<1>7. CASE O = {} /\ U # {}
  <2>1. PICK i \in U : \A j \in U : j <= i
    BY <1>7, <1>4, <1>2, <1>5
  <2>2. GetInternalTid(s, tid, pid) \in U
    BY <2>1, <1>7 DEF GetInternalTid
  <2> QED BY <2>2, <1>1, <1>2, <1>7
<1>8. CASE O = {} /\ U = {}
  <2>1. GetInternalTid(s, tid, pid) = NoRow
    BY <1>8 DEF GetInternalTid
  <2> QED BY <2>1, <1>1, <1>2, <1>8
<1> QED BY <1>6, <1>7, <1>8

\* A set of row numbers that is not empty has a greatest element.
LEMMA GreatestRow ==
    ASSUME NEW n \in Nat, NEW T \in SUBSET (1 .. n), T # {}
    PROVE  \E x \in T : \A y \in T : y <= x
<1> DEFINE D == {n - t : t \in T}
           R == OpToRel(<, Nat)
<1>1. D \subseteq Nat /\ D # {}
  <2>1. \A t \in T : t \in 1 .. n
    OBVIOUS
  <2>2. \A t \in T : n - t \in Nat
    BY <2>1
  <2> QED BY Zenon, <2>2
<1>2. \E x \in D : \A y \in D : ~(<<y, x>> \in R)
  BY <1>1, WFMin, NatLessThanWellFounded
<1>3. PICK x \in D : \A y \in D : ~(<<y, x>> \in R)
  BY <1>2
<1>4. \A y \in D : x <= y
  <2> TAKE y \in D
  <2>1. x \in Nat /\ y \in Nat
    BY <1>1
  <2>2. ~(<<y, x>> \in R)
    BY <1>3
  <2>3. ~(y < x)
    BY <2>1, <2>2 DEF OpToRel
  <2> QED BY <2>1, <2>3
<1>5. PICK t \in T : x = n - t
  OBVIOUS
<1>6. \A u \in T : n - t <= n - u
  BY Zenon, <1>4, <1>5
<1> QED BY <1>6

\* GetInternalTid(tid) returns a row of the tid, if there is one.
LEMMA LookupLast ==
    ASSUME NEW s, Core(s), NEW tid \in Ids
    PROVE  LET r == LastInternalTid(s, tid)
           IN  \/ r \in DOMAIN s.th /\ s.th[r].tid = tid
               \/ r = NoRow /\ \A i \in DOMAIN s.th : s.th[i].tid # tid
<1> DEFINE T == GetInternalTids(s, tid)
<1>1. T = {i \in DOMAIN s.th : s.th[i].tid = tid}
  BY TidsOf
<1>2. Len(s.th) \in Nat /\ DOMAIN s.th = 1 .. Len(s.th)
  BY DEF Core, State
<1>3. CASE T = {}
  BY <1>1, <1>3 DEF LastInternalTid
<1>4. CASE T # {}
  <2>1. T \in SUBSET (1 .. Len(s.th))
    BY <1>1, <1>2
  <2>2. \E i \in T : \A j \in T : j <= i
    BY Zenon, <2>1, <1>2, <1>4, GreatestRow
  <2>3. LastInternalTid(s, tid) \in T
    BY <2>2, <1>4 DEF LastInternalTid
  <2> QED BY <2>3, <1>1
<1> QED BY <1>3, <1>4

\* A pair is made of its two components.
LEMMA Pairs ==
    ASSUME NEW A, NEW B
    PROVE  \A p \in A \X B : p = <<p[1], p[2]>>
OBVIOUS

\* GetInternalPid returns the row the map holds.
LEMMA LookupPid ==
    ASSUME NEW s, Core(s), NEW pid \in Ids
    PROVE  LET r == GetInternalPid(s, pid)
           IN  \/ /\ <<pid, r>> \in s.pids
                  /\ r \in 1 .. Len(s.pr) /\ s.pr[r].pid = pid
               \/ r = NoRow /\ \A p \in s.pids : p[1] # pid
<1>1. CASE \E p \in s.pids : p[1] = pid
  <2> DEFINE p == CHOOSE p \in s.pids : p[1] = pid
  <2>1. p \in s.pids /\ p[1] = pid
    BY <1>1
  <2>2. p = <<pid, p[2]>>
    <3>1. p \in Ids \X Nat
      BY <2>1 DEF Core, State
    <3>2. p = <<p[1], p[2]>>
      BY Zenon, <3>1, Pairs
    <3> QED BY <3>2, <2>1
  <2>3. GetInternalPid(s, pid) = p[2]
    BY <1>1 DEF GetInternalPid
  <2>4. p[2] \in 1 .. Len(s.pr) /\ s.pr[p[2]].pid = p[1]
    BY <2>1 DEF Core
  <2> HIDE DEF p
  <2> QED BY <2>1, <2>2, <2>3, <2>4
<1>2. CASE ~\E p \in s.pids : p[1] = pid
  BY <1>2 DEF GetInternalPid
<1> QED BY <1>1, <1>2

\* The map is a function, so its row is what GetInternalPid returns.
LEMMA PidInMap ==
    ASSUME NEW s, Core(s), NEW pid \in Ids, NEW r, <<pid, r>> \in s.pids
    PROVE  GetInternalPid(s, pid) = r /\ r # NoRow
<1>1. <<pid, r>>[1] = pid
  OBVIOUS
<1>2. <<pid, GetInternalPid(s, pid)>> \in s.pids
  BY LookupPid, <1>1
<1>3. <<pid, GetInternalPid(s, pid)>> = <<pid, r>>
  BY <1>2 DEF Core
<1>4. r \in 1 .. Len(s.pr)
  BY DEF Core
<1> QED BY <1>3, <1>4 DEF NoRow, Core, State

-----------------------------------------------------------------------------
\* What the building blocks do to the tables.

\* The number and the rows of a table.
LEMMA RowsOf ==
    ASSUME NEW s, Core(s)
    PROVE  /\ Len(s.th) \in Nat /\ DOMAIN s.th = 1 .. Len(s.th)
           /\ Len(s.pr) \in Nat /\ DOMAIN s.pr = 1 .. Len(s.pr)
           /\ \A i \in DOMAIN s.th : s.th[i] \in Thread
           /\ \A r \in DOMAIN s.pr : s.pr[r] \in Process
BY DEF Core, State

\* NewThread adds an unowned row and its index entry.
LEMMA NewThreadRows ==
    ASSUME NEW s, Core(s), NEW tid \in Ids
    PROVE  LET t == NewThread(s, tid)
               n == Len(s.th) + 1
           IN  /\ Core(t)
               /\ t.pr = s.pr /\ t.pids = s.pids
               /\ Len(t.th) = n /\ DOMAIN t.th = 1 .. n
               /\ t.th[n].tid = tid /\ t.th[n].ipid = NoRow
               /\ \A i \in DOMAIN s.th : t.th[i] = s.th[i]
<1> DEFINE t == NewThread(s, tid)
           n == Len(s.th) + 1
           row == [tid |-> tid, ipid |-> NoRow, name |-> NoName]
<1>1. row \in Thread
  BY NamesAssumption DEF Thread, NoRow
<1>2. /\ t.th = Append(s.th, row) /\ t.pr = s.pr
      /\ t.tids = s.tids \cup {<<tid, n>>} /\ t.pids = s.pids
      /\ s.th \in Seq(Thread)
  BY DEF NewThread, Core, State
<1>3. /\ Len(s.th) \in Nat /\ DOMAIN s.th = 1 .. Len(s.th)
      /\ Len(s.pr) \in Nat
  BY RowsOf
<1>4. /\ t.th \in Seq(Thread) /\ Len(t.th) = n /\ DOMAIN t.th = 1 .. n
      /\ t.th[n] = row
      /\ \A i \in DOMAIN s.th : t.th[i] = s.th[i]
  BY <1>1, <1>2, <1>3
<1>5. t \in State
  <2>1. t.tids \subseteq Ids \X Nat
    BY <1>2, <1>3 DEF Core, State
  <2> QED BY <2>1, <1>4, <1>2 DEF NewThread, Core, State
<1>6. \A i \in DOMAIN t.th : t.th[i].ipid \in 0 .. Len(t.pr)
  BY <1>2, <1>3, <1>4 DEF Core, NoRow
<1>7. t.tids = {<<t.th[i].tid, i>> : i \in DOMAIN t.th}
  <2>1. DOMAIN t.th = DOMAIN s.th \cup {n}
    BY <1>3, <1>4
  <2>2. s.tids = {<<s.th[i].tid, i>> : i \in DOMAIN s.th}
    BY DEF Core
  <2>3. t.th[n].tid = tid
    BY <1>4
  <2> QED BY <1>2, <1>4, <2>1, <2>2, <2>3
<1>8. Core(t)
  BY <1>2, <1>5, <1>6, <1>7 DEF Core
<1> QED BY <1>2, <1>4, <1>8

\* NewProcess adds a row the map did not have, and maps it.
LEMMA NewProcessRows ==
    ASSUME NEW s, Core(s), NEW pid \in Ids, \A p \in s.pids : p[1] # pid
    PROVE  LET t == NewProcess(s, pid)
               n == Len(s.pr) + 1
           IN  /\ Core(t)
               /\ t.th = s.th
               /\ Len(t.pr) = n /\ DOMAIN t.pr = 1 .. n /\ t.pr[n].pid = pid
               /\ \A r \in DOMAIN s.pr : t.pr[r] = s.pr[r]
               /\ t.pids = s.pids \cup {<<pid, n>>}
<1> DEFINE t == NewProcess(s, pid)
           n == Len(s.pr) + 1
           row == [pid |-> pid, cmdLine |-> NoName]
<1>1. row \in Process
  BY NamesAssumption DEF Process
<1>2. /\ t.pr = Append(s.pr, row) /\ t.th = s.th
      /\ t.pids = s.pids \cup {<<pid, n>>} /\ t.tids = s.tids
      /\ s.pr \in Seq(Process)
  BY DEF NewProcess, Core, State
<1>3. /\ Len(s.pr) \in Nat /\ DOMAIN s.pr = 1 .. Len(s.pr)
  BY RowsOf
<1>4. /\ t.pr \in Seq(Process) /\ Len(t.pr) = n /\ DOMAIN t.pr = 1 .. n
      /\ t.pr[n] = row
      /\ \A r \in DOMAIN s.pr : t.pr[r] = s.pr[r]
  BY <1>1, <1>2, <1>3
<1>5. t \in State
  <2>1. t.pids \subseteq Ids \X Nat
    BY <1>2, <1>3 DEF Core, State
  <2> QED BY Zenon, <2>1, <1>4, <1>2 DEF NewProcess, Core, State
<1>6. \A i \in DOMAIN t.th : t.th[i].ipid \in 0 .. Len(t.pr)
  BY <1>2, <1>3, <1>4 DEF Core
<1>7. \A p \in t.pids : p[2] \in 1 .. Len(t.pr) /\ t.pr[p[2]].pid = p[1]
  <2> TAKE p \in t.pids
  <2>1. CASE p \in s.pids
    BY <2>1, <1>3, <1>4 DEF Core
  <2>2. CASE p = <<pid, n>>
    BY <2>2, <1>3, <1>4
  <2> QED BY <2>1, <2>2, <1>2
<1>8. \A p, q \in t.pids : p[1] = q[1] => p = q
  <2> TAKE p, q \in t.pids
  <2>1. CASE p \in s.pids /\ q \in s.pids
    BY <2>1 DEF Core
  <2>2. CASE p = <<pid, n>> \/ q = <<pid, n>>
    BY <2>2, <1>2
  <2> QED BY <2>1, <2>2, <1>2
<1>9. Core(t)
  <2>1. t.tids = {<<t.th[i].tid, i>> : i \in DOMAIN t.th}
    BY <1>2 DEF Core
  <2> HIDE DEF t
  <2> QED BY <2>1, <1>5, <1>6, <1>7, <1>8 DEF Core
<1> QED BY <1>2, <1>4, <1>9

\* SetOwner changes the process of one thread.
LEMMA SetOwnerRows ==
    ASSUME NEW s, Core(s), NEW itid \in DOMAIN s.th, NEW ipid \in 1 .. Len(s.pr)
    PROVE  LET t == SetOwner(s, itid, ipid)
           IN  /\ Core(t)
               /\ t.pr = s.pr /\ t.pids = s.pids
               /\ DOMAIN t.th = DOMAIN s.th
               /\ \A i \in DOMAIN s.th : t.th[i].tid = s.th[i].tid
               /\ \A i \in DOMAIN s.th : i # itid => t.th[i] = s.th[i]
               /\ t.th[itid].ipid = ipid
<1> DEFINE t == SetOwner(s, itid, ipid)
<1>1. /\ t.th = [s.th EXCEPT ![itid] = [@ EXCEPT !.ipid = ipid]]
      /\ t.pr = s.pr /\ t.pids = s.pids /\ t.tids = s.tids
  BY DEF SetOwner, Core, State
<1>2. /\ s.th \in Seq(Thread) /\ s.th[itid] \in Thread /\ Len(s.pr) \in Nat
  BY RowsOf DEF Core, State
<1>3. [s.th[itid] EXCEPT !.ipid = ipid] \in Thread
  BY <1>2 DEF Thread
<1>4. /\ t.th \in Seq(Thread) /\ DOMAIN t.th = DOMAIN s.th
      /\ \A i \in DOMAIN s.th : t.th[i] = IF i = itid
                    THEN [s.th[itid] EXCEPT !.ipid = ipid] ELSE s.th[i]
  BY <1>1, <1>2, <1>3
<1>5. /\ \A i \in DOMAIN s.th : t.th[i].tid = s.th[i].tid
      /\ t.th[itid].ipid = ipid
  BY Zenon, <1>2, <1>4 DEF Thread
<1>6. t \in State
  BY Zenon, <1>1, <1>4 DEF SetOwner, Core, State
<1>7. \A i \in DOMAIN t.th : t.th[i].ipid \in 0 .. Len(t.pr)
  BY <1>1, <1>2, <1>4, <1>5 DEF Core
<1>8. t.tids = {<<t.th[i].tid, i>> : i \in DOMAIN t.th}
  BY <1>1, <1>4, <1>5 DEF Core
<1>9. Core(t)
  <2> HIDE DEF t
  <2> QED BY <1>1, <1>6, <1>7, <1>8 DEF Core
<1> QED BY <1>1, <1>4, <1>5, <1>9

-----------------------------------------------------------------------------
\* What the building blocks do to the invariants.

\* A thread may be created when its tid has no unowned thread; it is then the
\* one that is still to be completed.
LEMMA AddThread ==
    ASSUME NEW s, NEW X, NEW Y, Partly(s, X, Y), NEW tid \in Ids,
           \A i \in DOMAIN s.th : s.th[i].tid = tid => s.th[i].ipid # NoRow
    PROVE  Partly(NewThread(s, tid), X \cup {tid}, Y)
<1> DEFINE t == NewThread(s, tid)
           n == Len(s.th) + 1
<1>1. Core(s)
  BY DEF Partly
<1>2. /\ Core(t) /\ t.pr = s.pr /\ t.pids = s.pids
      /\ t.th[n].tid = tid /\ t.th[n].ipid = NoRow
      /\ \A i \in DOMAIN s.th : t.th[i] = s.th[i]
  BY <1>1, NewThreadRows
<1>3. DOMAIN t.th = DOMAIN s.th \cup {n} /\ n \notin DOMAIN s.th
  BY <1>1, NewThreadRows, RowsOf
<1> HIDE DEF t, n
<1>4. \A i \in DOMAIN s.th, pid \in Ids : Belongs(t, i, pid) <=> Belongs(s, i, pid)
  BY <1>2 DEF Belongs
<1>5. \A pid \in Ids : ~Belongs(t, n, pid)
  BY <1>2 DEF Belongs
<1>6. OneRow(t)
  BY <1>2, <1>3, <1>4, <1>5 DEF OneRow, Partly
<1>7. Single(t)
  BY <1>2, <1>3 DEF Single, Partly
<1>8. Alone(t, X \cup {tid})
  BY <1>2, <1>3 DEF Alone, Partly
<1>9. Mains(t, Y)
  <2> SUFFICES ASSUME NEW p \in t.pids, p[1] \notin Y
               PROVE  \E i \in DOMAIN t.th : t.th[i].tid = p[1] /\ Belongs(t, i, p[1])
    BY DEF Mains
  <2>1. p[1] \in Ids
    BY <1>1, <1>2 DEF Core, State
  <2>2. PICK i \in DOMAIN s.th : s.th[i].tid = p[1] /\ Belongs(s, i, p[1])
    BY <1>2 DEF Mains, Partly
  <2> QED BY <2>1, <2>2, <1>2, <1>3, <1>4
<1> QED BY <1>2, <1>6, <1>7, <1>8, <1>9 DEF Partly, t

\* An unowned thread may be given to a process that has no thread of its tid.
\* Its tid is complete then, and so is the process if this is its main thread.
LEMMA OwnThread ==
    ASSUME NEW s, NEW X, NEW Y, Partly(s, X, Y),
           NEW itid \in DOMAIN s.th, s.th[itid].ipid = NoRow,
           NEW ipid \in 1 .. Len(s.pr),
           \A i \in DOMAIN s.th : s.th[i].tid = s.th[itid].tid =>
                ~Belongs(s, i, s.pr[ipid].pid)
    PROVE  LET t == SetOwner(s, itid, ipid)
           IN  /\ Partly(t, X \ {s.th[itid].tid},
                         IF s.th[itid].tid = s.pr[ipid].pid
                         THEN Y \ {s.pr[ipid].pid} ELSE Y)
               /\ Grows(s, t)
<1> DEFINE t == SetOwner(s, itid, ipid)
           tid == s.th[itid].tid
           pid == s.pr[ipid].pid
<1>1. Core(s)
  BY DEF Partly
<1>2. /\ Core(t) /\ t.pr = s.pr /\ t.pids = s.pids
      /\ DOMAIN t.th = DOMAIN s.th
      /\ \A i \in DOMAIN s.th : t.th[i].tid = s.th[i].tid
      /\ \A i \in DOMAIN s.th : i # itid => t.th[i] = s.th[i]
      /\ t.th[itid].ipid = ipid
  BY <1>1, SetOwnerRows
<1>3. ipid # NoRow /\ ipid \in DOMAIN s.pr
  BY <1>1, RowsOf DEF NoRow
<1>4. pid \in Ids /\ tid \in Ids
  BY <1>1, <1>3, RowsOf DEF Process, Thread
<1> HIDE DEF t
<1>5. \A i \in DOMAIN s.th, q \in Ids :
        i # itid => (Belongs(t, i, q) <=> Belongs(s, i, q))
  BY <1>2 DEF Belongs
<1>6. \A q \in Ids : Belongs(t, itid, q) <=> q = pid
  BY <1>2, <1>3 DEF Belongs
<1>7. OneRow(t)
  BY <1>2, <1>5, <1>6 DEF OneRow, Partly
<1>8. Single(t)
  BY <1>2, <1>3 DEF Single, Partly
<1>9. Alone(t, X \ {tid})
  BY <1>2, <1>3 DEF Alone, Partly, Single
<1>10. \A p \in t.pids : p[1] \in Ids
  BY <1>1, <1>2 DEF Core, State
<1>11. Mains(t, Y)
  <2> SUFFICES ASSUME NEW p \in t.pids, p[1] \notin Y
               PROVE  \E i \in DOMAIN t.th : t.th[i].tid = p[1] /\ Belongs(t, i, p[1])
    BY DEF Mains
  <2>1. PICK i \in DOMAIN s.th : s.th[i].tid = p[1] /\ Belongs(s, i, p[1])
    BY <1>2 DEF Mains, Partly
  <2>2. i # itid
    BY <2>1 DEF Belongs
  <2> QED BY <2>1, <2>2, <1>2, <1>5, <1>10
<1>12. ASSUME tid = pid PROVE Mains(t, Y \ {pid})
  <2>1. t.th[itid].tid = pid /\ Belongs(t, itid, pid)
    BY <1>12, <1>2, <1>4, <1>6
  <2> QED BY <2>1, <1>2, <1>11 DEF Mains
<1>13. Grows(s, t)
  BY <1>2 DEF Grows, Keeps
<1> QED BY <1>2, <1>7, <1>8, <1>9, <1>11, <1>12, <1>13 DEF Partly, t

\* The case of a process that lacks nothing but its main thread.
LEMMA OwnMainThread ==
    ASSUME NEW s, NEW X, NEW pid, Partly(s, X, {pid}),
           NEW itid \in DOMAIN s.th, s.th[itid].tid = pid, s.th[itid].ipid = NoRow,
           NEW ipid \in 1 .. Len(s.pr), s.pr[ipid].pid = pid,
           \A i \in DOMAIN s.th : s.th[i].tid = pid => ~Belongs(s, i, pid)
    PROVE  /\ Partly(SetOwner(s, itid, ipid), X \ {pid}, {})
           /\ Grows(s, SetOwner(s, itid, ipid))
<1>1. {pid} \ {pid} = {}
  OBVIOUS
<1>2. /\ Partly(SetOwner(s, itid, ipid), X \ {pid}, {pid} \ {pid})
      /\ Grows(s, SetOwner(s, itid, ipid))
  BY Zenon, OwnThread
<1> QED BY Zenon, <1>1, <1>2

\* Growing is transitive on tables whose rows refer to rows that exist.
LEMMA GrowsTransitive ==
    ASSUME NEW s, NEW t, NEW u, Grows(s, t), Grows(t, u)
    PROVE  Grows(s, u)
BY DEF Grows, Keeps

\* NewThread only adds.
LEMMA NewThreadGrows ==
    ASSUME NEW s, Core(s), NEW tid \in Ids
    PROVE  Grows(s, NewThread(s, tid))
<1>1. DOMAIN s.th \subseteq DOMAIN NewThread(s, tid).th
  BY NewThreadRows, RowsOf
<1> QED BY <1>1, NewThreadRows DEF Grows, Keeps

\* A process row that the map did not have leaves only its main thread to do.
LEMMA AddProcess ==
    ASSUME NEW s, NEW X, Partly(s, X, {}), NEW pid \in Ids,
           \A p \in s.pids : p[1] # pid
    PROVE  LET t == NewProcess(s, pid)
           IN  /\ Partly(t, X, {pid}) /\ Grows(s, t) /\ t.th = s.th
               /\ GetInternalPid(t, pid) = Len(s.pr) + 1
               /\ Len(s.pr) + 1 \in 1 .. Len(t.pr)
               /\ t.pr[Len(s.pr) + 1].pid = pid
               /\ <<pid, Len(s.pr) + 1>> \in t.pids
               /\ \A i \in DOMAIN s.th, q \in Ids :
                        Belongs(t, i, q) <=> Belongs(s, i, q)
<1> DEFINE t == NewProcess(s, pid)
           n == Len(s.pr) + 1
<1>1. Core(s)
  BY DEF Partly
<1>2. /\ Core(t) /\ t.th = s.th
      /\ Len(t.pr) = n /\ DOMAIN t.pr = 1 .. n /\ t.pr[n].pid = pid
      /\ \A r \in DOMAIN s.pr : t.pr[r] = s.pr[r]
      /\ t.pids = s.pids \cup {<<pid, n>>}
  BY <1>1, NewProcessRows
<1>3. /\ Len(s.pr) \in Nat /\ DOMAIN s.pr = 1 .. Len(s.pr)
      /\ n \in 1 .. Len(t.pr) /\ DOMAIN s.pr \subseteq DOMAIN t.pr
  BY <1>1, <1>2, RowsOf
<1> HIDE DEF t
<1>4. \A i \in DOMAIN s.th, q \in Ids : Belongs(t, i, q) <=> Belongs(s, i, q)
  <2> TAKE i \in DOMAIN s.th, q \in Ids
  <2>1. s.th[i].ipid \in 0 .. Len(s.pr)
    BY <1>1 DEF Core
  <2>2. s.th[i].ipid # NoRow => s.th[i].ipid \in DOMAIN s.pr
    BY <2>1, <1>3 DEF NoRow
  <2> QED BY <2>2, <1>2 DEF Belongs
<1>5. OneRow(t) /\ Single(t) /\ Alone(t, X)
  BY <1>2, <1>4 DEF Partly, OneRow, Single, Alone
<1>6. Mains(t, {pid})
  <2> SUFFICES ASSUME NEW p \in t.pids, p[1] # pid
               PROVE  \E i \in DOMAIN t.th : t.th[i].tid = p[1] /\ Belongs(t, i, p[1])
    BY DEF Mains
  <2>1. p \in s.pids
    BY <1>2
  <2>2. p[1] \in Ids
    BY <2>1, <1>1 DEF Core, State
  <2>3. PICK i \in DOMAIN s.th : s.th[i].tid = p[1] /\ Belongs(s, i, p[1])
    BY <2>1 DEF Mains, Partly
  <2> QED BY <2>2, <2>3, <1>2, <1>4
<1>7. Grows(s, t)
  BY <1>2, <1>3 DEF Grows, Keeps
<1>8. GetInternalPid(t, pid) = n
  BY <1>2, PidInMap
<1> QED BY <1>2, <1>3, <1>4, <1>5, <1>6, <1>7, <1>8 DEF Partly, t

\* CreateProcessMaybe returns a process of the map, complete with its main
\* thread: the unowned thread of that tid if there was one, else a new one.
LEMMA CreateProcess ==
    ASSUME NEW s, NEW X, Partly(s, X, {}), NEW pid \in Ids
    PROVE  LET t == CreateProcessMaybe(s, pid)
               r == GetInternalPid(t, pid)
           IN  /\ Partly(t, X, {}) /\ Grows(s, t)
               /\ <<pid, r>> \in t.pids /\ r \in 1 .. Len(t.pr) /\ t.pr[r].pid = pid
               /\ \A i \in DOMAIN s.th : s.th[i].tid # pid => t.th[i] = s.th[i]
               /\ \A i \in DOMAIN t.th :
                    i \notin DOMAIN s.th => t.th[i].tid = pid /\ t.th[i].ipid = r
               /\ \A i \in DOMAIN s.th :
                    /\ s.th[i].tid = pid /\ s.th[i].ipid = NoRow
                    /\ \A j \in DOMAIN s.th : s.th[j].tid = pid => ~Belongs(s, j, pid)
                    => t.th[i].ipid = r
<1> DEFINE t == CreateProcessMaybe(s, pid)
           r == GetInternalPid(t, pid)
<1>1. Core(s)
  BY DEF Partly
<1>2. CASE GetInternalPid(s, pid) # NoRow
  <2>1. t = s
    BY <1>2 DEF CreateProcessMaybe
  <2>2. <<pid, r>> \in s.pids /\ r \in 1 .. Len(s.pr) /\ s.pr[r].pid = pid
    BY <1>1, <1>2, <2>1, LookupPid
  <2>3. \E j \in DOMAIN s.th : s.th[j].tid = pid /\ Belongs(s, j, pid)
    <3>1. <<pid, r>>[1] = pid
      OBVIOUS
    <3> QED BY <3>1, <2>2 DEF Partly, Mains
  <2>4. Grows(s, s)
    BY Zenon DEF Grows, Keeps
  <2> QED BY <2>1, <2>2, <2>3, <2>4
<1>3. CASE GetInternalPid(s, pid) = NoRow
  <2> DEFINE s1 == NewProcess(s, pid)
             n == Len(s.pr) + 1
             found == GetInternalTid(s1, pid, pid)
  <2>1. \A p \in s.pids : p[1] # pid
    <3>1. ~(NoRow \in 1 .. Len(s.pr))
      BY DEF NoRow
    <3> QED BY Zenon, <3>1, <1>1, <1>3, LookupPid
  <2>2. /\ Partly(s1, X, {pid}) /\ Grows(s, s1) /\ s1.th = s.th
        /\ GetInternalPid(s1, pid) = n
        /\ n \in 1 .. Len(s1.pr) /\ s1.pr[n].pid = pid
        /\ <<pid, n>> \in s1.pids
        /\ \A i \in DOMAIN s.th, q \in Ids : Belongs(s1, i, q) <=> Belongs(s, i, q)
    BY Zenon, <2>1, AddProcess
  <2>3. t = MainThread(s1, pid)
    BY <1>3 DEF CreateProcessMaybe
  <2>4. Core(s1) /\ OneRow(s1) /\ Single(s1)
    BY <2>2 DEF Partly
  <2>5. DOMAIN s.th = 1 .. Len(s.th) /\ Len(s.th) \in Nat /\ ~(NoRow \in DOMAIN s.th)
    BY <1>1, RowsOf DEF NoRow
  <2> HIDE DEF s1, n
  <2>6. CASE found \in DOMAIN s1.th /\ s1.th[found].tid = pid /\ Belongs(s1, found, pid)
    <3>1. t = s1
      <4>1. s1.th[found].ipid # NoRow /\ found # NoRow
        BY <2>2, <2>5, <2>6 DEF Belongs
      <4> QED BY Zenon, <4>1, <2>3 DEF MainThread
    <3>2. Mains(s1, {})
      BY <2>2, <2>6 DEF Partly, Mains
    <3>3. Partly(s1, X, {})
      BY Zenon, <2>2, <3>2 DEF Partly
    <3> QED BY <3>1, <3>3, <2>2, <2>6
  <2>7. CASE /\ found \in DOMAIN s1.th /\ s1.th[found].tid = pid
             /\ s1.th[found].ipid = NoRow
             /\ \A i \in DOMAIN s1.th : s1.th[i].tid = pid => ~Belongs(s1, i, pid)
    <3>1. t = SetOwner(s1, found, n)
      <4>1. found # NoRow
        BY <2>2, <2>5, <2>7
      <4> QED BY <4>1, <2>2, <2>3, <2>7 DEF MainThread
    <3>2. Partly(t, X \ {pid}, {}) /\ Grows(s1, t)
      <4> HIDE DEF found
      <4>1. Partly(SetOwner(s1, found, n), X \ {pid}, {}) /\ Grows(s1, SetOwner(s1, found, n))
        BY Zenon, <2>2, <2>7, OwnMainThread
      <4> QED BY <3>1, <4>1
    <3>3. Partly(t, X, {})
      BY <3>2 DEF Partly, Alone
    <3>4. /\ t.pr = s1.pr /\ t.pids = s1.pids /\ DOMAIN t.th = DOMAIN s1.th
          /\ \A i \in DOMAIN s1.th : i # found => t.th[i] = s1.th[i]
          /\ t.th[found].ipid = n
      BY <3>1, <2>2, <2>4, <2>7, SetOwnerRows
    <3>5. r = n
      BY <3>3, <3>4, <2>2, PidInMap DEF Partly
    <3>6. Grows(s, t)
      BY <3>2, <2>2, GrowsTransitive
    <3>7. \A i \in DOMAIN s1.th : s1.th[i].tid = pid /\ s1.th[i].ipid = NoRow => i = found
      BY Zenon, <2>4, <2>7 DEF Single
    <3> HIDE DEF t, r, found
    <3> QED BY Zenon, <3>3, <3>4, <3>5, <3>6, <3>7, <2>2, <2>7 DEF t, r
  <2>8. CASE /\ found = NoRow
             /\ \A i \in DOMAIN s1.th : s1.th[i].tid = pid =>
                        ~Belongs(s1, i, pid) /\ s1.th[i].ipid # NoRow
    <3> DEFINE s2 == NewThread(s1, pid)
               m == Len(s1.th) + 1
    <3>1. /\ Core(s2) /\ s2.pr = s1.pr /\ s2.pids = s1.pids
          /\ Len(s2.th) = m /\ DOMAIN s2.th = 1 .. m
          /\ s2.th[m].tid = pid /\ s2.th[m].ipid = NoRow
          /\ \A i \in DOMAIN s1.th : s2.th[i] = s1.th[i]
      BY <2>4, NewThreadRows
    <3>2. m \in DOMAIN s2.th /\ DOMAIN s2.th = DOMAIN s1.th \cup {m} /\ m \notin DOMAIN s1.th
      BY <3>1, <2>4, RowsOf
    <3>3. Partly(s2, X \cup {pid}, {pid})
      BY <2>2, <2>8, AddThread
    <3>4. GetInternalPid(s2, pid) = n
      BY <3>1, <2>2, PidInMap
    <3>5. t = SetOwner(s2, m, n)
      BY <3>1, <3>4, <2>3, <2>8 DEF MainThread
    <3> HIDE DEF s2, m
    <3>6. \A i \in DOMAIN s2.th : s2.th[i].tid = pid => ~Belongs(s2, i, pid)
      BY <3>1, <3>2, <2>8 DEF Belongs
    <3>7. Partly(t, (X \cup {pid}) \ {pid}, {}) /\ Grows(s2, t)
      <4>1. n \in 1 .. Len(s2.pr) /\ s2.pr[n].pid = pid
        BY Zenon, <3>1, <2>2
      <4>2. /\ Partly(SetOwner(s2, m, n), (X \cup {pid}) \ {pid}, {})
            /\ Grows(s2, SetOwner(s2, m, n))
        BY <4>1, <3>1, <3>2, <3>3, <3>6, OwnMainThread
      <4> QED BY Zenon, <3>5, <4>2
    <3>8. Partly(t, X, {})
      BY <3>7 DEF Partly, Alone, Mains
    <3>9. /\ t.pr = s2.pr /\ t.pids = s2.pids /\ DOMAIN t.th = DOMAIN s2.th
          /\ \A i \in DOMAIN s2.th : i # m => t.th[i] = s2.th[i]
          /\ \A i \in DOMAIN s2.th : t.th[i].tid = s2.th[i].tid
          /\ t.th[m].ipid = n
      BY <3>1, <3>2, <3>5, <2>2, SetOwnerRows
    <3>10. Grows(s1, s2)
      BY <2>4, NewThreadGrows DEF s2
    <3>11. Grows(s, t)
      BY Zenon, <3>7, <3>10, <2>2, GrowsTransitive
    <3>12. r = n
      BY <3>1, <3>8, <3>9, <2>2, PidInMap DEF Partly
    <3> HIDE DEF t, r, found
    <3> QED BY ZenonT(30), <3>1, <3>2, <3>8, <3>9, <3>11, <3>12, <2>2, <2>8 DEF t, r
  <2>9. \/ found \in DOMAIN s1.th /\ s1.th[found].tid = pid /\ Belongs(s1, found, pid)
        \/ /\ found \in DOMAIN s1.th /\ s1.th[found].tid = pid
           /\ s1.th[found].ipid = NoRow
           /\ \A i \in DOMAIN s1.th : s1.th[i].tid = pid => ~Belongs(s1, i, pid)
        \/ /\ found = NoRow
           /\ \A i \in DOMAIN s1.th : s1.th[i].tid = pid =>
                    ~Belongs(s1, i, pid) /\ s1.th[i].ipid # NoRow
    BY Zenon, <2>4, LookupWithPid
  <2> HIDE DEF found, t, r
  <2> QED BY Zenon, <2>6, <2>7, <2>8, <2>9 DEF t, r
<1> QED BY <1>2, <1>3

\* GetOrCreateThreadWithPid returns a thread of the tid, of the process if one
\* is given, and leaves the tables complete.
LEMMA GetOrCreateThread ==
    ASSUME NEW s, Good(s), NEW tid \in Ids, NEW pid \in Ids
    PROVE  LET t == WithThread(s, tid, pid)
               i == ThreadOf(s, tid, pid)
           IN  /\ Good(t) /\ Grows(s, t)
               /\ i \in DOMAIN t.th /\ t.th[i].tid = tid
               /\ pid # Idle => Belongs(t, i, pid)
<1> DEFINE t == WithThread(s, tid, pid)
           found == LookupThread(s, tid, pid)
           i == ThreadOf(s, tid, pid)
           s1 == IF found = NoRow THEN NewThread(s, tid) ELSE s
           s2 == CreateProcessMaybe(s1, pid)
           r == GetInternalPid(s2, pid)
<1>1. Core(s) /\ OneRow(s) /\ Single(s) /\ Alone(s, {}) /\ Mains(s, {})
  BY DEF Good, Partly
<1>2. Len(s.th) \in Nat /\ DOMAIN s.th = 1 .. Len(s.th) /\ ~(NoRow \in DOMAIN s.th)
  BY <1>1, RowsOf DEF NoRow
<1>3. t = IF s1.th[i].ipid = NoRow /\ pid # Idle THEN SetOwner(s2, i, r) ELSE s1
  BY DEF WithThread
<1>4. i = IF found = NoRow THEN Len(s.th) + 1 ELSE found
  BY Zenon DEF ThreadOf
<1>5. \/ /\ found \in DOMAIN s.th /\ s.th[found].tid = tid
         /\ pid # Idle => \/ Belongs(s, found, pid)
                          \/ /\ s.th[found].ipid = NoRow
                             /\ \A j \in DOMAIN s.th : s.th[j].tid = tid =>
                                    ~Belongs(s, j, pid)
      \/ /\ found = NoRow
         /\ \A j \in DOMAIN s.th : s.th[j].tid = tid => s.th[j].ipid # NoRow
         /\ pid = Idle => \A j \in DOMAIN s.th : s.th[j].tid # tid
         /\ pid # Idle => \A j \in DOMAIN s.th : s.th[j].tid = tid => ~Belongs(s, j, pid)
  <2>1. CASE pid = Idle
    BY Zenon, <2>1, <1>1, LookupLast DEF LookupThread
  <2>2. CASE pid # Idle
    BY <2>2, <1>1, LookupWithPid DEF LookupThread
  <2> QED BY Zenon, <2>1, <2>2
<1> HIDE DEF found, i
\* The tables after the thread row exists.
<1>6. /\ i \in DOMAIN s1.th /\ s1.th[i].tid = tid /\ Grows(s, s1)
      /\ pid = Idle => Good(s1)
      /\ pid # Idle =>
            \/ Good(s1) /\ Belongs(s1, i, pid)
            \/ /\ Partly(s1, {tid}, {}) /\ s1.th[i].ipid = NoRow
               /\ \A j \in DOMAIN s1.th : s1.th[j].tid = tid => ~Belongs(s1, j, pid)
  <2>1. CASE found # NoRow
    <3>1. s1 = s /\ i = found
      BY <2>1, <1>4
    <3>2. Partly(s, {tid}, {})
      BY DEF Good, Partly, Alone
    <3>3. Grows(s, s)
      BY Zenon DEF Grows, Keeps
    <3> QED BY <3>1, <3>2, <3>3, <2>1, <1>5
  <2>2. CASE found = NoRow
    <3>1. s1 = NewThread(s, tid) /\ i = Len(s.th) + 1
      BY Zenon, <2>2, <1>4
    <3>2. \A j \in DOMAIN s.th : s.th[j].tid = tid => s.th[j].ipid # NoRow
      BY <2>2, <1>2, <1>5
    <3>3. /\ Core(s1) /\ s1.pr = s.pr /\ s1.pids = s.pids
          /\ DOMAIN s1.th = 1 .. i
          /\ s1.th[i].tid = tid /\ s1.th[i].ipid = NoRow
          /\ \A j \in DOMAIN s.th : s1.th[j] = s.th[j]
      BY <3>1, <1>1, NewThreadRows
    <3>4. i \in DOMAIN s1.th /\ DOMAIN s1.th = DOMAIN s.th \cup {i}
      BY <3>1, <3>3, <1>2
    <3>5. Grows(s, s1)
      BY <3>1, <1>1, NewThreadGrows
    <3>6. Partly(s1, {tid}, {})
      <4>1. {} \cup {tid} = {tid}
        OBVIOUS
      <4>2. Partly(NewThread(s, tid), {} \cup {tid}, {})
        BY <3>2, AddThread DEF Good
      <4> QED BY <4>1, <4>2, <3>1
    <3> HIDE DEF s1
    <3>7. ASSUME pid = Idle PROVE Good(s1)
      <4>1. \A j \in DOMAIN s.th : s.th[j].tid # tid
        BY Zenon, <3>7, <2>2, <1>2, <1>5
      <4>2. Alone(s1, {})
        BY <4>1, <3>3, <3>4, <1>1 DEF Alone
      <4> QED BY <4>2, <3>6 DEF Good, Partly
    <3>8. ASSUME pid # Idle
          PROVE  \A j \in DOMAIN s1.th : s1.th[j].tid = tid => ~Belongs(s1, j, pid)
      <4>1. \A j \in DOMAIN s.th : s.th[j].tid = tid => ~Belongs(s, j, pid)
        BY <3>8, <2>2, <1>2, <1>5
      <4> QED BY <4>1, <3>3, <3>4 DEF Belongs
    <3> QED BY <3>3, <3>4, <3>5, <3>6, <3>7, <3>8
  <2> QED BY Zenon, <2>1, <2>2
<1> HIDE DEF s1
<1>7. CASE pid = Idle
  BY <1>3, <1>6, <1>7 DEF i
<1>8. CASE pid # Idle /\ Good(s1) /\ Belongs(s1, i, pid)
  <2>1. t = s1
    BY Zenon, <1>3, <1>8 DEF Belongs
  <2> QED BY <2>1, <1>6, <1>8 DEF i
<1>9. CASE /\ pid # Idle
           /\ Partly(s1, {tid}, {}) /\ s1.th[i].ipid = NoRow
           /\ \A j \in DOMAIN s1.th : s1.th[j].tid = tid => ~Belongs(s1, j, pid)
  <2>1. /\ Partly(s2, {tid}, {}) /\ Grows(s1, s2)
        /\ <<pid, r>> \in s2.pids /\ r \in 1 .. Len(s2.pr) /\ s2.pr[r].pid = pid
        /\ \A j \in DOMAIN s1.th : s1.th[j].tid # pid => s2.th[j] = s1.th[j]
        /\ \A j \in DOMAIN s2.th :
                j \notin DOMAIN s1.th => s2.th[j].tid = pid /\ s2.th[j].ipid = r
        /\ \A j \in DOMAIN s1.th :
                /\ s1.th[j].tid = pid /\ s1.th[j].ipid = NoRow
                /\ \A k \in DOMAIN s1.th : s1.th[k].tid = pid => ~Belongs(s1, k, pid)
                => s2.th[j].ipid = r
    BY <1>9, CreateProcess
  <2>2. t = SetOwner(s2, i, r)
    BY Zenon, <1>3, <1>9
  <2>3. i \in DOMAIN s2.th /\ s2.th[i].tid = tid
    BY Zenon, <2>1, <1>6 DEF Grows, Keeps
  <2>4. Grows(s, s2)
    BY Zenon, <2>1, <1>6, GrowsTransitive
  <2>5. Core(s2) /\ r # NoRow
    <3>1. Core(s2)
      BY Zenon, <2>1 DEF Partly
    <3> QED BY Zenon, <3>1, <2>1, PidInMap
  <2> HIDE DEF s2, r
  <2>6. CASE tid = pid
    <3>1. s2.th[i].ipid = r
      BY <2>1, <2>6, <1>6, <1>9
    <3>2. t = s2
      <4>1. s2.th \in Seq(Thread) /\ s2.th[i] \in Thread /\ s2 \in State
        BY <2>3, <2>5, RowsOf DEF Core, State
      <4>2. [s2.th[i] EXCEPT !.ipid = r] = s2.th[i]
        BY Zenon, <3>1, <4>1 DEF Thread
      <4>3. [s2.th EXCEPT ![i] = [s2.th[i] EXCEPT !.ipid = r]] = s2.th
        BY <4>1, <4>2
      <4> QED BY <2>2, <4>1, <4>3 DEF SetOwner, State
    <3>3. Belongs(s2, i, pid)
      BY <3>1, <2>1, <2>5 DEF Belongs
    <3>4. Alone(s2, {})
      <4>1. \A j \in DOMAIN s2.th : s2.th[j].tid = tid => s2.th[j].ipid # NoRow
        <5> SUFFICES ASSUME NEW j \in DOMAIN s2.th, s2.th[j].tid = tid,
                            s2.th[j].ipid = NoRow
                     PROVE  FALSE
          BY Zenon
        <5>1. j \in DOMAIN s1.th
          BY Zenon, <2>1, <2>5
        <5>2. s1.th[j].tid = tid /\ s1.th[j].ipid = NoRow
          BY <5>1, <2>1 DEF Grows, Keeps
        <5>3. j = i
          BY <5>1, <5>2, <1>6, <1>9 DEF Partly, Single
        <5> QED BY <5>3, <3>1, <2>5
      <4> QED BY <4>1, <2>1 DEF Partly, Alone
    <3> QED BY <3>2, <3>3, <3>4, <2>1, <2>3, <2>4 DEF Good, Partly, i
  <2>7. CASE tid # pid
    <3>1. s2.th[i].ipid = NoRow
      BY <2>1, <2>7, <1>6, <1>9
    <3>2. \A j \in DOMAIN s2.th : s2.th[j].tid = tid => ~Belongs(s2, j, s2.pr[r].pid)
      <4> SUFFICES ASSUME NEW j \in DOMAIN s2.th, s2.th[j].tid = tid, Belongs(s2, j, pid)
                   PROVE  FALSE
        BY Zenon, <2>1
      <4>1. j \in DOMAIN s1.th /\ s1.th[j].tid = tid
        BY <2>1, <2>7 DEF Grows, Keeps
      <4>2. s2.th[j] = s1.th[j]
        BY <4>1, <2>1, <2>7
      <4>3. Core(s1)
        BY Zenon, <1>9 DEF Partly
      <4>4. s1.th[j].ipid # NoRow /\ s1.th[j].ipid \in DOMAIN s1.pr
        BY <4>1, <4>2, <4>3, RowsOf DEF Belongs, Core, NoRow
      <4>5. Belongs(s1, j, pid)
        BY Zenon, <4>2, <4>4, <2>1 DEF Belongs, Grows, Keeps
      <4> QED BY Zenon, <4>1, <4>5, <1>9
    <3>3. Partly(SetOwner(s2, i, r), {tid} \ {tid}, {}) /\ Grows(s2, SetOwner(s2, i, r))
      BY Zenon, <3>1, <3>2, <2>1, <2>3, <2>7, OwnThread
    <3>4. Good(t) /\ Grows(s2, t)
      BY <3>3, <2>2 DEF Good, Partly, Alone
    <3>5. i \in DOMAIN t.th /\ t.th[i].tid = tid /\ Belongs(t, i, pid)
      <4>1. /\ t.pr = s2.pr /\ DOMAIN t.th = DOMAIN s2.th
            /\ t.th[i].tid = s2.th[i].tid /\ t.th[i].ipid = r
        <5> DEFINE u == SetOwner(s2, i, r)
        <5>1. r \in 1 .. Len(s2.pr)
          BY Zenon, <2>1
        <5>2. /\ u.pr = s2.pr /\ DOMAIN u.th = DOMAIN s2.th
              /\ \A j \in DOMAIN s2.th : u.th[j].tid = s2.th[j].tid
              /\ u.th[i].ipid = r
          <6> HIDE DEF i
          <6> QED BY <5>1, <2>3, <2>5, SetOwnerRows
        <5> HIDE DEF u, t
        <5>3. t = u
          BY Zenon, <2>2 DEF u
        <5> QED BY Zenon, <5>2, <5>3, <2>3
      <4> QED BY Zenon, <4>1, <2>1, <2>3, <2>5 DEF Belongs
    <3>6. Grows(s, t)
      BY <3>4, <2>4, GrowsTransitive
    <3> QED BY <3>4, <3>5, <3>6 DEF i
  <2> QED BY <2>6, <2>7
<1> QED BY <1>6, <1>7, <1>8, <1>9 DEF i

-----------------------------------------------------------------------------
\* The operations: each one takes complete tables to complete tables.

\* The tables t differ from s in names only.
Renames(s, t) ==
    /\ t \in State
    /\ DOMAIN t.th = DOMAIN s.th /\ DOMAIN t.pr = DOMAIN s.pr
    /\ \A i \in DOMAIN s.th : t.th[i].tid = s.th[i].tid /\ t.th[i].ipid = s.th[i].ipid
    /\ \A r \in DOMAIN s.pr : t.pr[r].pid = s.pr[r].pid
    /\ t.tids = s.tids /\ t.pids = s.pids

\* Names play no part in the invariants.
LEMMA RenamesGood ==
    ASSUME NEW s, NEW t, Good(s), Renames(s, t)
    PROVE  Good(t) /\ Grows(s, t)
<1>1. Core(s)
  BY DEF Good, Partly
<1>2. Len(t.pr) = Len(s.pr)
  BY <1>1, RowsOf DEF Renames, State
<1>3. \A i \in DOMAIN s.th : s.th[i].ipid # NoRow => s.th[i].ipid \in DOMAIN s.pr
  BY <1>1, RowsOf DEF Core, NoRow
<1>4. \A i \in DOMAIN s.th, q \in Ids : Belongs(t, i, q) <=> Belongs(s, i, q)
  BY <1>3 DEF Renames, Belongs
<1>5. Core(t)
  <2>1. t.tids = {<<t.th[i].tid, i>> : i \in DOMAIN t.th}
    BY <1>1 DEF Renames, Core
  <2>2. \A p \in t.pids : p[2] \in 1 .. Len(t.pr) /\ t.pr[p[2]].pid = p[1]
    BY Zenon, <1>1, <1>2, RowsOf DEF Renames, Core
  <2> QED BY Zenon, <2>1, <2>2, <1>1, <1>2 DEF Renames, Core
<1>6. OneRow(t) /\ Single(t) /\ Alone(t, {})
  BY <1>4 DEF Good, Partly, OneRow, Single, Alone, Renames
<1>7. Mains(t, {})
  <2> SUFFICES ASSUME NEW p \in t.pids
               PROVE  \E i \in DOMAIN t.th : t.th[i].tid = p[1] /\ Belongs(t, i, p[1])
    BY Zenon DEF Mains
  <2>1. p \in s.pids /\ p[1] \in Ids
    BY Zenon, <1>1 DEF Renames, Core, State
  <2>2. PICK i \in DOMAIN s.th : s.th[i].tid = p[1] /\ Belongs(s, i, p[1])
    BY <2>1 DEF Good, Partly, Mains
  <2> QED BY Zenon, <2>1, <2>2, <1>4 DEF Renames
<1>8. Grows(s, t)
  BY DEF Grows, Keeps, Renames
<1> QED BY <1>5, <1>6, <1>7, <1>8 DEF Good, Partly

\* Renaming one thread.
LEMMA RenameThread ==
    ASSUME NEW s, Core(s), NEW i \in DOMAIN s.th, NEW name \in Names
    PROVE  Renames(s, [s EXCEPT !.th[i].name = name])
<1> DEFINE t == [s EXCEPT !.th[i].name = name]
<1>1. /\ t.th = [s.th EXCEPT ![i] = [@ EXCEPT !.name = name]]
      /\ t.pr = s.pr /\ t.tids = s.tids /\ t.pids = s.pids
      /\ s.th \in Seq(Thread) /\ s.th[i] \in Thread
  BY RowsOf DEF Core, State
<1>2. /\ [s.th[i] EXCEPT !.name = name] \in Thread
      /\ [s.th[i] EXCEPT !.name = name].tid = s.th[i].tid
      /\ [s.th[i] EXCEPT !.name = name].ipid = s.th[i].ipid
  BY <1>1 DEF Thread
<1>3. /\ t.th \in Seq(Thread) /\ DOMAIN t.th = DOMAIN s.th
      /\ \A j \in DOMAIN s.th : t.th[j] = IF j = i
                    THEN [s.th[i] EXCEPT !.name = name] ELSE s.th[j]
  BY <1>1, <1>2
<1>4. t \in State
  BY Zenon, <1>1, <1>3 DEF Core, State
<1> HIDE DEF t
<1>5. Renames(s, t)
  BY <1>1, <1>2, <1>3, <1>4 DEF Renames
<1> QED BY <1>5 DEF t

\* Renaming one process.
LEMMA RenameProcess ==
    ASSUME NEW s, Core(s), NEW r \in DOMAIN s.pr, NEW name \in Names
    PROVE  Renames(s, [s EXCEPT !.pr[r].cmdLine = name])
<1> DEFINE t == [s EXCEPT !.pr[r].cmdLine = name]
<1>1. /\ t.pr = [s.pr EXCEPT ![r] = [@ EXCEPT !.cmdLine = name]]
      /\ t.th = s.th /\ t.tids = s.tids /\ t.pids = s.pids
      /\ s.pr \in Seq(Process) /\ s.pr[r] \in Process
  BY RowsOf DEF Core, State
<1>2. /\ [s.pr[r] EXCEPT !.cmdLine = name] \in Process
      /\ [s.pr[r] EXCEPT !.cmdLine = name].pid = s.pr[r].pid
  BY <1>1 DEF Process
<1>3. /\ t.pr \in Seq(Process) /\ DOMAIN t.pr = DOMAIN s.pr
      /\ \A q \in DOMAIN s.pr : t.pr[q] = IF q = r
                    THEN [s.pr[r] EXCEPT !.cmdLine = name] ELSE s.pr[q]
  BY <1>1, <1>2
<1>4. t \in State
  BY Zenon, <1>1, <1>3 DEF Core, State
<1> HIDE DEF t
<1>5. Renames(s, t)
  BY <1>1, <1>2, <1>3, <1>4 DEF Renames
<1> QED BY <1>5 DEF t

\* UpdateOrCreateProcessWithName returns the row of the map and leaves the
\* tables complete.
LEMMA NameProcess ==
    ASSUME NEW s, Good(s), NEW pid \in Ids, NEW name \in Names
    PROVE  LET t == WithProcessName(s, pid, name)
           IN  /\ Good(t) /\ Grows(s, t)
               /\ <<pid, GetInternalPid(t, pid)>> \in t.pids
<1> DEFINE t == WithProcessName(s, pid, name)
           s1 == CreateProcessMaybe(s, pid)
           ipid == GetInternalPid(s1, pid)
           s2 == IF name = NoName THEN s1 ELSE [s1 EXCEPT !.pr[ipid].cmdLine = name]
           itid == GetInternalTid(s2, pid, pid)
<1>1. /\ Good(s1) /\ Grows(s, s1)
      /\ <<pid, ipid>> \in s1.pids /\ ipid \in 1 .. Len(s1.pr)
  BY CreateProcess DEF Good
<1>2. t = IF itid = NoRow THEN s2
          ELSE [s2 EXCEPT !.th[itid].name = s2.pr[ipid].cmdLine]
  BY Zenon DEF WithProcessName
<1> HIDE DEF s1, ipid, t
<1>3. Core(s1) /\ ipid \in DOMAIN s1.pr
  BY <1>1, RowsOf DEF Good, Partly
<1>4. /\ Good(s2) /\ Grows(s1, s2) /\ s2.pids = s1.pids /\ DOMAIN s2.pr = DOMAIN s1.pr
  <2>1. CASE name = NoName
    <3>1. Grows(s1, s1)
      BY DEF Grows, Keeps
    <3> QED BY <3>1, <2>1, <1>1
  <2>2. CASE name # NoName
    <3>1. Renames(s1, s2)
      BY <2>2, <1>3, RenameProcess
    <3> HIDE DEF s2
    <3>2. Good(s2) /\ Grows(s1, s2)
      BY Zenon, <3>1, <1>1, RenamesGood
    <3> QED BY <3>1, <3>2 DEF Renames
  <2> QED BY <2>1, <2>2
<1> HIDE DEF s2, itid
<1>5. Core(s2) /\ s2.pr[ipid].cmdLine \in Names
  BY Zenon, <1>3, <1>4, RowsOf DEF Good, Partly, Process
<1>6. itid = NoRow \/ itid \in DOMAIN s2.th
  BY <1>4, LookupWithPid DEF itid, Good, Partly
<1>7. Good(t) /\ Grows(s2, t) /\ t.pids = s2.pids
  <2>1. CASE itid = NoRow
    <3>1. Grows(s2, s2)
      BY DEF Grows, Keeps
    <3> QED BY <3>1, <2>1, <1>2, <1>4
  <2>2. CASE itid # NoRow
    <3>1. Renames(s2, t)
      BY <2>2, <1>2, <1>5, <1>6, RenameThread
    <3>2. Good(t) /\ Grows(s2, t)
      BY <3>1, <1>4, RenamesGood
    <3> QED BY <3>1, <3>2 DEF Renames
  <2> QED BY <2>1, <2>2
<1>8. Grows(s, t)
  <2>1. Grows(s, s2)
    BY <1>1, <1>4, GrowsTransitive
  <2> QED BY <2>1, <1>7, GrowsTransitive
<1>9. <<pid, ipid>> \in t.pids
  BY <1>1, <1>4, <1>7
<1>10. <<pid, GetInternalPid(t, pid)>> \in t.pids
  <2>1. Core(t)
    BY <1>7 DEF Good, Partly
  <2>2. GetInternalPid(t, pid) = ipid
    BY <2>1, <1>9, PidInMap
  <2> QED BY Zenon, <2>2, <1>9
<1> QED BY <1>7, <1>8, <1>10 DEF t

-----------------------------------------------------------------------------
\* The inductive invariant: the tables are complete between operations, every
\* process row is in the map until Finish, and the last result is right.
IInv ==
    /\ Good(Tables)
    /\ PidsUnique
    /\ finished \in BOOLEAN
    /\ ret \in Result
    /\ ReturnsWhatWasAsked

\* It implies every invariant of the specification.
LEMMA IInvImplies ==
    IInv => /\ TypeOK /\ IndexesAgree /\ PidsUnique /\ UnownedAlone
            /\ OneRowPerThread /\ MainThreadExists /\ ReturnsWhatWasAsked
<1> SUFFICES ASSUME IInv
             PROVE  /\ TypeOK /\ IndexesAgree /\ PidsUnique /\ UnownedAlone
                    /\ OneRowPerThread /\ MainThreadExists /\ ReturnsWhatWasAsked
  OBVIOUS
<1>1. /\ Tables.th = threads /\ Tables.pr = processes
      /\ Tables.tids = tidMappingSet_ /\ Tables.pids = pidToInternalPidMap_
  BY DEF Tables
<1>2. /\ Core(Tables) /\ OneRow(Tables) /\ Alone(Tables, {}) /\ Mains(Tables, {})
  BY Zenon DEF IInv, Good, Partly
<1>3. /\ threads \in Seq(Thread) /\ processes \in Seq(Process)
      /\ tidMappingSet_ \subseteq Ids \X Nat /\ pidToInternalPidMap_ \subseteq Ids \X Nat
  BY <1>1, <1>2 DEF Core, State
<1>4. IndexesAgree
  BY <1>1, <1>2 DEF Core, IndexesAgree
<1>5. tidMappingSet_ \subseteq Ids \X (1 .. Len(threads))
  <2>1. tidMappingSet_ = {<<threads[i].tid, i>> : i \in DOMAIN threads}
    BY <1>4 DEF IndexesAgree
  <2>2. \A i \in DOMAIN threads : threads[i].tid \in Ids /\ i \in 1 .. Len(threads)
    <3>1. DOMAIN threads = 1 .. Len(threads) /\ \A i \in DOMAIN threads : threads[i] \in Thread
      BY <1>3
    <3> QED BY <3>1 DEF Thread
  <2>3. \A i \in DOMAIN threads : <<threads[i].tid, i>> \in Ids \X (1 .. Len(threads))
    BY <2>2
  <2> QED BY <2>1, <2>3
<1>6. pidToInternalPidMap_ \subseteq Ids \X (1 .. Len(processes))
  <2> SUFFICES ASSUME NEW p \in pidToInternalPidMap_
               PROVE  p \in Ids \X (1 .. Len(processes))
    OBVIOUS
  <2>1. p \in Ids \X Nat /\ p[2] \in 1 .. Len(processes)
    BY <1>1, <1>2, <1>3 DEF Core
  <2> QED BY <2>1
<1>7. \A i \in DOMAIN threads : threads[i].ipid \in 0 .. Len(processes)
  BY <1>1, <1>2 DEF Core
<1>8. TypeOK
  BY <1>3, <1>5, <1>6, <1>7 DEF TypeOK, IInv
<1>9. UnownedAlone
  BY <1>1, <1>2 DEF UnownedAlone, Alone
<1>10. OneRowPerThread
  <2> SUFFICES ASSUME NEW i \in DOMAIN threads, NEW j \in DOMAIN threads,
                      threads[i].tid = threads[j].tid,
                      threads[i].ipid # NoRow, threads[j].ipid # NoRow,
                      processes[threads[i].ipid].pid = processes[threads[j].ipid].pid
               PROVE  i = j
    BY DEF OneRowPerThread
  <2>1. threads[i].ipid \in DOMAIN processes
    <3>1. DOMAIN processes = 1 .. Len(processes) /\ Len(processes) \in Nat
      BY <1>3
    <3>2. threads[i].ipid \in 0 .. Len(processes)
      BY <1>7
    <3> QED BY <3>1, <3>2 DEF NoRow
  <2>2. processes[threads[i].ipid].pid \in Ids
    <3>1. processes[threads[i].ipid] \in Process
      BY <2>1, <1>3
    <3> QED BY <3>1 DEF Process
  <2> QED BY <2>2, <1>1, <1>2 DEF OneRow, Belongs
<1>11. MainThreadExists
  BY <1>1, <1>2 DEF Mains, Belongs, MainThreadExists
<1> QED BY <1>4, <1>8, <1>9, <1>10, <1>11 DEF IInv

\* The initial tables are complete.
LEMMA InitIInv == Init => IInv
<1> SUFFICES ASSUME Init PROVE IInv
  OBVIOUS
<1> USE DEF Init, Tables
<1> DEFINE s == Tables
<1>1. s \in State
  BY IdsAssumption, NamesAssumption DEF State, Thread, Process
<1>2. /\ DOMAIN s.th = {1} /\ DOMAIN s.pr = {1} /\ Len(s.pr) = 1
      /\ s.th[1].tid = Idle /\ s.th[1].ipid = 1 /\ s.pr[1].pid = Idle
      /\ s.tids = {<<Idle, 1>>} /\ s.pids = {<<Idle, 1>>}
  OBVIOUS
<1>3. finished = FALSE /\ ret = [op |-> "none"]
  OBVIOUS
<1>4. PidsUnique
  BY <1>2 DEF PidsUnique
<1> HIDE DEF Tables, Init
<1>5. Core(s)
  BY <1>1, <1>2 DEF Core
<1>6. OneRow(s) /\ Single(s) /\ Alone(s, {})
  BY <1>2 DEF OneRow, Single, Alone
<1>7. Mains(s, {})
  BY <1>2 DEF Mains, Belongs, NoRow
<1>8. ReturnsWhatWasAsked /\ ret \in Result
  BY <1>3 DEF ReturnsWhatWasAsked, Result
<1> QED BY Zenon, <1>3, <1>4, <1>5, <1>6, <1>7, <1>8 DEF IInv, Good, Partly

-----------------------------------------------------------------------------
\* A step that leaves complete tables t behind, grown from the old ones.
LEMMA BecomeStep ==
    ASSUME Good(Tables), PidsUnique, NEW STATE t, Good(t), Grows(Tables, t), Become(t),
           UNCHANGED finished
    PROVE  Tables' = t /\ Good(Tables') /\ Keeps(Tables, Tables') /\ PidsUnique'
<1>1. t \in State
  BY Zenon DEF Good, Partly, Core
<1>2. Tables' = t
  BY <1>1 DEF Become, Tables, State
<1>3. PidsUnique'
  <2> SUFFICES ASSUME ~finished, NEW r \in DOMAIN processes'
               PROVE  <<processes'[r].pid, r>> \in pidToInternalPidMap_'
    BY DEF PidsUnique
  <2>1. /\ processes' = t.pr /\ pidToInternalPidMap_' = t.pids
        /\ processes = Tables.pr /\ pidToInternalPidMap_ = Tables.pids
    BY DEF Become, Tables
  <2>2. CASE r \in DOMAIN processes
    <3>1. <<processes[r].pid, r>> \in pidToInternalPidMap_
      BY Zenon, <2>2 DEF PidsUnique
    <3>2. processes'[r].pid = processes[r].pid /\ pidToInternalPidMap_ \subseteq pidToInternalPidMap_'
      BY <2>1, <2>2 DEF Grows, Keeps
    <3> QED BY <3>1, <3>2
  <2>3. CASE r \notin DOMAIN processes
    BY <2>1, <2>3 DEF Grows
  <2> QED BY <2>2, <2>3
<1> QED BY Zenon, <1>2, <1>3 DEF Grows

\* A step that returns the row of a thread.
LEMMA ThreadReturned ==
    ASSUME IInv, NEW STATE t, Good(t), Grows(Tables, t), Become(t), UNCHANGED finished,
           NEW tid \in Ids, NEW pid \in Ids, NEW STATE row,
           row \in DOMAIN t.th, t.th[row].tid = tid, pid # Idle => Belongs(t, row, pid),
           ret' = [op |-> "thread", tid |-> tid, pid |-> pid, row |-> row]
    PROVE  IInv' /\ Keeps(Tables, Tables')
<1>1. Good(Tables') /\ Keeps(Tables, Tables') /\ PidsUnique'
  BY BecomeStep DEF IInv
<1>2. ret' \in Result
  <2>1. Core(t)
    BY DEF Good, Partly
  <2>2. row \in Nat
    BY <2>1, RowsOf
  <2> QED BY <2>2 DEF Result
<1>3. ReturnsWhatWasAsked'
  <2>1. threads' = t.th /\ processes' = t.pr
    BY DEF Become
  <2> QED BY <2>1 DEF ReturnsWhatWasAsked, Belongs
<1>4. finished' \in BOOLEAN
  BY Zenon DEF IInv
<1> QED BY Zenon, <1>1, <1>2, <1>3, <1>4 DEF IInv

\* A step that returns the row of a process.
LEMMA ProcessReturned ==
    ASSUME IInv, NEW STATE t, Good(t), Grows(Tables, t), Become(t), UNCHANGED finished,
           NEW pid \in Ids, NEW STATE row, <<pid, row>> \in t.pids,
           ret' = [op |-> "process", pid |-> pid, row |-> row]
    PROVE  IInv' /\ Keeps(Tables, Tables')
<1>1. Good(Tables') /\ Keeps(Tables, Tables') /\ PidsUnique'
  BY BecomeStep DEF IInv
<1>2. ret' \in Result
  <2>1. t.pids \subseteq Ids \X Nat
    BY Zenon DEF Good, Partly, Core, State
  <2>2. row \in Nat
    BY <2>1
  <2> QED BY Zenon, <2>2 DEF Result
<1>3. ReturnsWhatWasAsked'
  <2>1. pidToInternalPidMap_' = t.pids
    BY DEF Become
  <2> QED BY <2>1 DEF ReturnsWhatWasAsked
<1>4. finished' \in BOOLEAN
  BY Zenon DEF IInv
<1> QED BY Zenon, <1>1, <1>2, <1>3, <1>4 DEF IInv

\* UpdateOrCreateThreadWithNameIndex: a row is added only for a tid without
\* one, so an unowned thread stays alone with its tid.
LEMMA ThreadStep ==
    ASSUME IInv, NEW tid \in Ids, NEW name \in Names,
           UpdateOrCreateThreadWithNameIndex(tid, name)
    PROVE  IInv' /\ Keeps(Tables, Tables')
<1> DEFINE itids == GetInternalTids(Tables, tid)
           s == IF itids = {} THEN NewThread(Tables, tid) ELSE Tables
           named == IF itids = {} THEN {Len(s.th)} ELSE itids
           t == IF name = NoName THEN s
                ELSE [s EXCEPT !.th = [i \in DOMAIN s.th |->
                          IF i \in named THEN [s.th[i] EXCEPT !.name = name]
                          ELSE s.th[i]]]
           row == LastInternalTid(s, tid)
<1>1. /\ Become(t) /\ UNCHANGED finished
      /\ ret' = [op |-> "thread", tid |-> tid, pid |-> Idle, row |-> row]
  BY DEF UpdateOrCreateThreadWithNameIndex
<1>2. Good(Tables) /\ Core(Tables) /\ PidsUnique
  BY DEF IInv, Good, Partly
<1>3. Good(s) /\ Grows(Tables, s)
  <2>1. CASE itids = {}
    <3>1. \A i \in DOMAIN Tables.th : Tables.th[i].tid # tid
      BY <2>1, <1>2, TidsOf
    <3>2. Partly(NewThread(Tables, tid), {} \cup {tid}, {})
      BY <3>1, <1>2, AddThread DEF Good
    <3>3. Alone(NewThread(Tables, tid), {})
      <4> DEFINE u == NewThread(Tables, tid)
                 n == Len(Tables.th) + 1
      <4>1. /\ DOMAIN u.th = 1 .. n /\ u.th[n].tid = tid
            /\ \A i \in DOMAIN Tables.th : u.th[i] = Tables.th[i]
        BY Zenon, <1>2, NewThreadRows
      <4>2. DOMAIN u.th = DOMAIN Tables.th \cup {n}
        BY <4>1, <1>2, RowsOf
      <4> HIDE DEF u, n
      <4>3. Alone(u, {})
        BY Zenon, <4>1, <4>2, <3>1, <1>2 DEF Good, Partly, Alone
      <4> QED BY Zenon, <4>3 DEF u
    <3>4. Good(NewThread(Tables, tid))
      BY <3>2, <3>3 DEF Good, Partly
    <3> QED BY <3>4, <2>1, <1>2, NewThreadGrows
  <2>2. CASE itids # {}
    <3>1. Grows(Tables, Tables)
      BY DEF Grows, Keeps
    <3> QED BY <3>1, <2>2, <1>2
  <2> QED BY <2>1, <2>2
<1>4. Core(s) /\ \E i \in DOMAIN s.th : s.th[i].tid = tid
  <2>1. Core(s)
    BY Zenon, <1>3 DEF Good, Partly
  <2>2. CASE itids = {}
    <3>1. Len(Tables.th) + 1 \in DOMAIN NewThread(Tables, tid).th
      BY <1>2, NewThreadRows, RowsOf
    <3> QED BY <3>1, <2>1, <2>2, <1>2, NewThreadRows
  <2>3. CASE itids # {}
    BY <2>1, <2>3, <1>2, TidsOf
  <2> QED BY <2>1, <2>2, <2>3
<1>5. row \in DOMAIN s.th /\ s.th[row].tid = tid
  BY <1>4, LookupLast
<1> HIDE DEF s, row
<1>6. /\ Good(t) /\ Grows(s, t)
      /\ row \in DOMAIN t.th /\ t.th[row].tid = tid
  <2>1. CASE name = NoName
    <3>1. Grows(s, s)
      BY DEF Grows, Keeps
    <3> QED BY Zenon, <3>1, <2>1, <1>3, <1>5
  <2>2. CASE name # NoName
    <3> DEFINE new == [i \in DOMAIN s.th |->
                          IF i \in named THEN [s.th[i] EXCEPT !.name = name]
                          ELSE s.th[i]]
    <3> HIDE DEF named
    <3>1. \A i \in DOMAIN s.th :
            /\ new[i] \in Thread
            /\ new[i].tid = s.th[i].tid /\ new[i].ipid = s.th[i].ipid
      BY <1>4, RowsOf DEF Thread
    <3>2. new \in Seq(Thread) /\ DOMAIN new = DOMAIN s.th
      <4>1. DOMAIN s.th = 1 .. Len(s.th) /\ Len(s.th) \in Nat
        BY <1>4, RowsOf
      <4> HIDE DEF new
      <4>2. DOMAIN new = DOMAIN s.th /\ new = [i \in DOMAIN s.th |-> new[i]]
        BY DEF new
      <4>3. new \in [1 .. Len(s.th) -> Thread]
        BY <4>1, <4>2, <3>1
      <4> QED BY <4>1, <4>2, <4>3
    <3> HIDE DEF new
    <3>3. t = [s EXCEPT !.th = new]
      BY <2>2 DEF new
    <3>4. /\ t.th = new /\ t.pr = s.pr /\ t.tids = s.tids /\ t.pids = s.pids
          /\ t \in State
      BY Zenon, <3>2, <3>3, <1>4 DEF Core, State
    <3> HIDE DEF t
    <3>5. Renames(s, t)
      BY <3>1, <3>2, <3>4 DEF Renames
    <3> QED BY <3>5, <1>3, <1>5, RenamesGood DEF Renames
  <2> QED BY <2>1, <2>2
<1>7. Grows(Tables, t)
  BY <1>3, <1>6, GrowsTransitive
<1> HIDE DEF t
<1> QED BY <1>1, <1>5, <1>6, <1>7, IdsAssumption, ThreadReturned

\* GetOrCreateThreadWithPid.
LEMMA ThreadWithPidStep ==
    ASSUME IInv, NEW tid \in Ids, NEW pid \in Ids, GetOrCreateThreadWithPid(tid, pid)
    PROVE  IInv' /\ Keeps(Tables, Tables')
<1> DEFINE t == WithThread(Tables, tid, pid)
           row == ThreadOf(Tables, tid, pid)
<1>1. /\ Good(t) /\ Grows(Tables, t)
      /\ row \in DOMAIN t.th /\ t.th[row].tid = tid
      /\ pid # Idle => Belongs(t, row, pid)
  BY Zenon, GetOrCreateThread DEF IInv
<1>2. /\ Become(t) /\ UNCHANGED finished
      /\ ret' = [op |-> "thread", tid |-> tid, pid |-> pid, row |-> row]
  BY Zenon DEF GetOrCreateThreadWithPid
<1> HIDE DEF t, row
<1> QED BY <1>1, <1>2, ThreadReturned

\* UpdateOrCreateThreadWithPidAndName: the two renamings keep the tables as
\* GetOrCreateThreadWithPid left them.
LEMMA ThreadWithPidAndNameStep ==
    ASSUME IInv, NEW tid \in Ids, NEW pid \in Ids, NEW name \in Names,
           UpdateOrCreateThreadWithPidAndName(tid, pid, name)
    PROVE  IInv' /\ Keeps(Tables, Tables')
<1> DEFINE w == WithThread(Tables, tid, pid)
           row == ThreadOf(Tables, tid, pid)
           s == [w EXCEPT !.th[row].name = name]
           t == IF tid = pid THEN WithProcessName(s, pid, name) ELSE s
<1>1. /\ Good(w) /\ Grows(Tables, w)
      /\ row \in DOMAIN w.th /\ w.th[row].tid = tid
      /\ pid # Idle => Belongs(w, row, pid)
  BY GetOrCreateThread DEF IInv
<1>2. /\ Become(t) /\ UNCHANGED finished
      /\ ret' = [op |-> "thread", tid |-> tid, pid |-> pid, row |-> row]
  BY DEF UpdateOrCreateThreadWithPidAndName
<1> HIDE DEF w, row
<1>3. Renames(w, s)
  <2>1. Core(w)
    BY <1>1 DEF Good, Partly
  <2> QED BY Zenon, <2>1, <1>1, RenameThread
<1> HIDE DEF s
<1>4. Good(s) /\ Grows(w, s)
  BY <1>1, <1>3, RenamesGood
<1>5. Good(t) /\ Grows(s, t)
  <2>1. CASE tid = pid
    <3>1. Good(WithProcessName(s, pid, name)) /\ Grows(s, WithProcessName(s, pid, name))
      BY Zenon, <1>4, NameProcess
    <3> QED BY Zenon, <3>1, <2>1
  <2>2. CASE tid # pid
    <3>1. Grows(s, s)
      BY DEF Grows, Keeps
    <3> QED BY <3>1, <2>2, <1>4
  <2> QED BY <2>1, <2>2
<1> HIDE DEF t
<1>6. Grows(w, t) /\ Grows(Tables, t)
  <2>1. Grows(w, t)
    BY Zenon, <1>4, <1>5, GrowsTransitive
  <2> QED BY <2>1, <1>1, GrowsTransitive
<1>7. row \in DOMAIN t.th /\ t.th[row].tid = tid
  BY Zenon, <1>1, <1>6 DEF Grows, Keeps
<1>8. ASSUME pid # Idle PROVE Belongs(t, row, pid)
  <2>1. w.th[row].ipid # NoRow /\ w.pr[w.th[row].ipid].pid = pid
    BY Zenon, <1>1, <1>8 DEF Belongs
  <2>2. t.th[row].ipid = w.th[row].ipid
    BY Zenon, <2>1, <1>1, <1>6 DEF Grows, Keeps
  <2>3. w.th[row].ipid \in DOMAIN w.pr
    <3>1. Core(w)
      BY <1>1 DEF Good, Partly
    <3>2. w.th[row].ipid \in 0 .. Len(w.pr)
      BY Zenon, <3>1, <1>1 DEF Core
    <3> QED BY <3>1, <3>2, <2>1, RowsOf DEF NoRow
  <2>4. t.pr[w.th[row].ipid].pid = pid
    BY Zenon, <2>1, <2>3, <1>6 DEF Grows, Keeps
  <2> QED BY Zenon, <2>1, <2>2, <2>4 DEF Belongs
<1> QED BY Zenon, <1>2, <1>5, <1>6, <1>7, <1>8, ThreadReturned

\* UpdateOrCreateProcessWithName.
LEMMA ProcessWithNameStep ==
    ASSUME IInv, NEW pid \in Ids, NEW name \in Names,
           UpdateOrCreateProcessWithName(pid, name)
    PROVE  IInv' /\ Keeps(Tables, Tables')
<1> DEFINE t == WithProcessName(Tables, pid, name)
           row == GetInternalPid(t, pid)
<1>1. Good(t) /\ Grows(Tables, t) /\ <<pid, row>> \in t.pids
  BY Zenon, NameProcess DEF IInv
<1>2. /\ Become(t) /\ UNCHANGED finished
      /\ ret' = [op |-> "process", pid |-> pid, row |-> row]
  BY Zenon DEF UpdateOrCreateProcessWithName
<1> HIDE DEF t, row
<1> QED BY Zenon, <1>1, <1>2, ProcessReturned

\* GetOrCreateInternalPid.
LEMMA InternalPidStep ==
    ASSUME IInv, NEW pid \in Ids, GetOrCreateInternalPid(pid)
    PROVE  IInv' /\ Keeps(Tables, Tables')
<1> DEFINE t == CreateProcessMaybe(Tables, pid)
           row == GetInternalPid(t, pid)
<1>1. Partly(Tables, {}, {})
  BY Zenon DEF IInv, Good
<1>2. Partly(t, {}, {}) /\ Grows(Tables, t) /\ <<pid, row>> \in t.pids
  BY Zenon, <1>1, CreateProcess
<1>3. /\ Become(t) /\ UNCHANGED finished
      /\ ret' = [op |-> "process", pid |-> pid, row |-> row]
  BY DEF GetOrCreateInternalPid
<1> HIDE DEF t, row
<1>4. Good(t)
  BY <1>2 DEF Good
<1> QED BY Zenon, <1>2, <1>3, <1>4, ProcessReturned

-----------------------------------------------------------------------------
\* The rows of two tables one after the other.
LEMMA Concatenation ==
    ASSUME NEW S, NEW a \in Seq(S), NEW b \in Seq(S)
    PROVE  /\ a \o b \in Seq(S) /\ DOMAIN (a \o b) = 1 .. (Len(a) + Len(b))
           /\ \A r \in 1 .. Len(a) : (a \o b)[r] = a[r]
           /\ \A k \in 1 .. Len(b) : (a \o b)[Len(a) + k] = b[k]
<1>1. Len(a) \in Nat /\ Len(b) \in Nat
  OBVIOUS
<1>2. a \o b \in Seq(S) /\ Len(a \o b) = Len(a) + Len(b)
  OBVIOUS
<1>3. DOMAIN (a \o b) = 1 .. (Len(a) + Len(b))
  BY <1>1, <1>2
<1>4. \A r \in 1 .. (Len(a) + Len(b)) :
        (a \o b)[r] = IF r <= Len(a) THEN a[r] ELSE b[r - Len(a)]
  BY <1>1
<1>5. \A k \in 1 .. Len(b) : (a \o b)[Len(a) + k] = b[k]
  <2> SUFFICES ASSUME NEW k \in 1 .. Len(b) PROVE (a \o b)[Len(a) + k] = b[k]
    OBVIOUS
  <2>1. /\ Len(a) + k \in 1 .. (Len(a) + Len(b))
        /\ ~(Len(a) + k <= Len(a)) /\ (Len(a) + k) - Len(a) = k
    BY <1>1
  <2> QED BY <2>1, <1>4
<1>6. \A r \in 1 .. Len(a) : (a \o b)[r] = a[r]
  BY <1>1, <1>4
<1> QED BY <1>2, <1>3, <1>5, <1>6

\* CpuFilter::Finish gives every unowned thread a process row of its own,
\* whose pid is the thread's tid, and changes nothing else.
LEMMA FinishRows ==
    ASSUME Good(Tables), Finish
    PROVE  /\ threads' \in Seq(Thread) /\ processes' \in Seq(Process)
           /\ DOMAIN threads' = DOMAIN threads
           /\ \A i \in DOMAIN threads :
                /\ threads'[i].tid = threads[i].tid
                /\ i \notin Orphans => threads'[i] = threads[i]
           /\ \A r \in DOMAIN processes :
                r \in DOMAIN processes' /\ processes'[r] = processes[r]
           /\ \A i \in Orphans :
                /\ threads'[i].ipid \in DOMAIN processes'
                /\ threads'[i].ipid \notin DOMAIN processes
                /\ processes'[threads'[i].ipid].pid = threads[i].tid
           /\ \A r \in DOMAIN processes' : r \notin DOMAIN processes =>
                \E i \in Orphans : threads'[i].ipid = r /\ processes'[r].pid = threads[i].tid
<1> DEFINE c == Cardinality(Orphans)
           n == Len(processes)
<1>1. Core(Tables) /\ Tables.th = threads /\ Tables.pr = processes
  BY Zenon DEF Good, Partly, Tables
<1>2. /\ threads \in Seq(Thread) /\ processes \in Seq(Process)
      /\ Len(threads) \in Nat /\ DOMAIN threads = 1 .. Len(threads)
      /\ n \in Nat /\ DOMAIN processes = 1 .. n
      /\ \A i \in DOMAIN threads : threads[i] \in Thread
      /\ \A r \in DOMAIN processes : processes[r] \in Process
  BY Zenon, <1>1, RowsOf DEF Core, State
<1>3. c \in Nat
  <2>1. IsFiniteSet(1 .. Len(threads))
    BY <1>2, FS_Interval
  <2>2. IsFiniteSet(Orphans)
    BY Zenon, <2>1, <1>2, FS_Subset DEF Orphans
  <2> QED BY <2>2, FS_CardinalityType
<1>4. PICK order \in [1 .. c -> Orphans] :
        /\ \A k, l \in DOMAIN order : k < l => order[k] < order[l]
        /\ \A i \in Orphans : \E k \in DOMAIN order : order[k] = i
        /\ processes' = processes \o
                [k \in DOMAIN order |-> [pid |-> threads[order[k]].tid,
                                         cmdLine |-> threads[order[k]].name]]
        /\ threads' = [i \in DOMAIN threads |->
                IF i \in Orphans
                THEN [threads[i] EXCEPT !.ipid = n +
                        (CHOOSE k \in DOMAIN order : order[k] = i)]
                ELSE threads[i]]
  BY Zenon DEF Finish
<1> DEFINE new == [k \in 1 .. c |-> [pid |-> threads[order[k]].tid,
                                     cmdLine |-> threads[order[k]].name]]
           K(i) == CHOOSE k \in DOMAIN order : order[k] = i
<1>5. Orphans \subseteq DOMAIN threads /\ DOMAIN order = 1 .. c
  BY <1>4 DEF Orphans
<1> HIDE DEF c, n
<1>6. \A k \in 1 .. c : order[k] \in Orphans /\ new[k] \in Process
                        /\ new[k].pid = threads[order[k]].tid
  <2> SUFFICES ASSUME NEW k \in 1 .. c
               PROVE  order[k] \in Orphans /\ new[k] \in Process
                      /\ new[k].pid = threads[order[k]].tid
    OBVIOUS
  <2>1. order[k] \in Orphans
    BY <1>4
  <2>2. threads[order[k]] \in Thread
    BY Zenon, <2>1, <1>2, <1>5
  <2> QED BY <2>1, <2>2 DEF Thread, Process
<1>7. new \in Seq(Process) /\ Len(new) = c /\ processes' = processes \o new
  <2>1. new \in [1 .. c -> Process]
    BY <1>6
  <2>2. processes' = processes \o new
    BY Zenon, <1>4, <1>5
  <2> QED BY <2>1, <2>2, <1>3
<1> HIDE DEF new
<1>8. /\ processes' \in Seq(Process) /\ DOMAIN processes' = 1 .. (n + c)
      /\ \A r \in 1 .. n : processes'[r] = processes[r]
      /\ \A k \in 1 .. c : processes'[n + k] = new[k]
  <2>1. /\ processes \o new \in Seq(Process)
        /\ DOMAIN (processes \o new) = 1 .. (Len(processes) + Len(new))
        /\ \A r \in 1 .. Len(processes) : (processes \o new)[r] = processes[r]
        /\ \A k \in 1 .. Len(new) : (processes \o new)[Len(processes) + k] = new[k]
    BY <1>2, <1>7, Concatenation
  <2> QED BY Zenon, <2>1, <1>7 DEF n
<1>9. \A i \in Orphans : K(i) \in 1 .. c /\ order[K(i)] = i
  BY <1>4, <1>5
<1>10. \A i \in DOMAIN threads :
         threads'[i] = IF i \in Orphans THEN [threads[i] EXCEPT !.ipid = n + K(i)]
                       ELSE threads[i]
  BY <1>4
<1>11. DOMAIN threads' = DOMAIN threads
  BY <1>4
<1> HIDE DEF K
<1>12. \A i \in Orphans : /\ threads'[i].ipid = n + K(i)
                          /\ threads'[i].tid = threads[i].tid
                          /\ threads'[i] \in Thread
  <2> SUFFICES ASSUME NEW i \in Orphans
               PROVE  /\ threads'[i].ipid = n + K(i)
                      /\ threads'[i].tid = threads[i].tid
                      /\ threads'[i] \in Thread
    OBVIOUS
  <2>1. threads[i] \in Thread /\ threads'[i] = [threads[i] EXCEPT !.ipid = n + K(i)]
    BY Zenon, <1>2, <1>5, <1>10
  <2>2. n + K(i) \in Nat
    BY <1>2, <1>3, <1>9
  <2> QED BY Zenon, <2>1, <2>2 DEF Thread
<1>13. threads' \in Seq(Thread)
  <2>1. \A i \in DOMAIN threads : threads'[i] \in Thread
    BY Zenon, <1>2, <1>10, <1>12
  <2>2. threads' = [i \in 1 .. Len(threads) |-> threads'[i]]
    BY <1>2, <1>4
  <2>3. threads' \in [1 .. Len(threads) -> Thread]
    BY <2>1, <2>2, <1>2
  <2> QED BY <2>3, <1>2
<1>14. \A i \in DOMAIN threads : /\ threads'[i].tid = threads[i].tid
                                 /\ i \notin Orphans => threads'[i] = threads[i]
  BY Zenon, <1>10, <1>12
<1>15. ASSUME NEW i \in Orphans
       PROVE  /\ threads'[i].ipid \in DOMAIN processes'
              /\ threads'[i].ipid \notin DOMAIN processes
              /\ processes'[threads'[i].ipid].pid = threads[i].tid
  <2>1. threads'[i].ipid = n + K(i) /\ K(i) \in 1 .. c /\ order[K(i)] = i
    BY <1>9, <1>12
  <2>2. n + K(i) \in 1 .. (n + c) /\ n + K(i) \notin 1 .. n
    BY <2>1, <1>2, <1>3
  <2>3. processes'[n + K(i)].pid = threads[i].tid
    BY Zenon, <2>1, <1>6, <1>8
  <2> QED BY <2>1, <2>2, <2>3, <1>2, <1>8
<1>16. ASSUME NEW r \in DOMAIN processes', r \notin DOMAIN processes
       PROVE  \E i \in Orphans : threads'[i].ipid = r /\ processes'[r].pid = threads[i].tid
  <2>1. r - n \in 1 .. c /\ r = n + (r - n)
    BY <1>2, <1>3, <1>8, <1>16
  <2>2. order[r - n] \in Orphans
    BY <2>1, <1>6
  <2>3. K(order[r - n]) = r - n
    <3> DEFINE k == r - n
               l == K(order[k])
    <3>1. k \in 1 .. c /\ l \in 1 .. c /\ order[l] = order[k]
      BY Zenon, <2>1, <2>2, <1>9
    <3>2. order[k] \in Nat
      BY <2>2, <1>2, <1>5
    <3> HIDE DEF k, l
    <3>3. ~(k < l) /\ ~(l < k)
      <4>1. \A a, b \in 1 .. c : a < b => order[a] < order[b]
        BY Zenon, <1>4, <1>5
      <4>2. ~(order[k] < order[k])
        BY <3>2
      <4> QED BY Zenon, <4>1, <4>2, <3>1
    <3>4. k = l
      BY <3>1, <3>3, <1>3
    <3> QED BY <3>4 DEF k, l
  <2>4. threads'[order[r - n]].ipid = r
    BY Zenon, <2>1, <2>2, <2>3, <1>12
  <2>5. processes'[r].pid = threads[order[r - n]].tid
    BY Zenon, <2>1, <1>6, <1>8
  <2> QED BY Zenon, <2>2, <2>4, <2>5
<1>17. \A r \in DOMAIN processes :
         r \in DOMAIN processes' /\ processes'[r] = processes[r]
  BY <1>2, <1>3, <1>8
<1> QED BY Zenon, <1>8, <1>11, <1>13, <1>14, <1>15, <1>16, <1>17

\* The tables are complete after CpuFilter::Finish: a thread that was unowned
\* was alone with its tid, so its new process has no other thread of that tid.
LEMMA FinishStep ==
    ASSUME IInv, Finish
    PROVE  IInv' /\ Keeps(Tables, Tables')
<1> DEFINE s == Tables
           t == Tables'
<1>1. /\ Good(s) /\ Core(s) /\ OneRow(s) /\ Alone(s, {}) /\ Mains(s, {})
  BY DEF IInv, Good, Partly
<1>2. /\ s.th = threads /\ s.pr = processes
      /\ s.tids = tidMappingSet_ /\ s.pids = pidToInternalPidMap_
      /\ t.th = threads' /\ t.pr = processes' /\ t.tids = s.tids /\ t.pids = s.pids
  BY Zenon DEF Tables, Finish
<1>3. /\ t.th \in Seq(Thread) /\ t.pr \in Seq(Process)
      /\ DOMAIN t.th = DOMAIN s.th
      /\ \A i \in DOMAIN s.th :
            t.th[i].tid = s.th[i].tid /\ (i \notin Orphans => t.th[i] = s.th[i])
      /\ \A r \in DOMAIN s.pr : r \in DOMAIN t.pr /\ t.pr[r] = s.pr[r]
      /\ \A i \in Orphans : /\ t.th[i].ipid \in DOMAIN t.pr
                            /\ t.pr[t.th[i].ipid].pid = s.th[i].tid
  BY Zenon, <1>1, <1>2, FinishRows
<1>4. Orphans = {i \in DOMAIN s.th : s.th[i].ipid = NoRow}
  BY Zenon, <1>2 DEF Orphans
<1>5. /\ DOMAIN t.pr = 1 .. Len(t.pr) /\ Len(t.pr) \in Nat
      /\ DOMAIN s.pr = 1 .. Len(s.pr) /\ Len(s.pr) \in Nat
  <2>1. \A q \in Seq(Process) : DOMAIN q = 1 .. Len(q) /\ Len(q) \in Nat
    OBVIOUS
  <2>2. s.pr \in Seq(Process)
    BY Zenon, <1>1 DEF Core, State
  <2> QED BY Zenon, <2>1, <2>2, <1>3
<1>6. t \in State
  <2>1. t = [th |-> t.th, pr |-> t.pr, tids |-> t.tids, pids |-> t.pids]
    BY DEF Tables
  <2>2. s.tids \in SUBSET (Ids \X Nat) /\ s.pids \in SUBSET (Ids \X Nat)
    BY <1>1 DEF Core, State
  <2> QED BY <2>1, <2>2, <1>2, <1>3 DEF State
<1> HIDE DEF s, t
<1>7. \A i \in DOMAIN s.th : t.th[i].ipid \in DOMAIN t.pr
  <2> SUFFICES ASSUME NEW i \in DOMAIN s.th PROVE t.th[i].ipid \in DOMAIN t.pr
    BY Zenon
  <2>1. CASE i \in Orphans
    BY Zenon, <2>1, <1>3
  <2>2. CASE i \notin Orphans
    <3>1. s.th[i].ipid \in 0 .. Len(s.pr) /\ s.th[i].ipid # NoRow
      BY Zenon, <2>2, <1>1, <1>4 DEF Core
    <3>2. s.th[i].ipid \in DOMAIN s.pr
      BY <3>1, <1>5 DEF NoRow
    <3> QED BY Zenon, <3>2, <2>2, <1>3
  <2> QED BY <2>1, <2>2
<1>8. Core(t)
  <2>1. \A i \in DOMAIN t.th : t.th[i].ipid \in 0 .. Len(t.pr)
    BY <1>3, <1>5, <1>7
  <2>2. t.tids = {<<t.th[i].tid, i>> : i \in DOMAIN t.th}
    <3>1. s.tids = {<<s.th[i].tid, i>> : i \in DOMAIN s.th}
      BY Zenon, <1>1 DEF Core
    <3> QED BY <3>1, <1>2, <1>3
  <2>3. \A p \in t.pids : p[2] \in 1 .. Len(t.pr) /\ t.pr[p[2]].pid = p[1]
    BY <1>1, <1>2, <1>3, <1>5 DEF Core
  <2>4. \A p, q \in t.pids : p[1] = q[1] => p = q
    BY <1>1, <1>2 DEF Core
  <2> QED BY Zenon, <1>6, <2>1, <2>2, <2>3, <2>4 DEF Core
<1>9. \A i \in DOMAIN s.th : t.th[i].ipid # NoRow
  BY <1>5, <1>7 DEF NoRow
<1>10. \A i \in DOMAIN s.th : i \notin Orphans => \A pid \in Ids :
         Belongs(t, i, pid) <=> Belongs(s, i, pid)
  <2> SUFFICES ASSUME NEW i \in DOMAIN s.th, i \notin Orphans, NEW pid \in Ids
               PROVE  Belongs(t, i, pid) <=> Belongs(s, i, pid)
    BY Zenon
  <2>1. s.th[i].ipid \in 0 .. Len(s.pr) /\ s.th[i].ipid # NoRow
    BY Zenon, <1>1, <1>4 DEF Core
  <2>2. s.th[i].ipid \in DOMAIN s.pr
    BY <2>1, <1>5 DEF NoRow
  <2> QED BY <2>2, <1>3 DEF Belongs
<1>11. OneRow(t)
  <2> SUFFICES ASSUME NEW i \in DOMAIN t.th, NEW j \in DOMAIN t.th, NEW pid \in Ids,
                      t.th[i].tid = t.th[j].tid, Belongs(t, i, pid), Belongs(t, j, pid)
               PROVE  i = j
    BY Zenon DEF OneRow
  <2>1. i \in DOMAIN s.th /\ j \in DOMAIN s.th /\ s.th[i].tid = s.th[j].tid
    BY Zenon, <1>3
  <2>2. CASE i \in Orphans \/ j \in Orphans
    BY Zenon, <2>1, <2>2, <1>1, <1>4 DEF Alone
  <2>3. CASE i \notin Orphans /\ j \notin Orphans
    BY Zenon, <2>1, <2>3, <1>1, <1>10 DEF OneRow
  <2> QED BY Zenon, <2>2, <2>3
<1>12. Single(t) /\ Alone(t, {})
  BY Zenon, <1>3, <1>9 DEF Single, Alone
<1>13. Mains(t, {})
  <2> SUFFICES ASSUME NEW p \in t.pids
               PROVE  \E i \in DOMAIN t.th : t.th[i].tid = p[1] /\ Belongs(t, i, p[1])
    BY Zenon DEF Mains
  <2>1. PICK i \in DOMAIN s.th : s.th[i].tid = p[1] /\ Belongs(s, i, p[1])
    BY Zenon, <1>1, <1>2 DEF Mains
  <2>2. p[1] \in Ids
    BY <1>1, <1>2 DEF Core, State
  <2>3. i \notin Orphans
    BY Zenon, <2>1, <1>4 DEF Belongs
  <2>4. Belongs(t, i, p[1])
    BY Zenon, <2>1, <2>2, <2>3, <1>10
  <2> QED BY Zenon, <2>1, <2>4, <1>3
<1>14. Good(t)
  BY Zenon, <1>8, <1>11, <1>12, <1>13 DEF Good, Partly
<1>15. Keeps(s, t)
  BY Zenon, <1>2, <1>3, <1>4 DEF Keeps
<1>16. /\ PidsUnique' /\ finished' \in BOOLEAN /\ ret' \in Result /\ ReturnsWhatWasAsked'
  BY Zenon DEF Finish, PidsUnique, Result, ReturnsWhatWasAsked
<1> QED BY Zenon, <1>14, <1>15, <1>16 DEF IInv, s, t

-----------------------------------------------------------------------------
\* Every step preserves the inductive invariant and the meaning of the rows.
LEMMA StepIInv ==
    ASSUME IInv, [Next]_vars
    PROVE  IInv' /\ Keeps(Tables, Tables')
<1>1. CASE UNCHANGED vars
  <2>1. Tables' = Tables /\ UNCHANGED <<threads, processes, pidToInternalPidMap_, finished, ret>>
    BY <1>1 DEF vars, tables, Tables
  <2>2. Keeps(Tables, Tables)
    BY Zenon DEF Keeps
  <2>3. Good(Tables') /\ PidsUnique' /\ ReturnsWhatWasAsked'
    BY <2>1 DEF IInv, PidsUnique, ReturnsWhatWasAsked
  <2> QED BY Zenon, <2>1, <2>2, <2>3 DEF IInv
<1>2. ASSUME NEW tid \in Ids, NEW name \in Names,
             UpdateOrCreateThreadWithNameIndex(tid, name)
      PROVE  IInv' /\ Keeps(Tables, Tables')
  BY <1>2, ThreadStep
<1>3. ASSUME NEW tid \in Ids, NEW pid \in Ids, GetOrCreateThreadWithPid(tid, pid)
      PROVE  IInv' /\ Keeps(Tables, Tables')
  BY <1>3, ThreadWithPidStep
<1>4. ASSUME NEW tid \in Ids, NEW pid \in Ids, NEW name \in Names,
             UpdateOrCreateThreadWithPidAndName(tid, pid, name)
      PROVE  IInv' /\ Keeps(Tables, Tables')
  BY <1>4, ThreadWithPidAndNameStep
<1>5. ASSUME NEW pid \in Ids, NEW name \in Names, UpdateOrCreateProcessWithName(pid, name)
      PROVE  IInv' /\ Keeps(Tables, Tables')
  BY <1>5, ProcessWithNameStep
<1>6. ASSUME NEW pid \in Ids, GetOrCreateInternalPid(pid)
      PROVE  IInv' /\ Keeps(Tables, Tables')
  BY <1>6, InternalPidStep
<1>7. CASE Finish
  BY <1>7, FinishStep
<1> QED BY Zenon, <1>1, <1>2, <1>3, <1>4, <1>5, <1>6, <1>7 DEF Next

\* The inductive invariant holds in every state.
THEOREM Invariance == Spec => []IInv
<1>1. Init => IInv
  BY InitIInv
<1>2. IInv /\ [Next]_vars => IInv'
  BY StepIInv
<1> QED BY <1>1, <1>2, PTL DEF Spec

\* The tables are well formed and refer only to rows that exist.
THEOREM TypeCorrect == Spec => []TypeOK
<1>1. IInv => TypeOK
  BY IInvImplies
<1> QED BY <1>1, Invariance, PTL

\* The indexes agree with the tables and the map knows every process row
\* until CpuFilter::Finish.
THEOREM IndexesCorrect == Spec => [](IndexesAgree /\ PidsUnique)
<1>1. IInv => IndexesAgree /\ PidsUnique
  BY IInvImplies
<1> QED BY <1>1, Invariance, PTL

\* A thread of a process has one row, and an unowned thread is alone with its
\* tid, whatever order the events of the trace come in.
THEOREM ThreadsUnique == Spec => [](OneRowPerThread /\ UnownedAlone)
<1>1. IInv => OneRowPerThread /\ UnownedAlone
  BY IInvImplies
<1> QED BY <1>1, Invariance, PTL

\* Every process of the map has a main thread.
THEOREM MainThreads == Spec => []MainThreadExists
<1>1. IInv => MainThreadExists
  BY IInvImplies
<1> QED BY <1>1, Invariance, PTL

\* The operations return rows for what they were asked.
THEOREM ReturnsRight == Spec => []ReturnsWhatWasAsked
<1>1. IInv => ReturnsWhatWasAsked
  BY IInvImplies
<1> QED BY <1>1, Invariance, PTL

\* No step loses a row or gives it another meaning.
THEOREM RowsKept == Spec => RowsKeepTheirMeaning
<1> DEFINE A == /\ \A i \in DOMAIN threads :
                    /\ i \in DOMAIN threads'
                    /\ threads'[i].tid = threads[i].tid
                    /\ threads[i].ipid # NoRow => threads'[i].ipid = threads[i].ipid
                /\ \A r \in DOMAIN processes :
                    /\ r \in DOMAIN processes'
                    /\ processes'[r].pid = processes[r].pid
<1>1. IInv /\ [Next]_vars => A
  <2> SUFFICES ASSUME IInv, [Next]_vars PROVE A
    OBVIOUS
  <2>1. Keeps(Tables, Tables')
    BY Zenon, StepIInv
  <2>2. /\ Tables.th = threads /\ Tables.pr = processes
        /\ Tables'.th = threads' /\ Tables'.pr = processes'
    BY Zenon DEF Tables
  <2> QED BY Zenon, <2>1, <2>2 DEF Keeps
<1>2. IInv /\ [Next]_vars => [A]_vars
  BY <1>1
<1> QED BY <1>2, Invariance, PTL DEF Spec, RowsKeepTheirMeaning

\* A pair (tid, pid) that resolves to a thread of the process resolves to the
\* same row after any step.
THEOREM LookupsStable == Spec => LookupIsStable
<1> DEFINE A == \A tid \in Ids, pid \in Ids :
                    OwnedBy(Tables, tid, pid) # {} =>
                        GetInternalTid(Tables, tid, pid)' = GetInternalTid(Tables, tid, pid)
<1>1. IInv /\ [Next]_vars => A
  <2> SUFFICES ASSUME IInv, [Next]_vars, NEW tid \in Ids, NEW pid \in Ids,
                      OwnedBy(Tables, tid, pid) # {}
               PROVE  GetInternalTid(Tables', tid, pid) = GetInternalTid(Tables, tid, pid)
    OBVIOUS
  <2>1. IInv' /\ Keeps(Tables, Tables')
    BY Zenon, StepIInv
  <2> DEFINE s == Tables
             t == Tables'
             i == GetInternalTid(s, tid, pid)
             j == GetInternalTid(t, tid, pid)
  <2>2. /\ Core(s) /\ OneRow(s) /\ Single(s) /\ Core(t) /\ OneRow(t) /\ Single(t)
    BY Zenon, <2>1 DEF IInv, Good, Partly
  <2>3. \E k \in DOMAIN s.th : s.th[k].tid = tid /\ Belongs(s, k, pid)
    BY <2>2, TidsOf DEF OwnedBy, Belongs
  <2>4. i \in DOMAIN s.th /\ s.th[i].tid = tid /\ Belongs(s, i, pid)
    BY Zenon, <2>2, <2>3, LookupWithPid
  <2> HIDE DEF s, t, i
  <2>5. i \in DOMAIN t.th /\ t.th[i].tid = tid /\ t.th[i].ipid = s.th[i].ipid
    BY Zenon, <2>1, <2>4 DEF Keeps, Belongs, s, t
  <2>6. s.th[i].ipid \in DOMAIN s.pr
    <3>1. s.th[i].ipid \in 0 .. Len(s.pr) /\ s.th[i].ipid # NoRow
      BY Zenon, <2>2, <2>4 DEF Core, Belongs
    <3> QED BY <3>1, <2>2, RowsOf DEF NoRow
  <2>7. Belongs(t, i, pid)
    BY Zenon, <2>1, <2>4, <2>5, <2>6 DEF Keeps, Belongs, s, t
  <2>8. j \in DOMAIN t.th /\ t.th[j].tid = tid /\ Belongs(t, j, pid)
    BY Zenon, <2>2, <2>5, <2>7, LookupWithPid
  <2>9. j = i
    BY <2>2, <2>5, <2>7, <2>8 DEF OneRow
  <2> QED BY <2>9 DEF s, t, i
<1>2. IInv /\ [Next]_vars => [A]_vars
  BY <1>1
<1> QED BY <1>2, Invariance, PTL DEF Spec, LookupIsStable

\* The processes that CpuFilter::Finish makes are new ones.
THEOREM FinishMakesNew == Spec => FinishMakesNewPids
<1> DEFINE A == finished' # finished =>
                    /\ \A i \in DOMAIN threads' : threads'[i].ipid # NoRow
                    /\ \A q, r \in DOMAIN processes' :
                            processes'[q].pid = processes'[r].pid => q = r
<1>1. IInv /\ [Next]_vars => A
  <2> SUFFICES ASSUME IInv, [Next]_vars, finished' # finished
               PROVE  /\ \A i \in DOMAIN threads' : threads'[i].ipid # NoRow
                      /\ \A q, r \in DOMAIN processes' :
                            processes'[q].pid = processes'[r].pid => q = r
    OBVIOUS
  <2>1. Finish
    BY Zenon DEF Next, vars, UpdateOrCreateThreadWithNameIndex, GetOrCreateThreadWithPid,
           UpdateOrCreateThreadWithPidAndName, UpdateOrCreateProcessWithName,
           GetOrCreateInternalPid
  <2>2. ~finished
    BY <2>1 DEF Finish
  <2>3. /\ Good(Tables) /\ Core(Tables) /\ Alone(Tables, {}) /\ Mains(Tables, {})
        /\ Tables.th = threads /\ Tables.pr = processes /\ Tables.pids = pidToInternalPidMap_
    BY DEF IInv, Good, Partly, Tables
  <2>4. DOMAIN processes' \subseteq Nat \ {0}
    <3>1. processes' \in Seq(Process)
      BY Zenon, <2>1, <2>3, FinishRows
    <3> QED BY <3>1
  <2>5. \A i \in DOMAIN threads' : threads'[i].ipid # NoRow
    BY <2>1, <2>3, <2>4, FinishRows DEF Orphans, NoRow
  <2>6. ASSUME NEW q \in DOMAIN processes, NEW r \in DOMAIN processes,
               processes[q].pid = processes[r].pid
        PROVE  q = r
    <3>1. <<processes[q].pid, q>> \in Tables.pids /\ <<processes[r].pid, r>> \in Tables.pids
      BY <2>2, <2>3 DEF IInv, PidsUnique
    <3>2. <<processes[q].pid, q>> = <<processes[r].pid, r>>
      BY Zenon, <3>1, <2>3, <2>6 DEF Core
    <3> QED BY <3>2
  <2>7. ASSUME NEW q \in DOMAIN processes, NEW i \in Orphans
        PROVE  processes[q].pid # threads[i].tid
    <3> SUFFICES ASSUME processes[q].pid = threads[i].tid PROVE FALSE
      BY Zenon
    <3> DEFINE p == <<processes[q].pid, q>>
    <3>1. p \in Tables.pids /\ p[1] = threads[i].tid
      BY Zenon, <2>2, <2>3 DEF IInv, PidsUnique
    <3>2. \E k \in DOMAIN threads : threads[k].tid = threads[i].tid /\ threads[k].ipid # NoRow
      BY Zenon, <3>1, <2>3 DEF Mains, Belongs
    <3> QED BY Zenon, <3>2, <2>3 DEF Alone, Orphans
  <2>8. ASSUME NEW i \in Orphans, NEW j \in Orphans, threads[i].tid = threads[j].tid
        PROVE  i = j
    BY Zenon, <2>3, <2>8 DEF Alone, Orphans
  <2>9. ASSUME NEW q \in DOMAIN processes', NEW r \in DOMAIN processes',
               processes'[q].pid = processes'[r].pid
        PROVE  q = r
    <3>1. \A x \in DOMAIN processes : processes'[x] = processes[x]
      BY Zenon, <2>1, <2>3, FinishRows
    <3>2. \A x \in DOMAIN processes' : x \notin DOMAIN processes =>
            \E i \in Orphans : threads'[i].ipid = x /\ processes'[x].pid = threads[i].tid
      BY Zenon, <2>1, <2>3, FinishRows
    <3>3. CASE q \in DOMAIN processes /\ r \in DOMAIN processes
      BY Zenon, <3>1, <3>3, <2>6, <2>9
    <3>4. CASE q \in DOMAIN processes /\ r \notin DOMAIN processes
      BY <3>1, <3>2, <3>4, <2>7, <2>9
    <3>5. CASE q \notin DOMAIN processes /\ r \in DOMAIN processes
      BY <3>1, <3>2, <3>5, <2>7, <2>9
    <3>6. CASE q \notin DOMAIN processes /\ r \notin DOMAIN processes
      BY <3>2, <3>6, <2>8, <2>9
    <3> QED BY Zenon, <3>3, <3>4, <3>5, <3>6
  <2> QED BY Zenon, <2>5, <2>9
<1>2. IInv /\ [Next]_vars => [A]_vars
  BY <1>1
<1> QED BY <1>2, Invariance, PTL DEF Spec, FinishMakesNewPids
=============================================================================
