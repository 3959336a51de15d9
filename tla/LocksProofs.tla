----------------------------- MODULE LocksProofs -----------------------------
(***************************************************************************)
(* The locks for any number of CPUs and threads: every call gives back     *)
(* what it took, and a CPU that spins with interrupts off waits for one    *)
(* that runs.                                                              *)
(***************************************************************************)
EXTENDS Locks, TLAPS

(* The provers, in the order in which they are tried. *)
USE ZenonT(5), SMT

(* Doing nothing. *)
LEMMA GoesNowhere ==
  ASSUME NEW locks, NEW s \in Mode, s.off > 0 \/ s.has \subseteq {Section}
  PROVE  Goes(<<>>, locks, s, s)
<1> DEFINE f == [i \in 0 .. 0 |-> s]
           p == << >>
<1>1. Len(p) = 0 /\ f \in [0 .. 0 -> Mode] /\ \A i \in 0 .. 0 : f[i] = s
  OBVIOUS
<1> HIDE DEF f, p
<1>2. \A i \in 1 .. 0 : Does(p[i], locks, f[i - 1], f[i])
  BY SMT
<1>3. Goes(p, locks, s, s)
  BY SMT, <1>1, <1>2 DEF Goes
<1> QED
  BY <1>3 DEF p

(* One operation. *)
LEMMA GoesOne ==
  ASSUME NEW locks, NEW op, NEW s \in Mode, NEW t \in Mode, Does(op, locks, s, t),
         s.off > 0 \/ s.has \subseteq {Section}, t.off > 0 \/ t.has \subseteq {Section}
  PROVE  Goes(<<op>>, locks, s, t)
<1> DEFINE f == [i \in 0 .. 1 |-> IF i = 0 THEN s ELSE t]
           p == <<op>>
<1>1. Len(p) = 1 /\ p[1] = op
  OBVIOUS
<1>2. f \in [0 .. 1 -> Mode] /\ f[0] = s /\ f[1] = t
  BY SMT
<1> HIDE DEF f, p
<1>3. \A i \in 1 .. Len(p) : Does(p[i], locks, f[i - 1], f[i])
  <2> SUFFICES ASSUME NEW i \in 1 .. Len(p) PROVE Does(p[i], locks, f[i - 1], f[i])
    OBVIOUS
  <2>1. i = 1 /\ i - 1 = 0
    BY SMT, <1>1
  <2> QED
    BY <2>1, <1>1, <1>2
<1>4. \A i \in 0 .. Len(p) : f[i].off > 0 \/ f[i].has \subseteq {Section}
  <2> SUFFICES ASSUME NEW i \in 0 .. Len(p) PROVE f[i].off > 0 \/ f[i].has \subseteq {Section}
    OBVIOUS
  <2>1. i = 0 \/ i = 1
    BY SMT, <1>1
  <2> QED
    BY <2>1, <1>2
<1>5. Goes(p, locks, s, t)
  BY <1>1, <1>2, <1>3, <1>4 DEF Goes
<1> QED
  BY <1>5 DEF p

(* One program after another. *)
LEMMA GoesOn ==
  ASSUME NEW locks, NEW p \in Seq(Operation), NEW q \in Seq(Operation), NEW s, NEW t, NEW u,
         Goes(p, locks, s, t), Goes(q, locks, t, u)
  PROVE  Goes(p \o q, locks, s, u)
<1>1. PICK f \in [0 .. Len(p) -> Mode] :
        /\ f[0] = s /\ f[Len(p)] = t
        /\ \A i \in 1 .. Len(p) : Does(p[i], locks, f[i - 1], f[i])
        /\ \A i \in 0 .. Len(p) : f[i].off > 0 \/ f[i].has \subseteq {Section}
  BY DEF Goes
<1>2. PICK g \in [0 .. Len(q) -> Mode] :
        /\ g[0] = t /\ g[Len(q)] = u
        /\ \A i \in 1 .. Len(q) : Does(q[i], locks, g[i - 1], g[i])
        /\ \A i \in 0 .. Len(q) : g[i].off > 0 \/ g[i].has \subseteq {Section}
  BY DEF Goes
<1> DEFINE m == Len(p)
           n == Len(q)
           h == [i \in 0 .. m + n |-> IF i <= m THEN f[i] ELSE g[i - m]]
<1>3. m \in Nat /\ n \in Nat /\ Len(p \o q) = m + n
  BY SMT
<1>4. /\ \A i \in 1 .. m : (p \o q)[i] = p[i]
      /\ \A i \in m + 1 .. m + n : (p \o q)[i] = q[i - m]
  BY SMT
<1> HIDE DEF m, n
<1>5. h \in [0 .. m + n -> Mode]
  BY SMT, <1>1, <1>2, <1>3 DEF m, n
<1>6. /\ \A i \in 0 .. m : h[i] = f[i]
      /\ \A i \in m .. m + n : h[i] = g[i - m]
  <2>1. f[m] = g[0]
    BY <1>1, <1>2 DEF m
  <2>2. \A i \in 0 .. m + n : h[i] = IF i <= m THEN f[i] ELSE g[i - m]
    OBVIOUS
  <2> HIDE DEF h
  <2>3. \A i \in 0 .. m : h[i] = f[i]
    BY SMT, <2>2, <1>3
  <2>4. h[m] = g[m - m]
    BY SMT, <2>1, <2>3, <1>3
  <2>5. \A i \in m + 1 .. m + n : h[i] = g[i - m]
    BY SMT, <2>2, <1>3
  <2>6. \A i \in m .. m + n : i = m \/ i \in m + 1 .. m + n
    BY SMT, <1>3
  <2> QED
    BY <2>3, <2>4, <2>5, <2>6
<1> HIDE DEF h
<1>7. h[0] = s /\ h[m + n] = u
  <2>1. 0 \in 0 .. m /\ m + n \in m .. m + n /\ (m + n) - m = n
    BY SMT, <1>3
  <2> QED
    BY <2>1, <1>1, <1>2, <1>6 DEF n
<1>8. \A i \in 1 .. m + n : Does((p \o q)[i], locks, h[i - 1], h[i])
  <2> SUFFICES ASSUME NEW i \in 1 .. m + n PROVE Does((p \o q)[i], locks, h[i - 1], h[i])
    OBVIOUS
  <2>1. CASE i <= m
    <3>1. i \in 1 .. m /\ i - 1 \in 0 .. m /\ i \in 0 .. m
      BY SMT, <2>1, <1>3
    <3> QED
      BY <3>1, <1>1, <1>4, <1>6 DEF m
  <2>2. CASE ~ (i <= m)
    <3>1. /\ i \in m + 1 .. m + n /\ i - 1 \in m .. m + n /\ i \in m .. m + n
          /\ i - m \in 1 .. n /\ (i - 1) - m = (i - m) - 1
      BY SMT, <2>2, <1>3
    <3>2. Does(q[i - m], locks, g[(i - m) - 1], g[i - m])
      BY <3>1, <1>2 DEF n
    <3>3. h[i - 1] = g[(i - m) - 1] /\ h[i] = g[i - m] /\ (p \o q)[i] = q[i - m]
      BY <3>1, <1>4, <1>6
    <3> QED
      BY <3>2, <3>3
  <2> QED
    BY <2>1, <2>2
<1>9. \A i \in 0 .. m + n : h[i].off > 0 \/ h[i].has \subseteq {Section}
  <2> SUFFICES ASSUME NEW i \in 0 .. m + n PROVE h[i].off > 0 \/ h[i].has \subseteq {Section}
    OBVIOUS
  <2>1. i \in 0 .. m \/ (i \in m .. m + n /\ i - m \in 0 .. n)
    BY SMT, <1>3
  <2> QED
    BY <2>1, <1>1, <1>2, <1>6 DEF m, n
<1> QED
  BY <1>3, <1>5, <1>7, <1>8, <1>9 DEF Goes

(* What is left after the first operation. *)
LEMMA GoesTail ==
  ASSUME NEW locks, NEW p \in Seq(Operation), NEW s, NEW t, Goes(p, locks, s, t), p # <<>>
  PROVE  \E u \in Mode : /\ Does(Head(p), locks, s, u) /\ Goes(Tail(p), locks, u, t)
                         /\ s \in Mode
<1>1. PICK f \in [0 .. Len(p) -> Mode] :
        /\ f[0] = s /\ f[Len(p)] = t
        /\ \A i \in 1 .. Len(p) : Does(p[i], locks, f[i - 1], f[i])
        /\ \A i \in 0 .. Len(p) : f[i].off > 0 \/ f[i].has \subseteq {Section}
  BY DEF Goes
<1> DEFINE n == Len(p) - 1
           q == Tail(p)
           g == [i \in 0 .. n |-> f[i + 1]]
<1>2. n \in Nat /\ Len(p) = n + 1 /\ Len(q) = n /\ Head(p) = p[1] /\ q \in Seq(Operation)
      /\ \A i \in 1 .. n : q[i] = p[i + 1]
  BY SMT
<1> HIDE DEF n, q
<1>3. Does(Head(p), locks, s, f[1]) /\ f[1] \in Mode /\ s \in Mode
  <2>1. 1 \in 1 .. Len(p) /\ 1 \in 0 .. Len(p) /\ 0 \in 0 .. Len(p) /\ 1 - 1 = 0
    BY SMT, <1>2
  <2> QED
    BY <2>1, <1>1, <1>2
<1>4. g \in [0 .. n -> Mode] /\ g[0] = f[1] /\ g[n] = t /\ \A i \in 0 .. n : g[i] = f[i + 1]
  BY SMT, <1>1, <1>2
<1> HIDE DEF g
<1>5. \A i \in 1 .. n : Does(q[i], locks, g[i - 1], g[i])
  <2> SUFFICES ASSUME NEW i \in 1 .. n PROVE Does(q[i], locks, g[i - 1], g[i])
    OBVIOUS
  <2>1. /\ i + 1 \in 1 .. Len(p) /\ i - 1 \in 0 .. n /\ i \in 0 .. n
        /\ (i - 1) + 1 = (i + 1) - 1
    BY SMT, <1>2
  <2>2. g[i - 1] = f[(i + 1) - 1] /\ g[i] = f[i + 1] /\ q[i] = p[i + 1]
    BY <2>1, <1>2, <1>4
  <2> QED
    BY <2>1, <2>2, <1>1
<1>6. \A i \in 0 .. n : g[i].off > 0 \/ g[i].has \subseteq {Section}
  <2> SUFFICES ASSUME NEW i \in 0 .. n PROVE g[i].off > 0 \/ g[i].has \subseteq {Section}
    OBVIOUS
  <2>1. i + 1 \in 0 .. Len(p)
    BY SMT, <1>2
  <2> QED
    BY <2>1, <1>1, <1>4
<1>7. Goes(q, locks, f[1], t)
  BY <1>2, <1>4, <1>5, <1>6 DEF Goes
<1> QED
  BY <1>3, <1>7 DEF q

(* Something before and something after. *)
LEMMA GoesAround ==
  ASSUME NEW locks, NEW a \in Operation, NEW b \in Operation, NEW inner \in Seq(Operation),
         NEW s \in Mode, NEW t \in Mode,
         s.off > 0 \/ s.has \subseteq {Section}, t.off > 0 \/ t.has \subseteq {Section},
         Does(a, locks, s, t), Does(b, locks, t, s), Goes(inner, locks, t, t)
  PROVE  /\ <<a>> \o inner \o <<b>> \in Seq(Operation)
         /\ Goes(<<a>> \o inner \o <<b>>, locks, s, s)
<1> DEFINE p == <<a>>
           q == <<b>>
<1>1. Goes(p, locks, s, t) /\ Goes(q, locks, t, s)
  BY GoesOne
<1>2. p \in Seq(Operation) /\ q \in Seq(Operation)
  BY SMT
<1> HIDE DEF p, q
<1>3. p \o inner \in Seq(Operation)
  BY SMT, <1>2
<1>4. Goes(p \o inner, locks, s, t)
  BY <1>1, <1>2, GoesOn
<1>5. p \o inner \o q \in Seq(Operation)
  BY SMT, <1>2, <1>3
<1>6. Goes(p \o inner \o q, locks, s, s)
  BY <1>1, <1>2, <1>3, <1>4, GoesOn
<1> QED
  BY <1>5, <1>6 DEF p, q

(* spin_lock ... spin_unlock around a program (lib.c:3-13). *)
LEMMA GoesHeld ==
  ASSUME NEW locks \in SUBSET Lock, NEW l \in locks, NEW inner \in Seq(Operation), NEW s \in Mode,
         s.off > 0 \/ s = Idle, MayLock(l, s),
         Goes(inner, locks, [off |-> s.off, has |-> s.has \cup {l}],
                            [off |-> s.off, has |-> s.has \cup {l}])
  PROVE  Held(l, inner) \in Seq(Operation) /\ Goes(Held(l, inner), locks, s, s)
<1> DEFINE t == [off |-> s.off, has |-> s.has \cup {l}]
           a == <<"lock", l>>
           b == <<"unlock", l>>
<1>1. t \in Mode /\ t.off = s.off /\ t.has = s.has \cup {l} /\ s.off \in 0 .. 3 /\ s.has \subseteq Lock
  BY DEF Mode
<1>2. a \in Operation /\ b \in Operation /\ a[1] = "lock" /\ a[2] = l /\ b[1] = "unlock" /\ b[2] = l
  BY DEF Operation
<1> HIDE DEF a, b
<1>3. l \notin s.has
  BY SMT DEF MayLock, Idle, Outer, Inner, SchedLock
<1>4. /\ s.off > 0 \/ s.has \subseteq {Section}
      /\ t.off > 0 \/ t.has \subseteq {Section}
  <2>1. CASE s.off > 0
    BY <2>1, <1>1
  <2>2. CASE s = Idle
    BY <2>2, <1>1 DEF Idle, MayLock
  <2> QED
    BY <2>1, <2>2
<1> HIDE DEF t
<1>5. Does(a, locks, s, t) /\ Does(b, locks, t, s)
  BY <1>1, <1>2, <1>3 DEF Does
<1>6. Goes(inner, locks, t, t)
  BY DEF t
<1>7. <<a>> \o inner \o <<b>> \in Seq(Operation) /\ Goes(<<a>> \o inner \o <<b>>, locks, s, s)
  BY <1>1, <1>2, <1>4, <1>5, <1>6, GoesAround
<1> QED
  BY <1>7 DEF Held, a, b

(* b_irq_save ... b_irq_restore around a program (lib.c:15-23). *)
LEMMA GoesSaved ==
  ASSUME NEW locks, NEW inner \in Seq(Operation), NEW s \in Mode, s.off < 3,
         s.off > 0 \/ s.has \subseteq {Section},
         Goes(inner, locks, [off |-> s.off + 1, has |-> s.has], [off |-> s.off + 1, has |-> s.has])
  PROVE  /\ Save \o inner \o Restore \in Seq(Operation)
         /\ Goes(Save \o inner \o Restore, locks, s, s)
<1> DEFINE t == [off |-> s.off + 1, has |-> s.has]
           a == <<"save", None>>
           b == <<"restore", None>>
<1>1. t \in Mode /\ t.off = s.off + 1 /\ t.has = s.has /\ s.off \in 0 .. 3 /\ t.off > 0
  BY SMT DEF Mode
<1>2. a \in Operation /\ b \in Operation /\ a[1] = "save" /\ b[1] = "restore"
  BY DEF Operation
<1> HIDE DEF a, b, t
<1>3. Does(a, locks, s, t) /\ Does(b, locks, t, s)
  BY <1>1, <1>2 DEF Does
<1>4. Goes(inner, locks, t, t)
  BY DEF t
<1>5. <<a>> \o inner \o <<b>> \in Seq(Operation) /\ Goes(<<a>> \o inner \o <<b>>, locks, s, s)
  BY <1>1, <1>2, <1>3, <1>4, GoesAround
<1> QED
  BY <1>5 DEF Save, Restore, a, b

(* Where a place in a loop lies. *)
LEMMA LoopPlace ==
  ASSUME NEW k \in {2, 4, 8}, NEW n \in Nat, NEW j \in 1 .. n * k
  PROVE  /\ (j - 1) \div k \in 0 .. n - 1 /\ (j - 1) % k \in 0 .. k - 1
         /\ (j - 1) % k < k - 1 => j \div k = (j - 1) \div k /\ j % k = ((j - 1) % k) + 1
         /\ (j - 1) % k = k - 1 => j % k = 0
<1>1. CASE k = 2
  BY SMT, <1>1
<1>2. CASE k = 4
  BY SMT, <1>2
<1>3. CASE k = 8
  BY SMT, <1>3
<1> QED
  BY <1>1, <1>2, <1>3

(* A loop over CPUs whose rounds each leave the mode as it was. *)
LEMMA GoesLoop ==
  ASSUME NEW k \in {2, 4, 8}, NEW program \in [Cpu -> Seq(Operation)],
         \A i \in Cpu : Len(program[i]) = k,
         NEW locks, NEW s \in Mode, s.off > 0 \/ s.has \subseteq {Section},
         \A i \in Cpu : Goes(program[i], locks, s, s),
         NEW n \in 0 .. NCpu
  PROVE  Loop(n, program) \in Seq(Operation) /\ Goes(Loop(n, program), locks, s, s)
<1> DEFINE N == n * k
           p == Loop(n, program)
           Round(i, f) ==
             /\ f[0] = s /\ f[k] = s
             /\ \A j \in 1 .. k : Does(program[i][j], locks, f[j - 1], f[j])
             /\ \A j \in 0 .. k : f[j].off > 0 \/ f[j].has \subseteq {Section}
           g(i) == CHOOSE f \in [0 .. k -> Mode] : Round(i, f)
           f == [j \in 0 .. N |-> IF j % k = 0 THEN s ELSE g(j \div k)[j % k]]
<1>1. 0 \in Cpu /\ n \in Nat /\ k \in Nat \ {0} /\ N \in Nat /\ 0 .. n - 1 \subseteq Cpu
  <2>1. n \in Nat /\ 0 \in Cpu /\ 0 .. n - 1 \subseteq Cpu
    BY SMT, LocksAssumption DEF Cpu
  <2> QED
    BY SMT, <2>1
<1>2. \A i \in Cpu : g(i) \in [0 .. k -> Mode] /\ Round(i, g(i))
  <2> SUFFICES ASSUME NEW i \in Cpu PROVE g(i) \in [0 .. k -> Mode] /\ Round(i, g(i))
    OBVIOUS
  <2>1. \E h \in [0 .. k -> Mode] : Round(i, h)
    BY DEF Goes
  <2> HIDE DEF Round
  <2> QED
    BY <2>1
<1> HIDE DEF g
<1>3. /\ \A j \in 1 .. N : /\ (j - 1) \div k \in Cpu
                           /\ (j - 1) % k \in 0 .. k - 1
                           /\ (j - 1) % k < k - 1 => /\ j \div k = (j - 1) \div k
                                                     /\ j % k = ((j - 1) % k) + 1
                           /\ (j - 1) % k = k - 1 => j % k = 0
      /\ 0 % k = 0 /\ N % k = 0
  <2>1. 0 % k = 0 /\ N % k = 0
    <3>1. CASE k = 2
      BY SMT, <1>1, <3>1
    <3>2. CASE k = 4
      BY SMT, <1>1, <3>2
    <3>3. CASE k = 8
      BY SMT, <1>1, <3>3
    <3> QED
      BY <3>1, <3>2, <3>3
  <2>2. ASSUME NEW j \in 1 .. N
        PROVE  /\ (j - 1) \div k \in Cpu /\ (j - 1) % k \in 0 .. k - 1
               /\ (j - 1) % k < k - 1 => /\ j \div k = (j - 1) \div k
                                         /\ j % k = ((j - 1) % k) + 1
               /\ (j - 1) % k = k - 1 => j % k = 0
    <3>1. (j - 1) \div k \in 0 .. n - 1
      BY <1>1, LoopPlace
    <3>2. (j - 1) \div k \in Cpu
      BY <3>1, <1>1
    <3> QED
      BY <3>2, <1>1, LoopPlace
  <2> QED
    BY <2>1, <2>2
<1>4. p = [j \in 1 .. N |-> program[(j - 1) \div k][((j - 1) % k) + 1]]
  BY <1>1 DEF Loop
<1> HIDE DEF N
<1>5. p \in Seq(Operation) /\ Len(p) = N
      /\ \A j \in 1 .. N : p[j] = program[(j - 1) \div k][((j - 1) % k) + 1]
  <2> DEFINE At(j) == program[(j - 1) \div k][((j - 1) % k) + 1]
  <2>1. \A j \in 1 .. N : At(j) \in Operation
    <3> SUFFICES ASSUME NEW j \in 1 .. N PROVE At(j) \in Operation
      OBVIOUS
    <3> DEFINE r == (j - 1) \div k
               i == (j - 1) % k
    <3>1. r \in Cpu /\ i \in 0 .. k - 1
      BY <1>3
    <3> HIDE DEF r, i
    <3>2. i + 1 \in 1 .. k
      BY SMT, <3>1, <1>1
    <3>3. program[r][i + 1] \in Operation
      BY SMT, <3>1, <3>2
    <3> QED
      BY <3>3 DEF r, i
  <2>2. p = [j \in 1 .. N |-> At(j)]
    BY <1>4
  <2> HIDE DEF p, At
  <2>3. p \in Seq(Operation) /\ Len(p) = N /\ \A j \in 1 .. N : p[j] = At(j)
    BY SMT, <2>1, <2>2, <1>1
  <2> QED
    BY <2>3 DEF At
<1> HIDE DEF p
<1>6. ASSUME NEW j \in 1 .. N, NEW r, r = (j - 1) \div k, NEW i, i = (j - 1) % k
      PROVE  f[j - 1] = g(r)[i] /\ f[j] = g(r)[i + 1] /\ r \in Cpu /\ i \in 0 .. k - 1
  <2>1. r \in Cpu /\ i \in 0 .. k - 1 /\ g(r)[0] = s /\ g(r)[k] = s
    BY <1>2, <1>3, <1>6
  <2>2. j - 1 \in 0 .. N /\ j \in 0 .. N
    BY SMT, <1>1
  <2>3. f[j - 1] = g(r)[i]
    BY <2>1, <2>2, <1>6
  <2>4. CASE i < k - 1
    <3>1. j \div k = r /\ j % k = i + 1
      BY <2>4, <1>3, <1>6
    <3>2. i + 1 # 0
      BY SMT, <2>1
    <3> QED
      BY <3>1, <3>2, <2>1, <2>2, <2>3
  <2>5. CASE ~ (i < k - 1)
    <3>1. i = k - 1 /\ i + 1 = k
      BY SMT, <2>1, <2>5, <1>1
    <3>2. j % k = 0
      BY <3>1, <1>3, <1>6
    <3> QED
      BY <3>1, <3>2, <2>1, <2>2, <2>3
  <2> QED
    BY <2>4, <2>5
<1>7. f[0] = s /\ f[N] = s
  BY SMT, <1>1, <1>3
<1> HIDE DEF f
<1>8. ASSUME NEW j \in 1 .. N
      PROVE  /\ Does(p[j], locks, f[j - 1], f[j]) /\ f[j] \in Mode
             /\ f[j].off > 0 \/ f[j].has \subseteq {Section}
  <2> DEFINE r == (j - 1) \div k
             i == (j - 1) % k
  <2>1. f[j - 1] = g(r)[i] /\ f[j] = g(r)[i + 1] /\ r \in Cpu /\ i \in 0 .. k - 1
    BY <1>6
  <2>2. p[j] = program[r][i + 1]
    BY <1>5
  <2> HIDE DEF r, i
  <2>3. i + 1 \in 1 .. k /\ i + 1 \in 0 .. k /\ (i + 1) - 1 = i
    BY SMT, <2>1, <1>1
  <2>4. g(r) \in [0 .. k -> Mode] /\ Does(program[r][i + 1], locks, g(r)[i], g(r)[i + 1])
        /\ (g(r)[i + 1].off > 0 \/ g(r)[i + 1].has \subseteq {Section})
    BY <2>1, <2>3, <1>2
  <2> QED
    BY <2>1, <2>2, <2>3, <2>4
<1>9. /\ f \in [0 .. N -> Mode]
      /\ \A j \in 0 .. N : f[j].off > 0 \/ f[j].has \subseteq {Section}
  <2>1. ASSUME NEW j \in 0 .. N
        PROVE  f[j] \in Mode /\ (f[j].off > 0 \/ f[j].has \subseteq {Section})
    <3>1. j = 0 \/ j \in 1 .. N
      BY SMT, <1>1
    <3> QED
      BY <3>1, <1>7, <1>8
  <2>2. f = [j \in 0 .. N |-> f[j]]
    BY DEF f
  <2> QED
    BY <2>1, <2>2
<1>10. Goes(p, locks, s, s)
  BY <1>5, <1>7, <1>8, <1>9 DEF Goes
<1> QED
  BY <1>5, <1>10 DEF p

(* What each lock is (alpc.c, heap.c, console.c, pmm.c, sched.c). *)
LEMMA LockNames ==
  /\ Section \in Lock /\ Inner \subseteq Lock \ {Section} /\ Outer \subseteq Lock \ {Section}
  /\ Inner \cap Outer = {}
  /\ \A c \in Cpu : SchedLock(c) \in Outer
  /\ \A n \in {"global_sched", "heap", "pmm", "console", "port", "kbd", "alpc_test"} :
       <<n, 0>> \in Lock \ {Section}
BY SMT DEF Section, Inner, Outer, Lock, SchedLock

(* The length of what is wrapped. *)
LEMMA Lengths ==
  ASSUME NEW l \in Lock, NEW inner \in Seq(Operation)
  PROVE  /\ Held(l, inner) \in Seq(Operation) /\ Len(Held(l, inner)) = Len(inner) + 2
         /\ Guarded(l, inner) \in Seq(Operation) /\ Len(Guarded(l, inner)) = Len(inner) + 4
<1>0. \A p, q \in Seq(Operation) : p \o q \in Seq(Operation) /\ Len(p \o q) = Len(p) + Len(q)
  BY SMT
<1>a. Len(inner) \in Nat
  BY SMT
<1> DEFINE a == <<<<"lock", l>>>>
           b == <<<<"unlock", l>>>>
<1>1. /\ <<"lock", l>> \in Operation /\ <<"unlock", l>> \in Operation
      /\ <<"save", None>> \in Operation /\ <<"restore", None>> \in Operation
  BY DEF Operation
<1>2. /\ a \in Seq(Operation) /\ b \in Seq(Operation) /\ Len(a) = 1 /\ Len(b) = 1
      /\ Save \in Seq(Operation) /\ Restore \in Seq(Operation) /\ Len(Save) = 1 /\ Len(Restore) = 1
  BY SMT, <1>1 DEF Save, Restore
<1> HIDE DEF a, b
<1>3. a \o inner \o b \in Seq(Operation) /\ Len(a \o inner \o b) = Len(inner) + 2
  <2>1. a \o inner \in Seq(Operation) /\ Len(a \o inner) = Len(inner) + 1 /\ Len(inner) \in Nat
    <3>1. a \o inner \in Seq(Operation) /\ Len(a \o inner) = Len(a) + Len(inner)
      BY <1>0, <1>2
    <3> QED
      BY SMT, <3>1, <1>a, <1>2
  <2> DEFINE r == a \o inner
  <2> HIDE DEF r
  <2>2. r \o b \in Seq(Operation) /\ Len(r \o b) = Len(r) + Len(b)
    BY <2>1, <1>0, <1>2 DEF r
  <2> QED
    BY SMT, <2>1, <2>2, <1>2 DEF r
<1>4. Held(l, inner) = a \o inner \o b
  BY DEF Held, a, b
<1> DEFINE h == Held(l, inner)
<1>5. h \in Seq(Operation) /\ Len(h) = Len(inner) + 2
  BY <1>3, <1>4
<1> HIDE DEF h
<1>6. Save \o h \o Restore \in Seq(Operation) /\ Len(Save \o h \o Restore) = Len(inner) + 4
  <2>1. Save \o h \in Seq(Operation) /\ Len(Save \o h) = Len(inner) + 3 /\ Len(inner) \in Nat
    <3>1. Save \o h \in Seq(Operation) /\ Len(Save \o h) = Len(Save) + Len(h)
      BY <1>0, <1>2, <1>5
    <3> QED
      BY SMT, <3>1, <1>a, <1>2, <1>5
  <2> DEFINE r == Save \o h
  <2> HIDE DEF r
  <2>2. r \o Restore \in Seq(Operation) /\ Len(r \o Restore) = Len(r) + Len(Restore)
    BY <2>1, <1>0, <1>2 DEF r
  <2> QED
    BY SMT, <2>1, <2>2, <1>2 DEF r
<1> QED
  BY <1>5, <1>6 DEF Guarded, h

(* The usual pattern, alone or inside another. *)
LEMMA GoesGuarded ==
  ASSUME NEW locks \in SUBSET Lock, NEW l \in locks \ {Section}, NEW inner \in Seq(Operation),
         NEW s \in Mode, s.off < 3, s.off > 0 \/ s.has \subseteq {Section},
         s.has # {} => s.has \subseteq Outer /\ l \in Inner,
         Goes(inner, locks, [off |-> s.off + 1, has |-> s.has \cup {l}],
                            [off |-> s.off + 1, has |-> s.has \cup {l}])
  PROVE  Goes(Guarded(l, inner), locks, s, s)
<1> DEFINE t == [off |-> s.off + 1, has |-> s.has]
<1>1. t \in Mode /\ t.off = s.off + 1 /\ t.has = s.has /\ t.off > 0
  BY SMT DEF Mode
<1>2. Goes(inner, locks, [off |-> t.off, has |-> t.has \cup {l}],
                         [off |-> t.off, has |-> t.has \cup {l}])
  BY <1>1
<1>3. MayLock(l, t)
  BY <1>1 DEF MayLock
<1> HIDE DEF t
<1>4. Held(l, inner) \in Seq(Operation) /\ Goes(Held(l, inner), locks, t, t)
  BY <1>1, <1>2, <1>3, GoesHeld
<1>5. Goes(Held(l, inner), locks, [off |-> s.off + 1, has |-> s.has], [off |-> s.off + 1, has |-> s.has])
  BY <1>4 DEF t
<1> HIDE DEF t
<1> QED
  BY <1>4, <1>5, GoesSaved DEF Guarded

(* Mode after mode. *)
LEMMA Modes ==
  /\ Idle \in Mode /\ Idle.off = 0 /\ Idle.has = {}
  /\ \A n \in 0 .. 3, L \in SUBSET Lock :
       [off |-> n, has |-> L] \in Mode
BY SMT DEF Idle, Mode

(* One lock, and one inside another. *)
LEMMA GuardedPrograms ==
  ASSUME NEW locks \in SUBSET Lock, NEW l \in locks \ {Section}
  PROVE  /\ Guarded(l, << >>) \in Seq(Operation) /\ Len(Guarded(l, << >>)) = 4
         /\ Goes(Guarded(l, << >>), locks, Idle, Idle)
         /\ \A m \in locks \cap Inner : l \in Outer =>
              /\ Guarded(l, Guarded(m, << >>)) \in Seq(Operation)
              /\ Len(Guarded(l, Guarded(m, << >>))) = 8
              /\ Goes(Guarded(l, Guarded(m, << >>)), locks, Idle, Idle)
<1> DEFINE e == << >>
<1>1. e \in Seq(Operation) /\ Len(e) = 0
  BY SMT
<1>a. l \in Lock
  OBVIOUS
<1> HIDE DEF e
<1>2. \A L \in SUBSET Lock, n \in 1 .. 3 : Goes(e, locks, [off |-> n, has |-> L], [off |-> n, has |-> L])
  <2> SUFFICES ASSUME NEW L \in SUBSET Lock, NEW n \in 1 .. 3
               PROVE  Goes(e, locks, [off |-> n, has |-> L], [off |-> n, has |-> L])
    OBVIOUS
  <2> DEFINE s == [off |-> n, has |-> L]
  <2>1. s \in Mode /\ s.off > 0
    BY SMT, Modes
  <2> HIDE DEF s
  <2>2. Goes(e, locks, s, s)
    BY <2>1, GoesNowhere DEF e
  <2> QED
    BY <2>2 DEF s
<1>3. Guarded(l, e) \in Seq(Operation) /\ Len(Guarded(l, e)) = 4
  <2>1. Len(Guarded(l, e)) = Len(e) + 4 /\ Guarded(l, e) \in Seq(Operation)
    BY <1>1, <1>a, Lengths
  <2> QED
    BY SMT, <2>1, <1>1
<1>4. Goes(Guarded(l, e), locks, Idle, Idle)
  <2>1. Goes(e, locks, [off |-> Idle.off + 1, has |-> Idle.has \cup {l}],
                       [off |-> Idle.off + 1, has |-> Idle.has \cup {l}])
    <3>1. Idle.off + 1 \in 1 .. 3 /\ Idle.has \cup {l} \in SUBSET Lock
      BY SMT, <1>a, Modes
    <3> QED
      BY <3>1, <1>2
  <2> QED
    <3>1. /\ Idle \in Mode /\ Idle.off < 3 /\ Idle.has \subseteq {Section}
          /\ Idle.has # {} => Idle.has \subseteq Outer /\ l \in Inner
      BY SMT, Modes
    <3> QED
      BY <2>1, <3>1, <1>1, GoesGuarded
<1>5. ASSUME NEW m \in locks \cap Inner, l \in Outer
      PROVE  /\ Guarded(l, Guarded(m, e)) \in Seq(Operation)
             /\ Len(Guarded(l, Guarded(m, e))) = 8
             /\ Goes(Guarded(l, Guarded(m, e)), locks, Idle, Idle)
  <2> DEFINE s == [off |-> 1, has |-> {l}]
             g == Guarded(m, e)
  <2>1. s \in Mode /\ s.off = 1 /\ s.has = {l} /\ m \in locks \ {Section}
    BY SMT, Modes, LockNames
  <2>2. Goes(e, locks, [off |-> s.off + 1, has |-> s.has \cup {m}],
                       [off |-> s.off + 1, has |-> s.has \cup {m}])
    <3>1. s.off + 1 \in 1 .. 3 /\ s.has \cup {m} \in SUBSET Lock
      BY SMT, <2>1
    <3> QED
      BY <3>1, <1>2
  <2> HIDE DEF s
  <2>3. Goes(g, locks, s, s)
    <3>1. s.off < 3 /\ s.off > 0 /\ (s.has # {} => s.has \subseteq Outer /\ m \in Inner)
      BY SMT, <2>1, <1>5
    <3> QED
      BY <2>1, <2>2, <3>1, <1>1, GoesGuarded
  <2>4. g \in Seq(Operation) /\ Len(g) = 4
    <3>1. m \in Lock
      BY <2>1
    <3>2. Len(g) = Len(e) + 4 /\ g \in Seq(Operation)
      BY <1>1, <3>1, Lengths
    <3> QED
      BY SMT, <3>2, <1>1
  <2> HIDE DEF g
  <2>5. Guarded(l, g) \in Seq(Operation) /\ Len(Guarded(l, g)) = 8
    <3>1. Len(Guarded(l, g)) = Len(g) + 4 /\ Guarded(l, g) \in Seq(Operation)
      BY <2>4, <1>a, Lengths
    <3> QED
      BY SMT, <3>1, <2>4
  <2>6. Goes(g, locks, [off |-> Idle.off + 1, has |-> Idle.has \cup {l}],
                       [off |-> Idle.off + 1, has |-> Idle.has \cup {l}])
    <3>1. [off |-> Idle.off + 1, has |-> Idle.has \cup {l}] = s
      BY SMT, Modes DEF s
    <3> QED
      BY <3>1, <2>3
  <2>7. Goes(Guarded(l, g), locks, Idle, Idle)
    BY SMT, <2>4, <2>6, Modes, GoesGuarded
  <2> QED
    BY <2>5, <2>7 DEF g
<1> QED
  BY <1>3, <1>4, <1>5 DEF e

(* b_irq_save and b_irq_restore by themselves, a lock between them, and the *)
(* table of sections (lib.c:3-23, alpc.c:114-126).                          *)
LEMMA SavedParts ==
  ASSUME NEW locks \in SUBSET Lock
  PROVE  /\ Masked \in Mode /\ Masked.off = 1 /\ Masked.has = {}
         /\ Save \in Seq(Operation) /\ Goes(Save, locks, Idle, Masked)
         /\ Restore \in Seq(Operation) /\ Goes(Restore, locks, Masked, Idle)
         /\ \A l \in locks \ {Section} :
              /\ Held(l, << >>) \in Seq(Operation) /\ Len(Held(l, << >>)) = 2
              /\ Goes(Held(l, << >>), locks, Masked, Masked)
         /\ Section \in locks => Disciplined(Held(Section, << >>), locks)
<1> DEFINE e == << >>
           a == <<"save", None>>
           b == <<"restore", None>>
<1>1. Masked \in Mode /\ Masked.off = 1 /\ Masked.has = {}
  BY SMT, Modes DEF Masked
<1>2. a \in Operation /\ b \in Operation /\ a[1] = "save" /\ b[1] = "restore"
  BY DEF Operation
<1>3. e \in Seq(Operation) /\ Len(e) = 0
  BY SMT
<1> HIDE DEF e, a, b
<1>4. Does(a, locks, Idle, Masked) /\ Does(b, locks, Masked, Idle)
  BY SMT, <1>1, <1>2, Modes DEF Does
<1>5. Goes(<<a>>, locks, Idle, Masked) /\ Goes(<<b>>, locks, Masked, Idle)
  <2>1. Idle \in Mode /\ Idle.has \subseteq {Section} /\ Masked.off > 0
    BY SMT, <1>1, Modes
  <2> QED
    BY <2>1, <1>1, <1>4, GoesOne
<1>6. <<a>> \in Seq(Operation) /\ <<b>> \in Seq(Operation) /\ Save = <<a>> /\ Restore = <<b>>
  BY SMT, <1>2 DEF Save, Restore, a, b
<1>7. ASSUME NEW l \in locks \ {Section}
      PROVE  /\ Held(l, e) \in Seq(Operation) /\ Len(Held(l, e)) = 2
             /\ Goes(Held(l, e), locks, Masked, Masked)
  <2>1. l \in Lock
    OBVIOUS
  <2>2. Len(Held(l, e)) = Len(e) + 2 /\ Held(l, e) \in Seq(Operation)
    BY <2>1, <1>3, Lengths
  <2> DEFINE t == [off |-> Masked.off, has |-> Masked.has \cup {l}]
  <2>3. t \in Mode /\ t.off > 0
    BY SMT, <1>1, <2>1, Modes
  <2> HIDE DEF t
  <2>4. Goes(e, locks, t, t)
    BY <2>3, GoesNowhere DEF e
  <2>5. Goes(e, locks, [off |-> Masked.off, has |-> Masked.has \cup {l}],
                       [off |-> Masked.off, has |-> Masked.has \cup {l}])
    BY <2>4 DEF t
  <2>6. MayLock(l, Masked) /\ Masked.off > 0
    BY SMT, <1>1 DEF MayLock
  <2>7. Goes(Held(l, e), locks, Masked, Masked)
    BY <2>5, <2>6, <1>1, <1>3, GoesHeld
  <2> QED
    BY SMT, <2>2, <2>7, <1>3
<1>8. ASSUME Section \in locks PROVE Disciplined(Held(Section, e), locks)
  <2> DEFINE t == [off |-> Idle.off, has |-> Idle.has \cup {Section}]
  <2>1. t \in Mode /\ t.has \subseteq {Section}
    BY SMT, Modes, LockNames
  <2> HIDE DEF t
  <2>2. Goes(e, locks, t, t)
    BY <2>1, GoesNowhere DEF e
  <2>3. Goes(e, locks, [off |-> Idle.off, has |-> Idle.has \cup {Section}],
                       [off |-> Idle.off, has |-> Idle.has \cup {Section}])
    BY <2>2 DEF t
  <2>4. MayLock(Section, Idle) /\ Idle \in Mode
    BY Modes DEF MayLock
  <2> QED
    BY <2>3, <2>4, <1>3, <1>8, GoesHeld DEF Disciplined
<1> QED
  BY <1>1, <1>5, <1>6, <1>7, <1>8 DEF e

(* Masked program after another, with its type. *)
LEMMA Joined ==
  ASSUME NEW locks, NEW s, NEW t, NEW u,
         NEW p \in Seq(Operation), Goes(p, locks, s, t),
         NEW q \in Seq(Operation), Goes(q, locks, t, u)
  PROVE  p \o q \in Seq(Operation) /\ Goes(p \o q, locks, s, u)
BY SMT, GoesOn

(* The same for programs that end where they begin. *)
LEMMA JoinedPrograms ==
  ASSUME NEW locks, NEW p, NEW q, Disciplined(p, locks), Disciplined(q, locks)
  PROVE  Disciplined(p \o q, locks)
BY Joined DEF Disciplined

(* The handlers of interrupts 0x20 and 0x21 (sched.c:179-255,               *)
(* keyboard.c:35-51).                                                       *)
LEMMA HandlersGo ==
  ASSUME NEW c \in Cpu, NEW p \in Handlers(c)
  PROVE  Disciplined(p, Lock \ {Section})
<1> DEFINE L == Lock \ {Section}
<1>1. <<"kbd", 0>> \in L \ {Section} /\ <<"heap", 0>> \in L \cap Inner /\ SchedLock(c) \in (L \ {Section}) \cap Outer
  BY LockNames DEF Inner
<1>2. L \in SUBSET Lock
  OBVIOUS
<1> HIDE DEF L
<1>3. Disciplined(keyboard_handler, L)
  BY <1>1, <1>2, GuardedPrograms DEF keyboard_handler, Disciplined
<1>4. Disciplined(Guarded(SchedLock(c), << >>), L)
  BY <1>1, <1>2, GuardedPrograms DEF Disciplined
<1>5. Disciplined(Guarded(SchedLock(c), kmalloc), L)
  BY <1>1, <1>2, GuardedPrograms DEF Disciplined, kmalloc
<1>6. p = keyboard_handler \/ p = Guarded(SchedLock(c), << >>) \/ p = Guarded(SchedLock(c), kmalloc)
  BY DEF Handlers, sched_reschedule
<1> QED
  BY <1>3, <1>4, <1>5, <1>6 DEF L

(* Loops that take the scheduler locks of all CPUs in turn, alone or around *)
(* a print (sched.c:287-378).                                               *)
LEMMA LoopsGo ==
  /\ \A n \in 1 .. NCpu : Disciplined(sched_is_alive(n), Lock)
  /\ Disciplined(sched_print_tasks, Lock)
<1>1. ASSUME NEW i \in Cpu
      PROVE  /\ SchedLock(i) \in (Lock \ {Section}) \cap Outer
             /\ <<"console", 0>> \in (Lock \ {Section}) \cap Inner
  BY LockNames DEF Inner
<1>2. NCpu \in 0 .. NCpu /\ Idle \in Mode /\ Idle.has \subseteq {Section} /\ Lock \in SUBSET Lock
  BY SMT, LocksAssumption, Modes
<1>3. ASSUME NEW n \in 1 .. NCpu PROVE Disciplined(sched_is_alive(n), Lock)
  <2> DEFINE P == [i \in Cpu |-> Guarded(SchedLock(i), << >>)]
  <2>1. ASSUME NEW i \in Cpu
        PROVE  /\ P[i] \in Seq(Operation) /\ Len(P[i]) = 4 /\ Goes(P[i], Lock, Idle, Idle)
    BY <1>1, GuardedPrograms
  <2>2. P \in [Cpu -> Seq(Operation)]
    BY <2>1
  <2>3. sched_is_alive(n) = Loop(n, P) /\ n \in 0 .. NCpu
    BY SMT DEF sched_is_alive
  <2> HIDE DEF P
  <2> DEFINE k == 4
  <2>4. k \in {2, 4, 8} /\ \A i \in Cpu : Len(P[i]) = k
    BY <2>1
  <2> HIDE DEF k
  <2> QED
    BY <1>2, <2>1, <2>2, <2>3, <2>4, GoesLoop DEF Disciplined
<1>4. Disciplined(sched_print_tasks, Lock)
  <2> DEFINE P == [i \in Cpu |-> Guarded(SchedLock(i), console_print)]
  <2>1. ASSUME NEW i \in Cpu
        PROVE  /\ P[i] \in Seq(Operation) /\ Len(P[i]) = 8 /\ Goes(P[i], Lock, Idle, Idle)
    BY <1>1, GuardedPrograms DEF console_print
  <2>2. P \in [Cpu -> Seq(Operation)]
    BY <2>1
  <2>3. sched_print_tasks = console_print \o Loop(NCpu, P)
    BY DEF sched_print_tasks
  <2> HIDE DEF P
  <2> DEFINE k == 8
  <2>4. k \in {2, 4, 8} /\ \A i \in Cpu : Len(P[i]) = k
    BY <2>1
  <2> HIDE DEF k
  <2>5. Disciplined(Loop(NCpu, P), Lock)
    BY <1>2, <2>1, <2>2, <2>4, GoesLoop DEF Disciplined
  <2>6. Disciplined(console_print, Lock)
    BY LockNames, GuardedPrograms DEF Disciplined, console_print
  <2> QED
    BY <2>3, <2>5, <2>6, JoinedPrograms
<1> QED
  BY <1>3, <1>4

(* The scan of a handoff (sched.c:380-420). *)
LEMMA HandoffGoes ==
  ASSUME NEW c \in Cpu, NEW d \in Cpu \cup {None}
  PROVE  Disciplined(sched_handoff(c, d), Lock)
<1> DEFINE P == [i \in Cpu |-> Held(SchedLock(i), << >>)]
<1>1. ASSUME NEW i \in Cpu
      PROVE  /\ P[i] = Held(SchedLock(i), << >>)
             /\ P[i] \in Seq(Operation) /\ Len(P[i]) = 2 /\ Goes(P[i], Lock, Masked, Masked)
  BY LockNames, SavedParts
<1>2. P \in [Cpu -> Seq(Operation)] /\ \A n : Scan(n) = Loop(n, P)
  BY <1>1 DEF Scan
<1> HIDE DEF P
<1>3. \A n \in 0 .. NCpu : Scan(n) \in Seq(Operation) /\ Goes(Scan(n), Lock, Masked, Masked)
  <2> DEFINE k == 2
  <2>1. k \in {2, 4, 8} /\ \A i \in Cpu : Len(P[i]) = k
    BY <1>1
  <2>2. Masked \in Mode /\ Masked.off > 0
    BY SMT, SavedParts
  <2> HIDE DEF k
  <2> QED
    BY <1>1, <1>2, <2>1, <2>2, GoesLoop
<1> DEFINE q == IF d = None THEN Scan(NCpu) ELSE Scan(d + 1) \o Held(SchedLock(c), << >>)
<1>4. q \in Seq(Operation) /\ Goes(q, Lock, Masked, Masked)
  <2>1. CASE d = None
    <3>1. NCpu \in 0 .. NCpu
      BY SMT, LocksAssumption
    <3> QED
      BY <2>1, <3>1, <1>3
  <2>2. CASE d # None
    <3>1. d + 1 \in 0 .. NCpu
      BY SMT, <2>2, LocksAssumption DEF Cpu
    <3>2. Scan(d + 1) \in Seq(Operation) /\ Goes(Scan(d + 1), Lock, Masked, Masked)
      BY <3>1, <1>3
    <3>3. /\ Held(SchedLock(c), << >>) \in Seq(Operation)
          /\ Goes(Held(SchedLock(c), << >>), Lock, Masked, Masked)
      BY <1>1
    <3> QED
      BY <2>2, <3>2, <3>3, Joined
  <2> QED
    BY <2>1, <2>2
<1>5. sched_handoff(c, d) = Save \o q \o Restore
  BY DEF sched_handoff
<1> HIDE DEF q
<1>6. Save \o q \in Seq(Operation) /\ Goes(Save \o q, Lock, Idle, Masked)
  BY <1>4, SavedParts, Joined
<1>7. Disciplined(Save \o q \o Restore, Lock)
  BY <1>6, SavedParts, Joined DEF Disciplined
<1> QED
  BY <1>5, <1>7

(* sched_spawn takes two locks one after the other under one b_irq_save     *)
(* (sched.c:56-101).                                                        *)
LEMMA SpawnGoes ==
  ASSUME NEW d \in Cpu
  PROVE  Disciplined(sched_spawn(d), Lock)
<1> DEFINE g == Held(<<"global_sched", 0>>, << >>)
           h == Held(SchedLock(d), << >>)
<1>1. /\ g \in Seq(Operation) /\ Goes(g, Lock, Masked, Masked)
      /\ h \in Seq(Operation) /\ Goes(h, Lock, Masked, Masked)
  BY LockNames, SavedParts
<1>2. Disciplined(kmalloc, Lock)
  BY LockNames, GuardedPrograms DEF Disciplined, kmalloc
<1>3. sched_spawn(d) = kmalloc \o kmalloc \o Save \o g \o h \o Restore
  BY DEF sched_spawn
<1> HIDE DEF g, h
<1> DEFINE p2 == kmalloc \o kmalloc
           p3 == p2 \o Save
           p4 == p3 \o g
           p5 == p4 \o h
<1>4. p2 \in Seq(Operation) /\ Goes(p2, Lock, Idle, Idle)
  BY <1>2, JoinedPrograms DEF Disciplined
<1> HIDE DEF p2
<1>5. p3 \in Seq(Operation) /\ Goes(p3, Lock, Idle, Masked)
  BY <1>4, SavedParts, Joined
<1> HIDE DEF p3
<1>6. p4 \in Seq(Operation) /\ Goes(p4, Lock, Idle, Masked)
  BY <1>1, <1>5, Joined
<1> HIDE DEF p4
<1>7. p5 \in Seq(Operation) /\ Goes(p5, Lock, Idle, Masked)
  BY <1>1, <1>6, Joined
<1> HIDE DEF p5
<1>8. Disciplined(p5 \o Restore, Lock)
  BY <1>7, SavedParts, Joined DEF Disciplined
<1> QED
  BY <1>3, <1>8 DEF p2, p3, p4, p5

(* Every call keeps to the discipline, for any number of CPUs. *)
LEMMA ProgramsGo ==
  ASSUME NEW c \in Cpu, NEW call \in Call, NEW p \in Programs(c, call)
  PROVE  Disciplined(p, Lock)
<1> USE DEF Programs
<1>1. CASE call = "key"
  BY <1>1, LockNames, GuardedPrograms DEF keyboard_get_char, Disciplined
<1>2. CASE call = "tasks" \/ call = "alive"
  <2>1. p = sched_print_tasks \/ \E n \in 1 .. NCpu : p = sched_is_alive(n)
    BY <1>2
  <2> QED
    BY <2>1, LoopsGo
<1>3. CASE call = "spawn"
  BY <1>3, SpawnGoes
<1>4. Disciplined(alpc_recv, Lock)
  BY LockNames, GuardedPrograms DEF alpc_recv, Disciplined
<1>5. CASE call = "send"
  <2>1. CASE p = alpc_recv
    BY <2>1, <1>4
  <2>2. CASE p # alpc_recv
    <3>1. PICK d \in Cpu \cup {None} : p = alpc_recv \o sched_handoff(c, d)
      BY <1>5, <2>2 DEF alpc_send
    <3> QED
      BY <3>1, <1>4, HandoffGoes, JoinedPrograms
  <2> QED
    BY <2>1, <2>2
<1>6. CASE call = "recv"
  <2>1. /\ <<"alpc_test", 0>> \in (Lock \ {Section}) \cap Outer
        /\ <<"console", 0>> \in Lock \cap Inner
    BY LockNames DEF Outer, Inner
  <2>2. /\ Disciplined(Guarded(<<"alpc_test", 0>>, << >>), Lock)
        /\ Disciplined(Guarded(<<"alpc_test", 0>>, console_print), Lock)
    BY <2>1, GuardedPrograms DEF Disciplined, console_print
  <2>3. \/ p = alpc_recv \/ p = Guarded(<<"alpc_test", 0>>, << >>)
        \/ p = Guarded(<<"alpc_test", 0>>, console_print)
    BY <1>6 DEF CountMessage
  <2> QED
    BY <2>2, <2>3, <1>4
<1>7. Disciplined(pmm_alloc, Lock) /\ Disciplined(SectionTable, Lock)
  <2>1. Disciplined(pmm_alloc, Lock)
    BY LockNames, GuardedPrograms DEF pmm_alloc, Disciplined
  <2>2. Disciplined(Held(Section, << >>), Lock)
    BY LockNames, SavedParts
  <2> QED
    BY <2>1, <2>2 DEF SectionTable, Section
<1>8. CASE call = "create" \/ call = "map"
  BY <1>7, <1>8, JoinedPrograms DEF alpc_create_section, alpc_map_section
<1> QED
  BY <1>1, <1>2, <1>3, <1>5, <1>6, <1>8 DEF Call

(* Nothing left to do is nothing left to change. *)
LEMMA GoesEmpty ==
  ASSUME NEW locks, NEW s, NEW t, NEW p, p = << >>, Goes(p, locks, s, t)
  PROVE  s = t
<1>1. Len(p) = 0
  OBVIOUS
<1> QED
  BY <1>1 DEF Goes

(* Who runs (idt.c:75-84). *)
LEMMA Contexts ==
  ASSUME LocksInv, NEW c \in Cpu
  PROVE  /\ cur[c] \in Thread /\ CpuOf[cur[c]] = c
         /\ Isr(c) \in Context /\ Isr(c) \notin Thread /\ cur[c] \in Context
         /\ Active(c) \in Context
         /\ \A d \in Cpu : d # c => Isr(d) # Isr(c)
         /\ \A t \in Thread : t \in Context /\ t # Isr(c) /\ CpuOf[t] \in Cpu
BY LocksAssumption DEF LocksInv, Context, Isr, Active

(* At boot nobody holds anything. *)
LEMMA LocksInitInv == LocksInit => LocksInv
<1> SUFFICES ASSUME LocksInit PROVE LocksInv
  OBVIOUS
<1>1. /\ cur \in [Cpu -> Thread] /\ \A c \in Cpu : CpuOf[cur[c]] = c
      /\ off \in [Context -> 0 .. 3] /\ holder \in [Lock -> Context \cup {None}]
      /\ \A x \in Context : off[x] = 0 /\ prog[x] = << >>
  BY SMT DEF LocksInit
<1>2. prog \in [Context -> Seq(Operation)]
  <2>1. << >> \in Seq(Operation)
    BY SMT
  <2> QED
    BY <2>1 DEF LocksInit
<1>3. ASSUME NEW x \in Context PROVE Goes(prog[x], LocksOf(x), ModeOf(x), Idle)
  <2>1. {l \in Lock : holder[l] = x} = {}
    BY LocksAssumption DEF LocksInit
  <2>2. ModeOf(x) = Idle
    BY <1>1, <2>1 DEF ModeOf, Idle
  <2>3. Goes(<< >>, LocksOf(x), Idle, Idle)
    BY Modes, GoesNowhere
  <2> QED
    BY <1>1, <2>2, <2>3
<1>4. \A t \in Thread : ~ (off[t] > 0)
  BY SMT, <1>1 DEF Context
<1> QED
  BY <1>1, <1>2, <1>3, <1>4 DEF LocksInv

(* A call or a handler begins where its context holds nothing. *)
LEMMA EnterInv ==
  ASSUME LocksInv, NEW x \in Context, NEW p, prog[x] = << >>, Disciplined(p, LocksOf(x)),
         prog' = [prog EXCEPT ![x] = p], UNCHANGED <<cur, off, holder>>
  PROVE  /\ prog' \in [Context -> Seq(Operation)]
         /\ \A y \in Context : Goes(prog[y], LocksOf(y), ModeOf(y), Idle)'
<1>1. ModeOf(x) = Idle
  BY GoesEmpty DEF LocksInv
<1>2. prog' \in [Context -> Seq(Operation)]
  BY DEF LocksInv, Disciplined
<1>3. ASSUME NEW y \in Context
      PROVE  Goes(prog'[y], LocksOf(y), ModeOf(y)', Idle)
  <2>1. ModeOf(y)' = ModeOf(y)
    BY DEF ModeOf
  <2>2. CASE y = x
    BY <1>1, <2>1, <2>2 DEF LocksInv, Disciplined
  <2>3. CASE y # x
    BY <2>1, <2>3 DEF LocksInv
  <2> QED
    BY <2>2, <2>3
<1>4. \A y \in Context : Goes(prog[y], LocksOf(y), ModeOf(y), Idle)' <=>
                         Goes(prog'[y], LocksOf(y), ModeOf(y)', Idle)
  BY DEF Goes, LocksOf, Does, MayLock, Mode, Idle, Section
<1> QED
  BY <1>2, <1>3, <1>4

(* A call begins (shell.c:571-625 and the other callers). *)
LEMMA BeginInv ==
  ASSUME LocksInv, NEW c \in Cpu, Begin(c)
  PROVE  LocksInv'
<1> DEFINE x == cur[c]
<1>0. PICK call \in Calls[x] : \E p \in Programs(c, call) : prog' = [prog EXCEPT ![x] = p]
  BY DEF Begin
<1>1. PICK p \in Programs(c, call) : prog' = [prog EXCEPT ![x] = p]
  BY <1>0
<1>2. x \in Context /\ x \in Thread /\ prog[x] = << >> /\ UNCHANGED <<cur, off, holder>>
  BY Contexts DEF Begin
<1>3. call \in Call
  BY <1>2, LocksAssumption
<1>4. Disciplined(p, LocksOf(x))
  BY <1>2, <1>3, ProgramsGo DEF LocksOf
<1> HIDE DEF x
<1>5. /\ prog' \in [Context -> Seq(Operation)]
      /\ \A y \in Context : Goes(prog[y], LocksOf(y), ModeOf(y), Idle)'
  BY <1>1, <1>2, <1>4, EnterInv
<1>6. \A d \in Cpu : InIsr(d)' <=> InIsr(d)
  BY <1>1, <1>2, Contexts DEF InIsr, LocksInv
<1>7. \A t \in Thread : off'[t] > 0 => cur'[CpuOf[t]] = t /\ ~ InIsr(CpuOf[t])'
  BY SMT, <1>2, <1>6, Contexts, LocksAssumption DEF LocksInv
<1> QED
  BY <1>2, <1>5, <1>7 DEF LocksInv

(* An interrupt comes to a thread that has interrupts on (idt.c:75-84). *)
LEMMA InterruptInv ==
  ASSUME LocksInv, NEW c \in Cpu, Interrupt(c)
  PROVE  LocksInv'
<1> DEFINE x == Isr(c)
<1>1. PICK p \in Handlers(c) : prog' = [prog EXCEPT ![x] = p]
  BY DEF Interrupt
<1>2. /\ x \in Context /\ x \notin Thread /\ prog[x] = << >> /\ UNCHANGED <<cur, off, holder>>
      /\ off[cur[c]] = 0
  BY Contexts DEF Interrupt, InIsr
<1>3. Disciplined(p, LocksOf(x))
  BY <1>2, HandlersGo DEF LocksOf
<1> HIDE DEF x
<1>4. /\ prog' \in [Context -> Seq(Operation)]
      /\ \A y \in Context : Goes(prog[y], LocksOf(y), ModeOf(y), Idle)'
  BY <1>1, <1>2, <1>3, EnterInv
<1>5. \A d \in Cpu : d # c => (InIsr(d)' <=> InIsr(d))
  BY <1>1, <1>2, Contexts DEF InIsr, LocksInv, x
<1>6. ASSUME NEW t \in Thread, off'[t] > 0 PROVE cur'[CpuOf[t]] = t /\ ~ InIsr(CpuOf[t])'
  <2>1. off[t] > 0 /\ cur[CpuOf[t]] = t /\ ~ InIsr(CpuOf[t]) /\ CpuOf[t] \in Cpu
    BY <1>2, <1>6, LocksAssumption DEF LocksInv
  <2>2. CpuOf[t] # c
    BY SMT, <2>1, <1>2
  <2> QED
    BY <2>1, <2>2, <1>2, <1>5
<1> QED
  BY <1>2, <1>4, <1>6 DEF LocksInv

(* What an operation does to the locks and the flag (lib.c:3-23). *)
LEMMA OperationDone ==
  ASSUME LocksInv, NEW c \in Cpu, Step(c), NEW x \in Context, x = Active(c),
         NEW u \in Mode, Does(Head(prog[x]), LocksOf(x), ModeOf(x), u)
  PROVE  /\ off' \in [Context -> 0 .. 3] /\ holder' \in [Lock -> Context \cup {None}]
         /\ ModeOf(x)' = u /\ off'[x] = u.off
         /\ \A y \in Context \ {x} : ModeOf(y)' = ModeOf(y) /\ off'[y] = off[y]
<1> DEFINE op == Head(prog[x])
<1>1. /\ x \in Context /\ None \notin Context /\ LocksOf(x) \subseteq Lock
      /\ off \in [Context -> 0 .. 3] /\ holder \in [Lock -> Context \cup {None}]
  BY Contexts, LocksAssumption DEF LocksInv, LocksOf
<1>2. /\ u.off \in 0 .. 3 /\ u = [off |-> u.off, has |-> u.has]
      /\ ModeOf(x).off = off[x] /\ ModeOf(x).has = {l \in Lock : holder[l] = x}
  BY DEF Mode, ModeOf
<1>3. /\ op[1] = "save" => off' = [off EXCEPT ![x] = @ + 1] /\ UNCHANGED holder
      /\ op[1] = "restore" => off' = [off EXCEPT ![x] = @ - 1] /\ UNCHANGED holder
      /\ op[1] = "lock" => /\ holder[op[2]] = None /\ holder' = [holder EXCEPT ![op[2]] = x]
                           /\ UNCHANGED off
      /\ op[1] = "unlock" => holder' = [holder EXCEPT ![op[2]] = None] /\ UNCHANGED off
  BY DEF Step
<1>4. Does(op, LocksOf(x), ModeOf(x), u)
  OBVIOUS
<1> HIDE DEF op
<1>5. CASE op[1] = "save" \/ op[1] = "restore"
  <2>1. UNCHANGED holder /\ off' = [off EXCEPT ![x] = u.off] /\ u.has = ModeOf(x).has
    BY SMT, <1>1, <1>2, <1>3, <1>4, <1>5 DEF Does
  <2> QED
    BY <2>1, <1>1, <1>2 DEF ModeOf
<1>6. CASE op[1] = "lock"
  <2>1. /\ op[2] \in Lock /\ holder[op[2]] = None /\ holder' = [holder EXCEPT ![op[2]] = x]
        /\ UNCHANGED off /\ u.off = off[x] /\ u.has = ModeOf(x).has \cup {op[2]}
    BY <1>1, <1>2, <1>3, <1>4, <1>6 DEF Does
  <2>2. {l \in Lock : holder'[l] = x} = u.has
    BY <2>1, <1>1, <1>2
  <2>3. \A y \in Context \ {x} : {l \in Lock : holder'[l] = y} = {l \in Lock : holder[l] = y}
    BY <2>1, <1>1
  <2> QED
    BY <2>1, <2>2, <2>3, <1>1, <1>2 DEF ModeOf
<1>7. CASE op[1] = "unlock"
  <2>1. /\ op[2] \in Lock /\ holder[op[2]] = x /\ holder' = [holder EXCEPT ![op[2]] = None]
        /\ UNCHANGED off /\ u.off = off[x] /\ u.has = ModeOf(x).has \ {op[2]}
    BY <1>1, <1>2, <1>3, <1>4, <1>7 DEF Does
  <2>2. {l \in Lock : holder'[l] = x} = u.has
    BY <2>1, <1>1, <1>2
  <2>3. \A y \in Context \ {x} : {l \in Lock : holder'[l] = y} = {l \in Lock : holder[l] = y}
    BY <2>1, <1>1
  <2> QED
    BY <2>1, <2>2, <2>3, <1>1, <1>2 DEF ModeOf
<1> QED
  BY <1>4, <1>5, <1>6, <1>7 DEF Does

(* An operation of a call or a handler, and the return from an interrupt    *)
(* (lib.c:3-23, interrupt.asm:20-67).                                       *)
LEMMA StepInv ==
  ASSUME LocksInv, NEW c \in Cpu, Step(c)
  PROVE  LocksInv'
<1>0. PICK x \in Context : x = Active(c)
  BY Contexts
<1>1. /\ x \in Context /\ prog[x] # << >> /\ prog' = [prog EXCEPT ![x] = Tail(prog[x])]
      /\ prog[x] \in Seq(Operation) /\ Goes(prog[x], LocksOf(x), ModeOf(x), Idle)
      /\ prog \in [Context -> Seq(Operation)]
  BY <1>0 DEF Step, LocksInv
<1>2. PICK u \in Mode : /\ Does(Head(prog[x]), LocksOf(x), ModeOf(x), u)
                        /\ Goes(Tail(prog[x]), LocksOf(x), u, Idle)
  BY <1>1, GoesTail
<1>3. /\ off' \in [Context -> 0 .. 3] /\ holder' \in [Lock -> Context \cup {None}]
      /\ ModeOf(x)' = u /\ off'[x] = u.off
      /\ \A y \in Context \ {x} : ModeOf(y)' = ModeOf(y) /\ off'[y] = off[y]
  BY <1>0, <1>2, OperationDone
<1>4. prog' \in [Context -> Seq(Operation)]
  BY SMT, <1>1
<1>5. ASSUME NEW y \in Context PROVE Goes(prog[y], LocksOf(y), ModeOf(y), Idle)'
  <2>1. Goes(prog'[y], LocksOf(y), ModeOf(y)', Idle)
    <3>1. CASE y = x
      BY <3>1, <1>1, <1>2, <1>3
    <3>2. CASE y # x
      BY SMT, <3>2, <1>1, <1>3 DEF LocksInv
    <3> QED
      BY <3>1, <3>2
  <2> QED
    BY <2>1 DEF Goes, LocksOf, Does, MayLock, Mode, Idle, Section
<1>6. /\ cur' \in [Cpu -> Thread] /\ \A d \in Cpu : CpuOf[cur'[d]] = d
      /\ \A d \in Cpu : d # c => cur'[d] = cur[d]
      /\ x # Isr(c) => cur' = cur
  BY <1>0 DEF Step, LocksInv
<1>7. /\ ~ InIsr(c) => x = cur[c]
      /\ InIsr(c) => x = Isr(c)
  BY <1>0 DEF Active
<1>8. \A d \in Cpu : d # c \/ x # Isr(c) => (InIsr(d)' <=> InIsr(d))
  <2> SUFFICES ASSUME NEW d \in Cpu, d # c \/ x # Isr(c) PROVE InIsr(d)' <=> InIsr(d)
    OBVIOUS
  <2>1. x # Isr(d) /\ Isr(d) \in Context
    BY <1>7, Contexts
  <2> QED
    BY <2>1, <1>1 DEF InIsr
<1>9. ASSUME NEW t \in Thread, off'[t] > 0 PROVE cur'[CpuOf[t]] = t /\ ~ InIsr(CpuOf[t])'
  <2>1. CASE t = x
    <3>1. x # Isr(c) /\ ~ InIsr(c) /\ x = cur[c] /\ CpuOf[t] = c
      BY <2>1, <1>7, Contexts
    <3> QED
      BY <2>1, <3>1, <1>6, <1>8
  <2>2. CASE t # x
    <3>1. off[t] > 0 /\ t \in Context
      BY <2>2, <1>3, <1>9, Contexts
    <3>2. cur[CpuOf[t]] = t /\ ~ InIsr(CpuOf[t]) /\ CpuOf[t] \in Cpu
      BY <3>1, LocksAssumption DEF LocksInv
    <3>3. CpuOf[t] # c
      BY <2>2, <3>2, <1>7
    <3> QED
      BY <3>2, <3>3, <1>6, <1>8
  <2> QED
    BY <2>1, <2>2
<1> QED
  BY <1>3, <1>4, <1>5, <1>6, <1>9 DEF LocksInv

(* Every step keeps the invariant. *)
LEMMA LocksStepInv ==
  ASSUME LocksInv, [LocksNext]_locks_vars
  PROVE  LocksInv'
<1>1. CASE UNCHANGED locks_vars
  <2>1. UNCHANGED <<cur, prog, off, holder>>
    BY <1>1 DEF locks_vars
  <2>2. ASSUME NEW y \in Context PROVE Goes(prog[y], LocksOf(y), ModeOf(y), Idle)'
    <3>1. Goes(prog'[y], LocksOf(y), ModeOf(y)', Idle)
      BY <2>1 DEF LocksInv, ModeOf
    <3> QED
      BY <3>1 DEF Goes, LocksOf, Does, MayLock, Mode, Idle, Section
  <2> QED
    BY <2>1, <2>2 DEF LocksInv, InIsr
<1>2. CASE LocksNext
  BY <1>2, BeginInv, StepInv, InterruptInv DEF LocksNext
<1> QED
  BY <1>1, <1>2

(* What a context is about to do fits what it holds. *)
LEMMA AboutTo ==
  ASSUME LocksInv, NEW x \in Context
  PROVE  /\ prog[x] = << >> => ModeOf(x) = Idle
         /\ ModeOf(x).off > 0 \/ ModeOf(x).has \subseteq {Section}
         /\ prog[x] # << >> /\ Head(prog[x])[1] = "lock" =>
              Head(prog[x])[2] \in LocksOf(x) /\ MayLock(Head(prog[x])[2], ModeOf(x))
<1> DEFINE p == prog[x]
           s == ModeOf(x)
<1>1. p \in Seq(Operation) /\ Goes(p, LocksOf(x), s, Idle)
  BY DEF LocksInv
<1> HIDE DEF p, s
<1>2. p = << >> => s = Idle
  BY <1>1, GoesEmpty
<1>3. s.off > 0 \/ s.has \subseteq {Section}
  <2>1. Len(p) \in Nat /\ 0 \in 0 .. Len(p)
    BY SMT, <1>1
  <2> QED
    BY <2>1, <1>1 DEF Goes
<1>4. ASSUME p # << >>, Head(p)[1] = "lock"
      PROVE  Head(p)[2] \in LocksOf(x) /\ MayLock(Head(p)[2], s)
  <2>1. PICK u \in Mode : Does(Head(p), LocksOf(x), s, u)
    BY <1>1, <1>4, GoesTail
  <2> QED
    BY <2>1, <1>4 DEF Does
<1> QED
  BY <1>2, <1>3, <1>4 DEF p, s

(* For any number of CPUs and threads, every call and every handler stays   *)
(* within the discipline of the locks, and a thread that has switched its   *)
(* interrupts off keeps its CPU (lib.c:3-23 and its users).                 *)
THEOREM LocksInductive == LocksSpec => []LocksInv
  BY LocksInitInv, LocksStepInv, PTL DEF LocksSpec

(* A context that holds a lock other than the section lock is running. *)
LEMMA HolderRuns ==
  ASSUME LocksInv, NEW l \in Lock \ {Section}, holder[l] # None
  PROVE  \E d \in Cpu : holder[l] = Active(d)
<1> DEFINE y == holder[l]
<1>1. y \in Context
  BY DEF LocksInv
<1>2. ModeOf(y).off = off[y] /\ l \in ModeOf(y).has
  BY DEF ModeOf
<1>3. off[y] > 0 /\ prog[y] # << >>
  BY <1>1, <1>2, AboutTo, Modes
<1>4. CASE y \in Thread
  <2>1. cur[CpuOf[y]] = y /\ ~ InIsr(CpuOf[y]) /\ CpuOf[y] \in Cpu
    BY <1>3, <1>4, LocksAssumption DEF LocksInv
  <2> QED
    BY <2>1 DEF Active
<1>5. CASE y \notin Thread
  <2>1. PICK d \in Cpu : y = Isr(d)
    BY <1>1, <1>5 DEF Context
  <2> QED
    BY <2>1, <1>3 DEF Active, InIsr
<1> QED
  BY <1>4, <1>5

(* Every call gives back what it took, for any number of CPUs and threads   *)
(* making any calls (lib.c:3-23 and its users).                             *)
THEOREM EverythingGivenBack == LocksSpec => []LocksTypeOK
<1>1. LocksInv => LocksTypeOK
  <2> SUFFICES ASSUME LocksInv PROVE LocksTypeOK
    OBVIOUS
  <2>1. ASSUME NEW x \in Context, prog[x] = << >>
        PROVE  off[x] = 0 /\ \A l \in Lock : holder[l] # x
    <3>1. ModeOf(x).off = 0 /\ ModeOf(x).has = {}
      BY <2>1, AboutTo, Modes
    <3> QED
      BY <3>1 DEF ModeOf
  <2> QED
    BY <2>1 DEF LocksTypeOK, LocksInv
<1> QED
  BY <1>1, LocksInductive, PTL

(* A CPU that spins with interrupts off waits for a CPU that is running,    *)
(* and that one for nobody who waits: no deadlock among any number of CPUs  *)
(* and threads, and no lock is kept by a thread that is switched out        *)
(* (lib.c:3-23 and its users).                                              *)
THEOREM NoDeadlock == LocksSpec => []SpinsOnRunning
<1>1. LocksInv => SpinsOnRunning
  <2> SUFFICES ASSUME LocksInv, NEW c \in Cpu, IntrOff(c), Spinning(c)
               PROVE  \E d \in Cpu \ {c} :
                        /\ WaitsOn(c) = Active(d)
                        /\ Spinning(d) => \A e \in Cpu : Spinning(e) => WaitsOn(d) # Active(e)
    BY DEF SpinsOnRunning
  <2> DEFINE L(d) == Head(prog[Active(d)])[2]
             S(d) == ModeOf(Active(d))
  <2>1. ASSUME NEW d \in Cpu, Spinning(d)
        PROVE  /\ L(d) \in LocksOf(Active(d)) /\ L(d) \in Lock
               /\ MayLock(L(d), S(d)) /\ WaitsOn(d) = holder[L(d)] /\ WaitsOn(d) # None
               /\ Active(d) \in Context
    BY <2>1, Contexts, AboutTo DEF Spinning, WaitsOn, LocksOf
  <2>2. \A d \in Cpu : S(d).off = off[Active(d)]
                       /\ S(d).has = {l \in Lock : holder[l] = Active(d)}
    BY DEF ModeOf
  <2> HIDE DEF L, S
  <2>3. L(c) # Section
    <3>1. CASE InIsr(c)
      BY <3>1, <2>1, Contexts DEF Active, LocksOf
    <3>2. CASE ~ InIsr(c)
      <4>1. off[Active(c)] > 0
        BY <3>2 DEF IntrOff, Active
      <4> QED
        BY SMT, <4>1, <2>1, <2>2, Modes DEF MayLock
    <3> QED
      BY <3>1, <3>2
  <2>4. PICK d \in Cpu : WaitsOn(c) = Active(d)
    BY <2>1, <2>3, HolderRuns
  <2>5. L(c) \in S(d).has
    BY <2>1, <2>2, <2>4
  <2>6. d # c
    <3>1. L(c) \notin S(c).has
      BY <2>1, <2>3, LockNames DEF MayLock
    <3> QED
      BY <3>1, <2>5
  <2>7. ASSUME Spinning(d), NEW e \in Cpu, Spinning(e), WaitsOn(d) = Active(e) PROVE FALSE
    <3>1. L(d) \in Inner
      BY <2>1, <2>5, <2>7, Modes DEF MayLock
    <3>2. L(d) \in S(e).has
      BY <2>1, <2>2, <2>7
    <3>3. S(e).has \subseteq Outer
      BY <2>1, <2>7, <3>2, Modes DEF MayLock
    <3> QED
      BY <3>1, <3>2, <3>3, LockNames
  <2> QED
    BY <2>4, <2>6, <2>7
<1> QED
  BY <1>1, LocksInductive, PTL
=============================================================================
