------------------------- MODULE SelectedRun_proofs -------------------------
(***************************************************************************)
(* Proofs about SelectedRun and the operators it is built from, for every  *)
(* command line, every catalog of components and every disk.               *)
(***************************************************************************)
EXTENDS SelectedRun, FiniteSetTheorems, SequenceTheorems, TLAPS

(***************************************************************************)
(* Counting up, and folds.                                                 *)
(***************************************************************************)
\* Induction up to n, over a set: no number is the least that is not in it.
LEMMA CountUp ==
  ASSUME NEW n \in Nat, NEW A, 0 \in A,
         \A k \in 1 .. n : k - 1 \in A => k \in A
  PROVE  \A k \in 0 .. n : k \in A
  <1> SUFFICES ASSUME NEW c \in 0 .. n, c \notin A
               PROVE  FALSE
    OBVIOUS
  <1> DEFINE B == {k \in Nat : k <= n /\ k \notin A}
             R == OpToRel(<, Nat)
  <1>1. IsWellFoundedOn(R, Nat)
    BY NatLessThanWellFounded
  <1>2. c \in B
    OBVIOUS
  <1>3. PICK k \in B : \A j \in B : <<j, k>> \notin R
    <2>1. B \subseteq Nat /\ B # {}
      BY <1>2
    <2> HIDE DEF B, R
    <2> QED
      BY <1>1, <2>1, WFMin
  <1>4. k # 0
    OBVIOUS
  <1>5. k - 1 \in Nat /\ k \in 1 .. n /\ k - 1 < k
    BY <1>4
  <1>6. k - 1 \notin B
    BY <1>3, <1>5 DEF OpToRel
  <1>7. k - 1 \in A
    BY <1>5, <1>6
  <1> QED
    BY <1>5, <1>7

\* The greatest of the first numbers.
LEMMA MaxOfFirst ==
  ASSUME NEW k \in Nat, NEW s \in SUBSET (1 .. k + 1), k + 1 \in s
  PROVE  Max(s) = k + 1
  <1>1. \A y \in s : k + 1 >= y
    OBVIOUS
  <1>2. \A x \in s : (\A y \in s : x >= y) => x = k + 1
    OBVIOUS
  <1> QED
    BY <1>1, <1>2 DEF Max

LEMMA MaxIsIn ==
  ASSUME NEW n \in Nat, NEW s \in SUBSET (1 .. n), s # {}
  PROVE  Max(s) \in s
  <1> DEFINE A == {k \in 0 .. n : \A t \in SUBSET (1 .. k) : t # {} => Max(t) \in t}
  <1>1. 0 \in A
    <2>1. 1 .. 0 = {} /\ 0 \in 0 .. n
      OBVIOUS
    <2>2. \A t \in SUBSET (1 .. 0) : t # {} => Max(t) \in t
      BY <2>1
    <2> QED
      BY <2>1, <2>2
  <1>2. ASSUME NEW k \in 1 .. n, k - 1 \in A
        PROVE  k \in A
    <2>1. PICK j \in Nat : j = k - 1 /\ j + 1 = k
      OBVIOUS
    <2> SUFFICES ASSUME NEW t \in SUBSET (1 .. k), t # {}
                 PROVE  Max(t) \in t
      OBVIOUS
    <2>2. CASE k \in t
      BY <2>1, <2>2, MaxOfFirst
    <2>3. CASE k \notin t
      BY <1>2, <2>1, <2>3
    <2> QED
      BY <2>2, <2>3
  <1>3. n \in A
    <2> HIDE DEF A
    <2>1. \A k \in 0 .. n : k \in A
      BY <1>1, <1>2, CountUp
    <2> QED
      BY <2>1
  <1> QED
    BY <1>3

\* A step of a fold over n positions with values in T; a function that solves
\* the fold's recursion over the sets of positions; one that follows it, as
\* what CHOOSE takes does; and the states it goes through.
Steps(n, T) == [T \X (1 .. n) -> T]
Solves(f, n, T, base, op) ==
  /\ f \in [SUBSET (1 .. n) -> T]
  /\ \A s \in SUBSET (1 .. n) :
       f[s] = IF s = {} THEN base ELSE op[<<f[s \ {Max(s)}], Max(s)>>]
Recurs(iter, n, T, base, op) ==
  /\ iter[{}] = base
  /\ \A s \in SUBSET (1 .. n) :
       s # {} /\ iter[s \ {Max(s)}] \in T
         => iter[s] = op[<<iter[s \ {Max(s)}], Max(s)>>]
Unfolds(st, n, T, base, op) ==
  /\ st \in [0 .. n -> T]
  /\ st[0] = base
  /\ \A i \in 1 .. n : st[i] = op[<<st[i - 1], i>>]

\* The recursion of FoldLeft has a solution: for every step op on a set T of
\* values, there are values for all sets of positions.
LEMMA IterExists ==
  ASSUME NEW n \in Nat, NEW T, NEW base \in T, NEW op \in Steps(n, T)
  PROVE  \E f : Solves(f, n, T, base, op)
  <1> DEFINE A == {k \in 0 .. n : \E f : Solves(f, k, T, base, op)}
  <1>0. op \in [T \X (1 .. n) -> T]
    BY DEF Steps
  <1>1. 0 \in A
    <2> DEFINE f == [s \in SUBSET (1 .. 0) |-> base]
    <2>1. Solves(f, 0, T, base, op) /\ 0 \in 0 .. n
      BY DEF Solves
    <2> HIDE DEF f
    <2> QED
      BY <2>1
  <1>2. ASSUME NEW k \in 1 .. n, k - 1 \in A
        PROVE  k \in A
    <2>1. PICK j \in Nat : j = k - 1 /\ j + 1 = k
      OBVIOUS
    <2>2. PICK f : Solves(f, j, T, base, op)
      BY <1>2, <2>1
    <2>8. /\ f \in [SUBSET (1 .. j) -> T]
          /\ \A s \in SUBSET (1 .. j) :
               f[s] = IF s = {} THEN base ELSE op[<<f[s \ {Max(s)}], Max(s)>>]
      BY <2>2 DEF Solves
    <2> DEFINE g == [s \in SUBSET (1 .. k) |->
                       IF s \in SUBSET (1 .. j) THEN f[s] ELSE op[<<f[s \ {k}], k>>]]
    <2>3. \A s \in SUBSET (1 .. k) : s \notin SUBSET (1 .. j) => k \in s
      BY <2>1
    <2>4. \A s \in SUBSET (1 .. k) : s \ {k} \in SUBSET (1 .. j)
      BY <2>1
    <2>5. g \in [SUBSET (1 .. k) -> T]
      BY <1>0, <2>4, <2>8
    <2>6. ASSUME NEW s \in SUBSET (1 .. k)
          PROVE  g[s] = IF s = {} THEN base ELSE op[<<g[s \ {Max(s)}], Max(s)>>]
      <3>1. CASE s \in SUBSET (1 .. j)
        <4>1. s \ {Max(s)} \in SUBSET (1 .. j) /\ s \ {Max(s)} \in SUBSET (1 .. k)
          BY <3>1
        <4> QED
          BY <2>8, <3>1, <4>1
      <3>2. CASE s \notin SUBSET (1 .. j)
        <4>1. k \in s /\ s # {}
          BY <2>3, <3>2
        <4>2. Max(s) = k
          BY <2>1, <4>1, MaxOfFirst
        <4>3. s \ {k} \in SUBSET (1 .. j) /\ s \ {k} \in SUBSET (1 .. k)
          BY <2>4
        <4> QED
          BY <3>2, <4>1, <4>2, <4>3
      <3> QED
        BY <3>1, <3>2
    <2> HIDE DEF g
    <2>7. Solves(g, k, T, base, op)
      BY <2>5, <2>6 DEF Solves
    <2> QED
      BY <2>7
  <1>3. n \in A
    <2> HIDE DEF A
    <2>1. \A k \in 0 .. n : k \in A
      BY <1>1, <1>2, CountUp
    <2> QED
      BY <2>1
  <1> QED
    BY <1>3

\* What follows such a recursion takes on the values of a sequence of states.
LEMMA IterUnrolls ==
  ASSUME NEW n \in Nat, NEW T, NEW base \in T, NEW op \in Steps(n, T),
         NEW iter, Recurs(iter, n, T, base, op)
  PROVE  \E st : Unfolds(st, n, T, base, op) /\ iter[1 .. n] = st[n]
  <1> DEFINE st == [k \in 0 .. n |-> iter[1 .. k]]
             A == {k \in 0 .. n : st[k] \in T}
  <1>1. st[0] = base
    <2>1. 1 .. 0 = {}
      OBVIOUS
    <2> QED
      BY <2>1 DEF Recurs
  <1>2. ASSUME NEW i \in 1 .. n, st[i - 1] \in T
        PROVE  st[i] = op[<<st[i - 1], i>>]
    <2>1. PICK j \in Nat : j = i - 1 /\ j + 1 = i
      OBVIOUS
    <2>2. 1 .. i \in SUBSET (1 .. n) /\ i \in 1 .. i /\ 1 .. i # {}
      OBVIOUS
    <2>3. Max(1 .. i) = i
      BY <2>1, <2>2, MaxOfFirst
    <2>4. (1 .. i) \ {i} = 1 .. j /\ j \in 0 .. n
      BY <2>1
    <2>5. st[i - 1] = iter[1 .. j] /\ st[i] = iter[1 .. i]
      BY <2>1, <2>4
    <2> HIDE DEF st
    <2> QED
      BY <1>2, <2>2, <2>3, <2>4, <2>5 DEF Recurs
  <1>3. \A k \in 0 .. n : k \in A
    <2>1. 0 \in A
      BY <1>1
    <2>2. ASSUME NEW k \in 1 .. n, k - 1 \in A
          PROVE  k \in A
      <3>0. op \in [T \X (1 .. n) -> T]
        BY DEF Steps
      <3>1. st[k] = op[<<st[k - 1], k>>]
        BY <1>2, <2>2
      <3> HIDE DEF st
      <3> QED
        BY <2>2, <3>0, <3>1
    <2> HIDE DEF A
    <2> QED
      BY <2>1, <2>2, CountUp
  <1>4. \A k \in 0 .. n : st[k] \in T
    BY <1>3
  <1>5. st \in [0 .. n -> T]
    BY <1>4
  <1>6. \A i \in 1 .. n : st[i] = op[<<st[i - 1], i>>]
    <2> SUFFICES ASSUME NEW i \in 1 .. n
                 PROVE  st[i] = op[<<st[i - 1], i>>]
      OBVIOUS
    <2>1. i - 1 \in 0 .. n
      OBVIOUS
    <2> HIDE DEF st
    <2> QED
      BY <1>2, <1>4, <2>1
  <1>7. iter[1 .. n] = st[n]
    OBVIOUS
  <1> HIDE DEF st
  <1> QED
    BY <1>1, <1>5, <1>6, <1>7 DEF Unfolds

(***************************************************************************)
(* The switches.                                                           *)
(***************************************************************************)
\* No switch is in a table twice, so a table gives each its option.
LEMMA SwitchTables ==
  /\ DOMAIN TurnsOn = {r[1] : r \in OnSwitches}
  /\ DOMAIN TurnsOff = {r[1] : r \in OffSwitches}
  /\ \A r \in OnSwitches : TurnsOn[r[1]] = r[2]
  /\ \A r \in OffSwitches : TurnsOff[r[1]] = r[2]
  <1>1. \A r, q \in OnSwitches : r[1] = q[1] => r = q
    BY SMTT(60) DEF OnSwitches
  <1>2. \A r, q \in OffSwitches : r[1] = q[1] => r = q
    BY SMTT(60) DEF OffSwitches
  <1>3. ASSUME NEW r \in OnSwitches
        PROVE  TurnsOn[r[1]] = r[2]
    <2>1. \A q \in OnSwitches : q[1] = r[1] => q = r
      BY <1>1
    <2> QED
      BY <2>1 DEF TurnsOn, Table
  <1>4. ASSUME NEW r \in OffSwitches
        PROVE  TurnsOff[r[1]] = r[2]
    <2>1. \A q \in OffSwitches : q[1] = r[1] => q = r
      BY <1>2
    <2> QED
      BY <2>1 DEF TurnsOff, Table
  <1> QED
    BY <1>3, <1>4 DEF TurnsOn, TurnsOff, Table

\* A word is of one kind.
LEMMA KindsOfWords ==
  /\ \A f \in DOMAIN TurnsOn : f \notin DOMAIN TurnsOff
  /\ \A f \in DOMAIN TurnsOn \cup DOMAIN TurnsOff :
       f \notin TextFlags \cup {"text", "none", "--component", "--ti-wait-seconds="}
  /\ \A f \in TextFlags : f \notin {"text", "none", "--component", "--ti-wait-seconds="}
  <1>1. \A r \in OnSwitches, q \in OffSwitches : r[1] # q[1]
    BY SMTT(60) DEF OnSwitches, OffSwitches
  <1>2. \A r \in OnSwitches :
          r[1] \notin TextFlags \cup {"text", "none", "--component", "--ti-wait-seconds="}
    BY SMTT(60) DEF OnSwitches, TextFlags
  <1>3. \A r \in OffSwitches :
          r[1] \notin TextFlags \cup {"text", "none", "--component", "--ti-wait-seconds="}
    BY SMTT(60) DEF OffSwitches, TextFlags
  <1>4. \A f \in TextFlags : f \notin {"text", "none", "--component", "--ti-wait-seconds="}
    BY DEF TextFlags
  <1> QED
    BY <1>1, <1>2, <1>3, <1>4, SwitchTables

\* The options a command line starts from, and those the switches change.
LEMMA OptionTypes ==
  /\ DefaultOptions \in OptionsType /\ WizardOptions \in OptionsType
  /\ \A f \in DOMAIN TurnsOn : TurnsOn[f] \in OptionNames
  <1>1. /\ <<"--menu", "menu">> \in OnSwitches
        /\ <<"--execute", "execute">> \in OnSwitches
        /\ <<"--kill-lockers", "kill">> \in OnSwitches
        /\ <<"--disable-services", "disableServices">> \in OnSwitches
        /\ <<"--delete-scheduled-tasks", "deleteTasks">> \in OnSwitches
        /\ <<"--disable-scheduled-tasks", "disableTasks">> \in OnSwitches
        /\ <<"--schedule-reboot-delete", "schedule">> \in OnSwitches
        /\ <<"--preserve-nvcontainers=on", "preserve">> \in OnSwitches
    BY SMTT(60) DEF OnSwitches
  <1>2. \A r \in OnSwitches : r[2] \in OptionNames
    BY SwitchTables DEF OptionNames
  <1>3. {"menu", "execute", "kill", "disableServices", "deleteTasks", "disableTasks",
         "schedule", "preserve", "relaunch", "wizard"} \subseteq OptionNames
    BY <1>1, <1>2 DEF OptionNames
  <1>4. [f \in TextFlags |-> "none"] \in [TextFlags -> Texts]
    BY TextsAssumption
  <1>5. DefaultOptions \in OptionsType
    BY <1>3, <1>4 DEF DefaultOptions, OptionsType
  <1>6. WizardOptions \in OptionsType
    BY <1>3, <1>5 DEF WizardOptions, OptionsType
  <1> QED
    BY <1>5, <1>6 DEF OptionNames

(***************************************************************************)
(* The loop of parse_args.                                                 *)
(***************************************************************************)
Awaited == TextFlags \cup {"none"}
ParseStates == [opt : OptionsType, awaits : Awaited]

\* What the loop starts with.
Started(line) == [opt |-> IF line = <<>> THEN WizardOptions ELSE DefaultOptions,
                  awaits |-> "none"]

\* A word the loop understands where no value is expected.
Known(a) ==
  \/ a.flag \in DOMAIN TurnsOn \cup DOMAIN TurnsOff \cup TextFlags \cup {"--component"}
  \/ a.flag = "--ti-wait-seconds=" /\ a.value = "integer"

\* One turn of the loop where no value is expected.
LEMMA SwitchRead ==
  ASSUME NEW s \in ParseStates, NEW a \in Words, s.awaits = "none"
  PROVE  LET r == ReadArg(s, a) IN
         /\ r \in ParseStates
         /\ r.awaits = IF a.flag \in TextFlags THEN a.flag ELSE "none"
         /\ r.opt.on = IF a.flag \in DOMAIN TurnsOn THEN s.opt.on \cup {TurnsOn[a.flag]}
                       ELSE IF a.flag \in DOMAIN TurnsOff
                            THEN s.opt.on \ {TurnsOff[a.flag]} ELSE s.opt.on
         /\ r.opt.wait = IF a.flag = "--ti-wait-seconds=" /\ a.value = "integer"
                         THEN Clamp(a.number) ELSE s.opt.wait
         /\ r.opt.text = s.opt.text
         /\ r.opt.bad <=> s.opt.bad \/ ~Known(a)
  <1>1. /\ s.opt \in OptionsType /\ ReadArg(s, a) = ReadSwitch(s, a)
        /\ s = [opt |-> s.opt, awaits |-> "none"] /\ a.number \in Int
    BY DEF ParseStates, ReadArg, Words
  <1>2. CASE a.flag \in DOMAIN TurnsOn
    <2>1. ReadArg(s, a) = [s EXCEPT !.opt.on = @ \cup {TurnsOn[a.flag]}]
      BY <1>1, <1>2, KindsOfWords DEF ReadSwitch
    <2> QED
      BY <1>1, <1>2, <2>1, KindsOfWords, OptionTypes
      DEF ParseStates, OptionsType, Awaited, Known
  <1>3. CASE a.flag \in DOMAIN TurnsOff
    <2>1. ReadArg(s, a) = [s EXCEPT !.opt.on = @ \ {TurnsOff[a.flag]}]
      BY <1>1, <1>3, KindsOfWords DEF ReadSwitch
    <2>2. s.opt.on \ {TurnsOff[a.flag]} \in SUBSET OptionNames
      BY <1>1 DEF OptionsType
    <2>3. /\ a.flag \notin TextFlags /\ a.flag \notin DOMAIN TurnsOn
          /\ a.flag # "--ti-wait-seconds=" /\ Known(a)
      BY <1>3, KindsOfWords DEF Known
    <2>4. /\ ReadArg(s, a) \in ParseStates
          /\ ReadArg(s, a).awaits = "none"
          /\ ReadArg(s, a).opt.on = s.opt.on \ {TurnsOff[a.flag]}
          /\ ReadArg(s, a).opt.wait = s.opt.wait /\ ReadArg(s, a).opt.text = s.opt.text
          /\ ReadArg(s, a).opt.bad = s.opt.bad
      BY <1>1, <2>1, <2>2 DEF ParseStates, OptionsType, Awaited
    <2> QED
      BY <1>3, <2>3, <2>4, Zenon
  <1>4. CASE a.flag \in TextFlags
    <2>1. ReadArg(s, a) = [s EXCEPT !.awaits = a.flag]
      BY <1>1, <1>4, KindsOfWords DEF ReadSwitch
    <2> QED
      BY <1>1, <1>4, <2>1, KindsOfWords
      DEF ParseStates, OptionsType, Awaited, Known
  <1>5. CASE a.flag = "--ti-wait-seconds=" /\ a.value = "integer"
    <2>1. ReadArg(s, a) = [s EXCEPT !.opt.wait = Clamp(a.number)]
      BY <1>1, <1>5, KindsOfWords DEF ReadSwitch
    <2>2. Clamp(a.number) \in Int
      BY <1>1 DEF Clamp, TiWaitMin, TiWaitMax
    <2> QED
      BY <1>1, <1>5, <2>1, <2>2, KindsOfWords
      DEF ParseStates, OptionsType, Awaited, Known
  <1>6. CASE a.flag = "--component"
    <2>1. ReadArg(s, a) = s
      BY <1>1, <1>6, KindsOfWords DEF ReadSwitch
    <2> QED
      BY <1>1, <1>6, <2>1, KindsOfWords
      DEF ParseStates, OptionsType, Awaited, Known
  <1>7. CASE ~Known(a)
    <2>1. ReadArg(s, a) = [s EXCEPT !.opt.bad = TRUE]
      BY <1>1, <1>7 DEF ReadSwitch, Known
    <2>2. /\ ReadArg(s, a) \in ParseStates
          /\ ReadArg(s, a).awaits = "none" /\ ReadArg(s, a).opt.on = s.opt.on
          /\ ReadArg(s, a).opt.wait = s.opt.wait /\ ReadArg(s, a).opt.text = s.opt.text
      BY <1>1, <2>1, ZenonT(30) DEF ParseStates, OptionsType
    <2>3. ReadArg(s, a).opt.bad = TRUE
      BY <1>1, <2>1 DEF OptionsType
    <2>4. /\ a.flag \notin TextFlags
          /\ a.flag \notin DOMAIN TurnsOn /\ a.flag \notin DOMAIN TurnsOff
          /\ ~(a.flag = "--ti-wait-seconds=" /\ a.value = "integer")
      BY <1>7 DEF Known
    <2> QED
      BY <1>7, <2>2, <2>3, <2>4, Zenon
  <1> QED
    BY <1>2, <1>3, <1>4, <1>5, <1>6, <1>7 DEF Known

\* One turn where a value is expected.
LEMMA ValueRead ==
  ASSUME NEW s \in ParseStates, NEW a \in Words, s.awaits # "none"
  PROVE  LET r == ReadArg(s, a) IN
         /\ r \in ParseStates
         /\ r.awaits = "none"
         /\ r.opt.on = s.opt.on /\ r.opt.wait = s.opt.wait
         /\ r.opt.text = IF a.flag = "text"
                         THEN [s.opt.text EXCEPT ![s.awaits] = a.value] ELSE s.opt.text
         /\ r.opt.bad <=> s.opt.bad \/ a.flag # "text"
  <1>1. /\ s.opt \in OptionsType /\ s.awaits \in TextFlags /\ a.value \in Texts
        /\ ReadArg(s, a) = ReadValue(s, a)
    BY DEF ParseStates, Awaited, ReadArg, Words
  <1>2. CASE a.flag = "text"
    <2>1. ReadArg(s, a) = [opt |-> [s.opt EXCEPT !.text[s.awaits] = a.value],
                           awaits |-> "none"]
      BY <1>1, <1>2 DEF ReadValue
    <2> QED
      BY <1>1, <1>2, <2>1 DEF ParseStates, OptionsType, Awaited
  <1>3. CASE a.flag # "text"
    <2>1. ReadArg(s, a) = [opt |-> [s.opt EXCEPT !.bad = TRUE], awaits |-> "none"]
      BY <1>1, <1>3 DEF ReadValue
    <2>2. PICK o \in OptionsType : o = [s.opt EXCEPT !.bad = TRUE]
      BY <1>1 DEF OptionsType
    <2>3. /\ ReadArg(s, a) \in ParseStates
          /\ ReadArg(s, a).awaits = "none" /\ ReadArg(s, a).opt.on = s.opt.on
          /\ ReadArg(s, a).opt.wait = s.opt.wait /\ ReadArg(s, a).opt.text = s.opt.text
      <3>1. o.on = s.opt.on /\ o.wait = s.opt.wait /\ o.text = s.opt.text
        BY <1>1, <2>2 DEF OptionsType
      <3>2. ReadArg(s, a) = [opt |-> o, awaits |-> "none"] /\ "none" \in Awaited
        BY <2>1, <2>2 DEF Awaited
      <3> QED
        BY <3>1, <3>2 DEF ParseStates
    <2>4. ReadArg(s, a).opt.bad = TRUE
      BY <1>1, <2>1 DEF OptionsType
    <2> QED
      BY <1>3, <2>3, <2>4, Zenon
  <1> QED
    BY <1>2, <1>3

\* The loop as a sequence of states, one for each argument read.
LEMMA ParseLoop ==
  ASSUME NEW n \in Nat, NEW line, DOMAIN line = 1 .. n, NEW start \in ParseStates,
         \A s \in ParseStates, i \in 1 .. n : ReadArg(s, line[i]) \in ParseStates
  PROVE  \E st \in [0 .. n -> ParseStates] :
           /\ st[0] = start
           /\ \A i \in 1 .. n : st[i] = ReadArg(st[i - 1], line[i])
           /\ FoldLeft(ReadArg, start, line) = st[n]
  <1> DEFINE op == [x \in ParseStates \X (1 .. n) |-> ReadArg(x[1], line[x[2]])]
  <1>1. op \in Steps(n, ParseStates)
    BY DEF Steps
  <1>2. \A s \in ParseStates, i \in 1 .. n : op[<<s, i>>] = ReadArg(s, line[i])
    OBVIOUS
  <1> HIDE DEF op
  <1>3. PICK g : Solves(g, n, ParseStates, start, op)
    BY <1>1, IterExists
  <1> DEFINE Step(f, s) == IF s = {} THEN start
                           ELSE ReadArg(f[s \ {Max(s)}], line[Max(s)])
             Is(f) == f = [s \in SUBSET (1 .. n) |-> Step(f, s)]
             iter == CHOOSE f : Is(f)
  <1>4. \A s \in SUBSET (1 .. n) : s # {} =>
          Max(s) \in 1 .. n /\ s \ {Max(s)} \in SUBSET (1 .. n)
    BY MaxIsIn
  <1>5. ASSUME NEW s \in SUBSET (1 .. n)
        PROVE  g[s] = Step(g, s)
    BY <1>2, <1>3, <1>4 DEF Solves
  <1>6. Is(g)
    BY <1>3, <1>5 DEF Solves
  <1>7. Is(iter)
    <2> HIDE DEF Is
    <2> QED
      BY <1>6
  <1>8. FoldLeft(ReadArg, start, line) = iter[1 .. n]
    BY DEF FoldLeft, MapThenFoldSet
  <1> HIDE DEF iter
  <1>9. \A s \in SUBSET (1 .. n) : iter[s] = Step(iter, s)
    BY <1>7
  <1>10. iter[{}] = start
    BY <1>9
  <1>11. Recurs(iter, n, ParseStates, start, op)
    BY <1>2, <1>4, <1>9, <1>10 DEF Recurs
  <1>12. PICK st : Unfolds(st, n, ParseStates, start, op) /\ iter[1 .. n] = st[n]
    BY <1>1, <1>11, IterUnrolls
  <1>13. \A i \in 1 .. n : st[i - 1] \in ParseStates
    <2>1. \A i \in 1 .. n : i - 1 \in 0 .. n
      OBVIOUS
    <2> QED
      BY <1>12, <2>1 DEF Unfolds
  <1>14. \A i \in 1 .. n : st[i] = ReadArg(st[i - 1], line[i])
    BY <1>2, <1>12, <1>13 DEF Unfolds
  <1> QED
    BY <1>8, <1>12, <1>14 DEF Unfolds

\* The loop on a command line, and what parse_args makes of it.
LEMMA ParseUnfolds ==
  ASSUME NEW line \in Seq(Words)
  PROVE  \E st \in [0 .. Len(line) -> ParseStates] :
           /\ st[0] = Started(line)
           /\ \A i \in 1 .. Len(line) : st[i] = ReadArg(st[i - 1], line[i])
           /\ ParseArgs(line) = [st[Len(line)].opt EXCEPT
                                   !.bad = @ \/ st[Len(line)].awaits # "none"]
  <1>1. Len(line) \in Nat /\ DOMAIN line = 1 .. Len(line)
        /\ \A i \in 1 .. Len(line) : line[i] \in Words
    BY LenProperties, ElementOfSeq
  <1>2. \A s \in ParseStates, a \in Words : ReadArg(s, a) \in ParseStates
    BY SwitchRead, ValueRead
  <1>3. Started(line) \in ParseStates
    BY OptionTypes DEF Started, ParseStates, Awaited
  <1>4. \A s \in ParseStates, i \in 1 .. Len(line) : ReadArg(s, line[i]) \in ParseStates
    BY <1>1, <1>2
  <1>5. PICK st \in [0 .. Len(line) -> ParseStates] :
          /\ st[0] = Started(line)
          /\ \A i \in 1 .. Len(line) : st[i] = ReadArg(st[i - 1], line[i])
          /\ FoldLeft(ReadArg, Started(line), line) = st[Len(line)]
    <2>1. ASSUME NEW n \in Nat, n = Len(line)
          PROVE  \E st \in [0 .. n -> ParseStates] :
                   /\ st[0] = Started(line)
                   /\ \A i \in 1 .. n : st[i] = ReadArg(st[i - 1], line[i])
                   /\ FoldLeft(ReadArg, Started(line), line) = st[n]
      <3>1. DOMAIN line = 1 .. n
        BY <1>1, <2>1
      <3>2. \A s \in ParseStates, i \in 1 .. n : ReadArg(s, line[i]) \in ParseStates
        BY <1>4, <2>1
      <3> QED
        BY <1>3, <3>1, <3>2, ParseLoop, ZenonT(120)
    <2> QED
      BY <1>1, <2>1
  <1>6. ParseArgs(line) = [st[Len(line)].opt EXCEPT
                             !.bad = @ \/ st[Len(line)].awaits # "none"]
    BY <1>5 DEF ParseArgs, Started
  <1> QED
    BY <1>5, <1>6

\* What the loop asks of the word at place i.
Taken(line, i) == i > 1 /\ line[i - 1].flag \in TextFlags
Fits(line, i) ==
  /\ Taken(line, i) <=> line[i].flag = "text"
  /\ line[i].flag = "--ti-wait-seconds=" => line[i].value = "integer"
  /\ line[i].flag \in DOMAIN TurnsOn \cup DOMAIN TurnsOff \cup TextFlags
                      \cup {"text", "--component", "--ti-wait-seconds="}

\* The loop has found no fault in the words read so far exactly if each of them
\* fits, and then it awaits what the last of them asks for.
LEMMA FaultsFound ==
  ASSUME NEW line \in Seq(Words), NEW st \in [0 .. Len(line) -> ParseStates],
         st[0] = Started(line),
         \A i \in 1 .. Len(line) : st[i] = ReadArg(st[i - 1], line[i])
  PROVE  \A n \in 0 .. Len(line) :
           /\ ~st[n].opt.bad <=> \A i \in 1 .. n : Fits(line, i)
           /\ ~st[n].opt.bad =>
                st[n].awaits = IF Taken(line, n + 1) THEN line[n].flag ELSE "none"
  <1> DEFINE Good(n) ==
               /\ ~st[n].opt.bad <=> \A i \in 1 .. n : Fits(line, i)
               /\ ~st[n].opt.bad =>
                    st[n].awaits = IF Taken(line, n + 1) THEN line[n].flag ELSE "none"
             A == {n \in 0 .. Len(line) : Good(n)}
  <1>1. Len(line) \in Nat
    BY LenProperties
  <1>2. 0 \in A
    <2>1. ~st[0].opt.bad /\ st[0].awaits = "none"
      BY DEF Started, DefaultOptions, WizardOptions
    <2>2. ~Taken(line, 0 + 1)
      BY DEF Taken
    <2> QED
      BY <1>1, <2>1, <2>2
  <1>3. ASSUME NEW n \in 1 .. Len(line), n - 1 \in A
        PROVE  n \in A
    <2>1. PICK j \in 0 .. Len(line) : j = n - 1 /\ j + 1 = n
      BY <1>1
    <2>2. Good(j) /\ st[j] \in ParseStates /\ line[n] \in Words
      BY <1>1, <1>3, <2>1, ElementOfSeq
    <2>3. st[n] = ReadArg(st[j], line[n])
      BY <2>1
    <2>4. \A i \in 1 .. n : i \in 1 .. j \/ i = n
      BY <2>1
    <2>5. CASE st[j].opt.bad
      <3>1. st[n].opt.bad
        BY <2>2, <2>3, <2>5, SwitchRead, ValueRead
      <3>2. ~\A i \in 1 .. n : Fits(line, i)
        BY <2>1, <2>2, <2>5
      <3> QED
        BY <3>1, <3>2
    <2>6. CASE ~st[j].opt.bad /\ Taken(line, n)
      <3>1. st[j].awaits # "none"
        BY <2>1, <2>2, <2>6, KindsOfWords DEF Taken
      <3>2. st[n].awaits = "none" /\ (~st[n].opt.bad <=> line[n].flag = "text")
        <4>1. /\ ReadArg(st[j], line[n]).awaits = "none"
              /\ ReadArg(st[j], line[n]).opt.bad
                   <=> st[j].opt.bad \/ line[n].flag # "text"
          BY <2>2, <3>1, ValueRead
        <4> QED
          BY <2>3, <2>6, <4>1, Zenon
      <3>3. Fits(line, n) <=> line[n].flag = "text"
        BY <2>6, KindsOfWords DEF Fits
      <3>4. line[n].flag = "text" => ~Taken(line, n + 1)
        BY KindsOfWords DEF Taken
      <3> QED
        BY <2>1, <2>2, <2>4, <2>6, <3>2, <3>3, <3>4
    <2>7. CASE ~st[j].opt.bad /\ ~Taken(line, n)
      <3>1. st[j].awaits = "none"
        BY <2>1, <2>2, <2>7
      <3>2. /\ st[n].awaits = IF line[n].flag \in TextFlags THEN line[n].flag ELSE "none"
            /\ ~st[n].opt.bad <=> Known(line[n])
        <4>1. /\ ReadArg(st[j], line[n]).awaits =
                   IF line[n].flag \in TextFlags THEN line[n].flag ELSE "none"
              /\ ReadArg(st[j], line[n]).opt.bad <=> st[j].opt.bad \/ ~Known(line[n])
          BY <2>2, <3>1, SwitchRead
        <4> QED
          BY <2>3, <2>7, <4>1, Zenon
      <3>3. Fits(line, n) <=> Known(line[n])
        BY <2>7, KindsOfWords DEF Fits, Known
      <3>4. Taken(line, n + 1) <=> line[n].flag \in TextFlags
        BY <2>1 DEF Taken
      <3> QED
        BY <2>1, <2>2, <2>4, <2>7, <3>2, <3>3, <3>4
    <2> QED
      BY <2>5, <2>6, <2>7
  <1>4. \A n \in 0 .. Len(line) : n \in A
    <2> HIDE DEF A
    <2> QED
      BY <1>1, <1>2, <1>3, CountUp
  <1> QED
    BY <1>4

\* Understood says of a whole line what Fits says of its words, with the
\* component arguments and the end of the line.
LEMMA UnderstoodParts ==
  ASSUME NEW line \in Seq(Words)
  PROVE  Understood(line) <=>
           /\ \A i \in 1 .. Len(line) : Fits(line, i)
           /\ ~Taken(line, Len(line) + 1)
           /\ \A i \in 1 .. Len(line) : ~BadComponentArg(line[i])
  <1>1. Len(line) \in Nat /\ DOMAIN line = 1 .. Len(line)
    BY LenProperties
  <1>2. ASSUME NEW i \in 1 .. Len(line)
        PROVE  BadComponentArg(line[i]) <=>
                 ~(line[i].flag = "--component" =>
                     line[i].key \in Components /\ line[i].value \in {"on", "off"})
    BY DEF BadComponentArg, IsComponentArg
  <1>3. ~Taken(line, Len(line) + 1) <=>
          \A i \in 1 .. Len(line) : line[i].flag \in TextFlags => i < Len(line)
    <2>1. CASE Len(line) = 0
      BY <1>1, <2>1 DEF Taken
    <2>2. CASE Len(line) # 0
      <3>1. Len(line) \in 1 .. Len(line) /\ Len(line) + 1 > 1
            /\ Len(line) + 1 - 1 = Len(line)
        BY <1>1, <2>2, SMTT(30)
      <3>2. \A i \in 1 .. Len(line) : i = Len(line) \/ i < Len(line)
        <4>1. \A n \in Nat : \A i \in 1 .. n : i = n \/ i < n
          OBVIOUS
        <4> QED
          BY <1>1, <4>1
      <3>3. ~(Len(line) < Len(line))
        BY <1>1
      <3>4. Taken(line, Len(line) + 1) <=> line[Len(line)].flag \in TextFlags
        BY <3>1 DEF Taken
      <3> QED
        BY <3>1, <3>2, <3>3, <3>4
    <2> QED
      BY <2>1, <2>2
  <1>4. ASSUME Understood(line)
        PROVE  /\ \A i \in 1 .. Len(line) : Fits(line, i)
               /\ \A i \in 1 .. Len(line) : line[i].flag \in TextFlags => i < Len(line)
               /\ \A i \in 1 .. Len(line) : ~BadComponentArg(line[i])
    BY <1>1, <1>2, <1>4 DEF Understood, Fits, Taken
  <1>5. ASSUME \A i \in 1 .. Len(line) : Fits(line, i),
               \A i \in 1 .. Len(line) : line[i].flag \in TextFlags => i < Len(line),
               \A i \in 1 .. Len(line) : ~BadComponentArg(line[i])
        PROVE  Understood(line)
    BY <1>1, <1>2, <1>5 DEF Understood, Fits, Taken
  <1> QED
    BY <1>3, <1>4, <1>5

\* A process finds no fault in its command line exactly if every word of the
\* line is understood, each by itself and with its neighbours.
LEMMA ParserIsStrict ==
  ASSUME NEW line \in Seq(Words)
  PROVE  /\ Configured(line).opt.bad \in BOOLEAN
         /\ ~Configured(line).opt.bad <=> Understood(line)
  <1> DEFINE n == Len(line)
             p == ParseArgs(line)
             bad == \E i \in DOMAIN line : BadComponentArg(line[i])
  <1>1. n \in Nat /\ DOMAIN line = 1 .. n
    BY LenProperties
  <1>2. PICK st \in [0 .. n -> ParseStates] :
          /\ st[0] = Started(line)
          /\ \A i \in 1 .. n : st[i] = ReadArg(st[i - 1], line[i])
          /\ p = [st[n].opt EXCEPT !.bad = @ \/ st[n].awaits # "none"]
    BY ParseUnfolds
  <1>3. st[n].opt \in OptionsType
    BY <1>1, <1>2 DEF ParseStates
  <1>4. p \in OptionsType /\ (p.bad <=> st[n].opt.bad \/ st[n].awaits # "none")
    BY <1>2, <1>3 DEF OptionsType
  <1>5. /\ ~st[n].opt.bad <=> \A i \in 1 .. n : Fits(line, i)
        /\ ~st[n].opt.bad =>
             st[n].awaits = IF Taken(line, n + 1) THEN line[n].flag ELSE "none"
    BY <1>1, <1>2, FaultsFound
  <1>6. Taken(line, n + 1) => line[n].flag # "none"
    <2>1. n + 1 - 1 = n
      BY <1>1
    <2> QED
      BY <2>1, KindsOfWords DEF Taken
  <1>7. Configured(line).opt = [p EXCEPT !.bad = @ \/ bad]
    BY DEF Configured
  <1> HIDE DEF p
  <1>8. /\ Configured(line).opt.bad \in BOOLEAN
        /\ Configured(line).opt.bad <=> p.bad \/ bad
    BY <1>4, <1>7 DEF OptionsType
  <1>9. bad <=> ~\A i \in 1 .. n : ~BadComponentArg(line[i])
    BY <1>1
  <1> HIDE DEF bad
  <1>10. p.bad <=> ~((\A i \in 1 .. n : Fits(line, i)) /\ ~Taken(line, n + 1))
    BY <1>4, <1>5, <1>6, Zenon
  <1> QED
    BY <1>8, <1>9, <1>10, UnderstoodParts, Zenon

\* The loop on a line it understands.
LEMMA UnderstoodLoop ==
  ASSUME NEW line \in Seq(Words), Understood(line)
  PROVE  \E st \in [0 .. Len(line) -> ParseStates] :
           /\ st[0] = Started(line)
           /\ ParseArgs(line) \in OptionsType
           /\ ParseArgs(line).on = st[Len(line)].opt.on
           /\ ParseArgs(line).wait = st[Len(line)].opt.wait
           /\ ParseArgs(line).text = st[Len(line)].opt.text
           /\ \A i \in 1 .. Len(line) :
                /\ st[i].opt.on =
                     IF line[i].flag \in DOMAIN TurnsOn
                     THEN st[i - 1].opt.on \cup {TurnsOn[line[i].flag]}
                     ELSE IF line[i].flag \in DOMAIN TurnsOff
                          THEN st[i - 1].opt.on \ {TurnsOff[line[i].flag]}
                          ELSE st[i - 1].opt.on
                /\ st[i].opt.wait =
                     IF line[i].flag = "--ti-wait-seconds=" THEN Clamp(line[i].number)
                     ELSE st[i - 1].opt.wait
                /\ st[i].opt.text =
                     IF Taken(line, i)
                     THEN [st[i - 1].opt.text EXCEPT ![line[i - 1].flag] = line[i].value]
                     ELSE st[i - 1].opt.text
  <1> DEFINE n == Len(line)
  <1>1. n \in Nat /\ \A i \in 1 .. n : line[i] \in Words
    BY LenProperties, ElementOfSeq
  <1>2. PICK st \in [0 .. n -> ParseStates] :
          /\ st[0] = Started(line)
          /\ \A i \in 1 .. n : st[i] = ReadArg(st[i - 1], line[i])
          /\ ParseArgs(line) = [st[n].opt EXCEPT !.bad = @ \/ st[n].awaits # "none"]
    BY ParseUnfolds
  <1>3. st[n].opt \in OptionsType
    BY <1>1, <1>2 DEF ParseStates
  <1>4. /\ ParseArgs(line) \in OptionsType
        /\ ParseArgs(line).on = st[n].opt.on
        /\ ParseArgs(line).wait = st[n].opt.wait
        /\ ParseArgs(line).text = st[n].opt.text
    BY <1>2, <1>3 DEF OptionsType
  <1>5. \A i \in 1 .. n : Fits(line, i)
    BY UnderstoodParts
  <1>6. ASSUME NEW i \in 1 .. n
        PROVE  /\ st[i].opt.on =
                     IF line[i].flag \in DOMAIN TurnsOn
                     THEN st[i - 1].opt.on \cup {TurnsOn[line[i].flag]}
                     ELSE IF line[i].flag \in DOMAIN TurnsOff
                          THEN st[i - 1].opt.on \ {TurnsOff[line[i].flag]}
                          ELSE st[i - 1].opt.on
               /\ st[i].opt.wait =
                     IF line[i].flag = "--ti-wait-seconds=" THEN Clamp(line[i].number)
                     ELSE st[i - 1].opt.wait
               /\ st[i].opt.text =
                     IF Taken(line, i)
                     THEN [st[i - 1].opt.text EXCEPT ![line[i - 1].flag] = line[i].value]
                     ELSE st[i - 1].opt.text
    <2>1. PICK j \in 0 .. n : j = i - 1 /\ j + 1 = i
      BY <1>1
    <2>2. st[i] = ReadArg(st[j], line[i]) /\ st[j] \in ParseStates /\ line[i] \in Words
      BY <1>1, <1>2, <2>1
    <2>3. st[j].awaits = IF Taken(line, i) THEN line[j].flag ELSE "none"
      <3>1. \A k \in 1 .. j : Fits(line, k)
        BY <1>1, <1>5, <2>1
      <3>2. /\ ~st[j].opt.bad <=> \A k \in 1 .. j : Fits(line, k)
            /\ ~st[j].opt.bad =>
                 st[j].awaits = IF Taken(line, j + 1) THEN line[j].flag ELSE "none"
        BY <1>2, FaultsFound
      <3>3. ~st[j].opt.bad
        BY <3>1, <3>2, Zenon
      <3> QED
        BY <2>1, <3>2, <3>3
    <2>4. CASE Taken(line, i)
      <3>1. line[j].flag # "none" /\ line[i].flag = "text"
        BY <1>5, <2>1, <2>4, KindsOfWords DEF Taken, Fits
      <3>2. /\ line[i].flag \notin DOMAIN TurnsOn \cup DOMAIN TurnsOff
            /\ line[i].flag # "--ti-wait-seconds="
        BY <3>1, KindsOfWords
      <3>3. /\ ReadArg(st[j], line[i]).opt.on = st[j].opt.on
            /\ ReadArg(st[j], line[i]).opt.wait = st[j].opt.wait
            /\ ReadArg(st[j], line[i]).opt.text =
                 [st[j].opt.text EXCEPT ![st[j].awaits] = line[i].value]
        BY <2>2, <2>3, <2>4, <3>1, ValueRead
      <3> QED
        BY <2>1, <2>2, <2>3, <2>4, <3>2, <3>3
    <2>5. CASE ~Taken(line, i)
      <3>1. line[i].flag = "--ti-wait-seconds=" => line[i].value = "integer"
        BY <1>5 DEF Fits
      <3>2. st[j].awaits = "none"
        BY <2>3, <2>5
      <3>3. PICK r : r = ReadArg(st[j], line[i])
        OBVIOUS
      <3>4. /\ r.opt.on = IF line[i].flag \in DOMAIN TurnsOn
                          THEN st[j].opt.on \cup {TurnsOn[line[i].flag]}
                          ELSE IF line[i].flag \in DOMAIN TurnsOff
                               THEN st[j].opt.on \ {TurnsOff[line[i].flag]}
                               ELSE st[j].opt.on
            /\ r.opt.wait = IF line[i].flag = "--ti-wait-seconds=" /\ line[i].value = "integer"
                            THEN Clamp(line[i].number) ELSE st[j].opt.wait
            /\ r.opt.text = st[j].opt.text
        BY <2>2, <3>2, <3>3, SwitchRead, Zenon
      <3>5. st[i] = r
        BY <2>2, <3>3
      <3> HIDE <2>2
      <3> QED
        BY <2>1, <2>5, <3>1, <3>4, <3>5
    <2> QED
      BY <2>4, <2>5
  <1> QED
    BY <1>2, <1>4, <1>6

(***************************************************************************)
(* The component selection.                                                *)
(***************************************************************************)
LEMMA ComponentArgType ==
  ASSUME NEW en \in SUBSET Components, NEW a
  PROVE  /\ ApplyComponentArg(en, a) \in SUBSET Components
         /\ \A c \in Components :
              c \in ApplyComponentArg(en, a) <=>
                IF IsComponentArg(a) /\ ~BadComponentArg(a) /\ a.key = c
                THEN a.value = "on" ELSE c \in en
  <1>1. CASE ~IsComponentArg(a) \/ BadComponentArg(a)
    <2>1. ApplyComponentArg(en, a) = en
      BY <1>1 DEF ApplyComponentArg
    <2> QED
      BY <1>1, <2>1
  <1>2. CASE IsComponentArg(a) /\ ~BadComponentArg(a)
    <2>1. a.value \in {"on", "off"} /\ a.key \in Components
      BY <1>2 DEF BadComponentArg
    <2>2. ApplyComponentArg(en, a) = IF a.value = "on" THEN en \cup {a.key} ELSE en \ {a.key}
      BY <1>2 DEF ApplyComponentArg
    <2> QED
      BY <1>2, <2>1, <2>2
  <1> QED
    BY <1>1, <1>2

\* The loop of apply_component_args as a sequence of selections.
LEMMA ComponentLoop ==
  ASSUME NEW line \in Seq(Words), NEW start \in SUBSET Components
  PROVE  \E st \in [0 .. Len(line) -> SUBSET Components] :
           /\ st[0] = start
           /\ \A i \in 1 .. Len(line) : st[i] = ApplyComponentArg(st[i - 1], line[i])
           /\ ApplyComponentArgs(line, start) = st[Len(line)]
  <1>0. PICK n \in Nat : n = Len(line) /\ DOMAIN line = 1 .. n
    BY LenProperties
  <1> DEFINE T == SUBSET Components
             op == [x \in T \X (1 .. n) |-> ApplyComponentArg(x[1], line[x[2]])]
  <1>1. op \in Steps(n, T)
    BY ComponentArgType DEF Steps
  <1>2. \A s \in T, i \in 1 .. n : op[<<s, i>>] = ApplyComponentArg(s, line[i])
    OBVIOUS
  <1> HIDE DEF op, T
  <1>3. start \in T
    BY DEF T
  <1>4. PICK g : Solves(g, n, T, start, op)
    BY <1>1, <1>3, IterExists
  <1> DEFINE Step(f, s) == IF s = {} THEN start
                           ELSE ApplyComponentArg(f[s \ {Max(s)}], line[Max(s)])
             Is(f) == f = [s \in SUBSET (1 .. n) |-> Step(f, s)]
             iter == CHOOSE f : Is(f)
  <1>5. \A s \in SUBSET (1 .. n) : s # {} =>
          Max(s) \in 1 .. n /\ s \ {Max(s)} \in SUBSET (1 .. n)
    BY MaxIsIn
  <1>6. ASSUME NEW s \in SUBSET (1 .. n)
        PROVE  g[s] = Step(g, s)
    BY <1>2, <1>4, <1>5 DEF Solves
  <1>7. Is(g)
    BY <1>4, <1>6 DEF Solves
  <1>8. Is(iter)
    <2> HIDE DEF Is
    <2> QED
      BY <1>7
  <1>9. ApplyComponentArgs(line, start) = iter[1 .. n]
    BY <1>0 DEF ApplyComponentArgs, FoldLeft, MapThenFoldSet
  <1> HIDE DEF iter
  <1>10. \A s \in SUBSET (1 .. n) : iter[s] = Step(iter, s)
    BY <1>8
  <1>11. iter[{}] = start
    BY <1>10
  <1>12. Recurs(iter, n, T, start, op)
    BY <1>2, <1>5, <1>10, <1>11 DEF Recurs
  <1>13. PICK st : Unfolds(st, n, T, start, op) /\ iter[1 .. n] = st[n]
    BY <1>1, <1>3, <1>12, IterUnrolls
  <1>14. \A i \in 1 .. n : st[i - 1] \in T
    <2>1. \A i \in 1 .. n : i - 1 \in 0 .. n
      OBVIOUS
    <2> QED
      BY <1>13, <2>1 DEF Unfolds
  <1>15. \A i \in 1 .. n : st[i] = ApplyComponentArg(st[i - 1], line[i])
    BY <1>2, <1>13, <1>14 DEF Unfolds
  <1>16. st \in [0 .. n -> SUBSET Components] /\ st[0] = start
    BY <1>13 DEF Unfolds, T
  <1> QED
    BY <1>0, <1>9, <1>13, <1>15, <1>16

(***************************************************************************)
(* The switches a child gets.                                              *)
(***************************************************************************)
Say(o, line, f) == IF Says(f, o) THEN Append(line, Flag(f)) ELSE line
Mode(o) == Flag(IF "execute" \in o.on THEN "--execute" ELSE "--dry-run")

LEMMA ForwardedSwitches ==
  /\ Len(Forwarded) = 17 /\ DOMAIN Forwarded = 1 .. 17
  /\ \A i \in 1 .. 17 : Forwarded[i] \in DOMAIN TurnsOn \cup DOMAIN TurnsOff
  <1>1. Len(Forwarded) = 17 /\ DOMAIN Forwarded = 1 .. 17
    BY DEF Forwarded
  <1>2. \A i \in 1 .. 17 : \/ \E r \in OnSwitches : r[1] = Forwarded[i]
                           \/ \E r \in OffSwitches : r[1] = Forwarded[i]
    BY SMTT(60) DEF Forwarded, OnSwitches, OffSwitches
  <1> QED
    BY <1>1, <1>2, SwitchTables

\* What the options of a process make of its child's line: the words on it.
Told(o) ==
  {Mode(o)} \cup {Flag(f) : f \in {f \in ToSet(Forwarded) : Says(f, o)}}

\* What a sequence holds, when something is added to it.
LEMMA HeldAfterAppend ==
  ASSUME NEW S, NEW s \in Seq(S), NEW x \in S
  PROVE  /\ Append(s, x) \in Seq(S)
         /\ ToSet(Append(s, x)) = ToSet(s) \cup {x}
  <1>1. PICK n \in Nat : n = Len(s) /\ DOMAIN s = 1 .. n
    BY LenProperties
  <1>2. /\ Append(s, x) \in Seq(S) /\ DOMAIN Append(s, x) = 1 .. n + 1
        /\ \A i \in 1 .. n : Append(s, x)[i] = s[i]
        /\ Append(s, x)[n + 1] = x
    <2>1. /\ Append(s, x) \in Seq(S) /\ Len(Append(s, x)) = n + 1
          /\ \A i \in 1 .. n : Append(s, x)[i] = s[i]
          /\ Append(s, x)[n + 1] = x
      BY <1>1, AppendProperties
    <2> QED
      BY <2>1, LenProperties
  <1>3. \A i \in 1 .. n + 1 : i \in 1 .. n \/ i = n + 1
    BY <1>1
  <1>4. \A i \in 1 .. n : i \in 1 .. n + 1
    BY <1>1
  <1>5. n + 1 \in 1 .. n + 1
    BY <1>1
  <1> HIDE <1>1
  <1>6. DOMAIN s = 1 .. n
    BY <1>1
  <1> QED
    BY <1>2, <1>3, <1>4, <1>5, <1>6 DEF ToSet

LEMMA HeldAfterConcat ==
  ASSUME NEW S, NEW s \in Seq(S), NEW t \in Seq(S)
  PROVE  /\ s \o t \in Seq(S)
         /\ ToSet(s \o t) = ToSet(s) \cup ToSet(t)
  <1>1. PICK n \in Nat, m \in Nat :
          /\ n = Len(s) /\ DOMAIN s = 1 .. n
          /\ m = Len(t) /\ DOMAIN t = 1 .. m
    BY LenProperties
  <1>2. PICK u \in Seq(S) : u = s \o t
    BY ConcatProperties
  <1>3. /\ DOMAIN u = 1 .. n + m
        /\ \A i \in 1 .. n : u[i] = s[i]
        /\ \A j \in 1 .. m : u[n + j] = t[j]
    <2>1. Len(u) = n + m /\ \A i \in 1 .. n + m : u[i] = IF i <= n THEN s[i] ELSE t[i - n]
      BY <1>1, <1>2, ConcatProperties
    <2>2. \A i \in 1 .. n : u[i] = s[i]
      BY <2>1
    <2>3. \A j \in 1 .. m : n + j \in 1 .. n + m /\ ~(n + j <= n) /\ n + j - n = j
      BY <1>1
    <2> QED
      BY <2>1, <2>2, <2>3, LenProperties
  <1>4. \A i \in 1 .. n + m : i \in 1 .. n \/ \E j \in 1 .. m : i = n + j
    <2> SUFFICES ASSUME NEW i \in 1 .. n + m, i \notin 1 .. n
                 PROVE  \E j \in 1 .. m : i = n + j
      OBVIOUS
    <2>1. i - n \in 1 .. m /\ i = n + (i - n)
      BY <1>1
    <2> QED
      BY <2>1
  <1>5. (\A i \in 1 .. n : i \in 1 .. n + m) /\ (\A j \in 1 .. m : n + j \in 1 .. n + m)
    BY <1>1
  <1>6. ToSet(u) = ToSet(s) \cup ToSet(t)
    <2>1. ASSUME NEW x \in ToSet(u)
          PROVE  x \in ToSet(s) \cup ToSet(t)
      <3>1. PICK i \in 1 .. n + m : x = u[i]
        BY <1>3 DEF ToSet
      <3>2. CASE i \in 1 .. n
        BY <1>1, <1>3, <3>1, <3>2 DEF ToSet
      <3>3. ASSUME NEW j \in 1 .. m, i = n + j
            PROVE  x \in ToSet(t)
        BY <1>1, <1>3, <3>1, <3>3 DEF ToSet
      <3> QED
        BY <1>4, <3>2, <3>3
    <2>2. ASSUME NEW x \in ToSet(s)
          PROVE  x \in ToSet(u)
      <3>1. PICK i \in 1 .. n : x = s[i]
        BY <1>1 DEF ToSet
      <3> QED
        BY <1>3, <1>5, <3>1 DEF ToSet
    <2>3. ASSUME NEW x \in ToSet(t)
          PROVE  x \in ToSet(u)
      <3>1. PICK j \in 1 .. m : x = t[j]
        BY <1>1 DEF ToSet
      <3>2. x = u[n + j] /\ n + j \in DOMAIN u
        BY <1>3, <1>5, <3>1
      <3> QED
        BY <3>2 DEF ToSet
    <2> QED
      BY <2>1, <2>2, <2>3
  <1> QED
    BY <1>2, <1>6

\* The words a process passes on are words.
LEMMA ToldWords ==
  ASSUME NEW o \in OptionsType
  PROVE  Mode(o) \in Words /\ \A f \in ToSet(Forwarded) : Flag(f) \in Words
  <1>1. <<"--execute", "execute">> \in OnSwitches /\ <<"--dry-run", "execute">> \in OffSwitches
    BY SMTT(60) DEF OnSwitches, OffSwitches
  <1>2. {"--execute", "--dry-run"} \subseteq DOMAIN TurnsOn \cup DOMAIN TurnsOff
    BY <1>1, SwitchTables
  <1>3. \A f \in ToSet(Forwarded) : f \in DOMAIN TurnsOn \cup DOMAIN TurnsOff
    BY ForwardedSwitches DEF ToSet
  <1>4. \A f \in Texts : Flag(f) \in Words
    <2>1. "none" \in Texts
      BY TextsAssumption
    <2> QED
      BY <2>1 DEF Flag, Word, Words
  <1> QED
    BY <1>2, <1>3, <1>4, TextsAssumption DEF Mode

\* The loop over the switches of effective_child_switches.
LEMMA SayLoop ==
  ASSUME NEW o \in OptionsType
  PROVE  /\ OptionSwitches(o) \in Seq(Words)
         /\ ToSet(OptionSwitches(o)) = Told(o) \cup {WaitArg(o.wait)}
  <1> DEFINE T == Seq(Words)
             start == <<Mode(o)>>
             n == 17
             op == [x \in T \X (1 .. n) |-> Say(o, x[1], Forwarded[x[2]])]
  <1>0. \A i \in 1 .. n : Forwarded[i] \in ToSet(Forwarded)
    BY ForwardedSwitches DEF ToSet
  <1>1. \A s \in T, i \in 1 .. n : Say(o, s, Forwarded[i]) \in T
    BY <1>0, ToldWords, HeldAfterAppend DEF Say
  <1>2. op \in Steps(n, T)
    BY <1>1 DEF Steps
  <1>3. \A s \in T, i \in 1 .. n : op[<<s, i>>] = Say(o, s, Forwarded[i])
    OBVIOUS
  <1>4. start \in T /\ ToSet(start) = {Mode(o)}
    BY ToldWords DEF ToSet
  <1>5. n \in Nat
    OBVIOUS
  <1> HIDE DEF op, T, start, n
  <1>6. PICK g : Solves(g, n, T, start, op)
    BY <1>2, <1>4, <1>5, IterExists
  <1> DEFINE Step(f, s) == IF s = {} THEN start
                           ELSE Say(o, f[s \ {Max(s)}], Forwarded[Max(s)])
             Is(f) == f = [s \in SUBSET (1 .. n) |-> Step(f, s)]
             iter == CHOOSE f : Is(f)
  <1>7. \A s \in SUBSET (1 .. n) : s # {} =>
          Max(s) \in 1 .. n /\ s \ {Max(s)} \in SUBSET (1 .. n)
    BY <1>5, MaxIsIn
  <1>8. ASSUME NEW s \in SUBSET (1 .. n)
        PROVE  g[s] = Step(g, s)
    BY <1>3, <1>6, <1>7 DEF Solves
  <1>9. Is(g)
    BY <1>6, <1>8 DEF Solves
  <1>10. Is(iter)
    <2> HIDE DEF Is
    <2> QED
      BY <1>9
  <1>11. OptionSwitches(o) = Append(iter[1 .. n], WaitArg(o.wait))
    BY ForwardedSwitches
    DEF OptionSwitches, FoldLeft, MapThenFoldSet, Say, Mode, start, n
  <1> HIDE DEF iter
  <1>12. \A s \in SUBSET (1 .. n) : iter[s] = Step(iter, s)
    BY <1>10
  <1>13. iter[{}] = start
    BY <1>12
  <1>14. Recurs(iter, n, T, start, op)
    BY <1>3, <1>7, <1>12, <1>13 DEF Recurs
  <1>15. PICK st : Unfolds(st, n, T, start, op) /\ iter[1 .. n] = st[n]
    BY <1>2, <1>4, <1>5, <1>14, IterUnrolls
  <1> DEFINE Said(k) == {Mode(o)} \cup
                {Flag(f) : f \in {f \in {Forwarded[i] : i \in 1 .. k} : Says(f, o)}}
             A == {k \in 0 .. n : ToSet(st[k]) = Said(k)}
  <1>16. 0 \in A
    <2>1. 1 .. 0 = {} /\ 0 \in 0 .. n
      BY <1>5
    <2> QED
      BY <1>4, <1>15, <2>1 DEF Unfolds
  <1>17. ASSUME NEW k \in 1 .. n, k - 1 \in A
         PROVE  k \in A
    <2>1. PICK j \in 0 .. n : j = k - 1 /\ j + 1 = k /\ k \in 0 .. n
      BY <1>5
    <2>2. st[k] = Say(o, st[j], Forwarded[k]) /\ st[j] \in T
      BY <1>3, <1>15, <2>1 DEF Unfolds
    <2>3. 1 .. k = (1 .. j) \cup {k}
      BY <2>1
    <2>4. ToSet(st[j]) = Said(j)
      BY <1>17, <2>1
    <2>5. Flag(Forwarded[k]) \in Words
      BY <1>0, ToldWords
    <2>6. CASE Says(Forwarded[k], o)
      <3>1. ToSet(st[k]) = ToSet(st[j]) \cup {Flag(Forwarded[k])}
        BY <2>2, <2>5, <2>6, HeldAfterAppend DEF Say, T
      <3>2. Said(k) = Said(j) \cup {Flag(Forwarded[k])}
        BY <2>3, <2>6
      <3> QED
        BY <2>1, <2>4, <3>1, <3>2
    <2>7. CASE ~Says(Forwarded[k], o)
      <3>1. st[k] = st[j]
        BY <2>2, <2>7 DEF Say
      <3>2. Said(k) = Said(j)
        BY <2>3, <2>7
      <3> QED
        BY <2>1, <2>4, <3>1, <3>2
    <2> QED
      BY <2>6, <2>7
  <1>18. ToSet(st[n]) = Said(n) /\ st[n] \in Seq(Words)
    <2>1. \A k \in 0 .. n : k \in A
      <3> HIDE DEF A
      <3> QED
        BY <1>5, <1>16, <1>17, CountUp
    <2> QED
      BY <1>5, <1>15, <2>1 DEF Unfolds, T
  <1>19. Said(n) = Told(o)
    BY ForwardedSwitches DEF Told, ToSet, n
  <1>20. WaitArg(o.wait) \in Words
    BY TextsAssumption DEF WaitArg, Word, Words, OptionsType
  <1> QED
    BY <1>11, <1>15, <1>18, <1>19, <1>20, HeldAfterAppend

State(c, en) == IF c \in en THEN "on" ELSE "off"

\* The keys in their order: each component is there.
LEMMA KeysInOrder ==
  /\ SetToSeq(Components) \in Seq(Components)
  /\ ToSet(SetToSeq(Components)) = Components
  <1> DEFINE n == Cardinality(Components)
             Ordered(f) == f \in [1 .. n -> Components] /\ IsInjective(f)
  <1>1. n \in Nat /\ ExistsBijection(1 .. n, Components)
    BY ComponentsAssumption, FS_CardinalityType
  <1>2. \E f \in [1 .. n -> Components] : IsInjective(f)
    BY <1>1 DEF ExistsBijection, Bijection, Injection
  <1>3. PICK f : f = SetToSeq(Components) /\ f \in [1 .. n -> Components] /\ IsInjective(f)
    BY <1>2 DEF SetToSeq
  <1>4. f \in Injection(1 .. n, Components)
    BY <1>3 DEF Injection
  <1>5. IsFiniteSet(1 .. n) /\ Cardinality(1 .. n) = n
    BY <1>1, FS_Interval
  <1>6. f \in Surjection(1 .. n, Components)
    BY <1>4, <1>5, ComponentsAssumption, FS_Injection
  <1>7. \A c \in Components : \E i \in 1 .. n : f[i] = c
    BY <1>6 DEF Surjection
  <1>8. f \in Seq(Components)
    BY <1>1, <1>3, IsASeq
  <1> HIDE DEF n
  <1> QED
    BY <1>3, <1>7, <1>8 DEF ToSet

\* effective_child_switches: what is on the line, in whatever order.
LEMMA ChildWords ==
  ASSUME NEW o \in OptionsType, NEW en \in SUBSET Components
  PROVE  /\ EffectiveChildSwitches(o, en) \in Seq(Words)
         /\ ToSet(EffectiveChildSwitches(o, en)) =
              Told(o) \cup {WaitArg(o.wait)}
                \cup {ComponentArg(c, State(c, en)) : c \in Components}
  <1>1. PICK keys \in Seq(Components) :
          keys = SetToSeq(Components) /\ ToSet(keys) = Components
    BY KeysInOrder
  <1>2. PICK n \in Nat : n = Len(keys) /\ DOMAIN keys = 1 .. n
    BY LenProperties
  <1>3. \A i \in 1 .. n : keys[i] \in Components
    BY <1>2, ElementOfSeq
  <1> DEFINE t == [i \in 1 .. n |-> ComponentArg(keys[i], State(keys[i], en))]
  <1>4. \A c \in Components : ComponentArg(c, State(c, en)) \in Words
    <2>1. {"--component", "on", "off"} \subseteq Texts /\ Components \subseteq Texts
      BY TextsAssumption
    <2> QED
      BY <2>1 DEF ComponentArg, Word, Words, State
  <1>5. t \in [1 .. n -> Words]
    BY <1>3, <1>4
  <1>6. t \in Seq(Words)
    BY <1>5, IsASeq
  <1>7. ToSet(t) = {ComponentArg(c, State(c, en)) : c \in Components}
    <2>1. Components = {keys[i] : i \in 1 .. n}
      BY <1>1, <1>2 DEF ToSet
    <2> QED
      BY <2>1 DEF ToSet
  <1>8. EffectiveChildSwitches(o, en) = OptionSwitches(o) \o t
    BY <1>1, <1>2 DEF EffectiveChildSwitches, Stated, State
  <1> HIDE DEF t
  <1> QED
    BY <1>6, <1>7, <1>8, SayLoop, HeldAfterConcat

\* One sequence after another.
LEMMA ConcatParts ==
  ASSUME NEW S, NEW s \in Seq(S), NEW t \in Seq(S)
  PROVE  /\ s \o t \in Seq(S)
         /\ Len(s \o t) = Len(s) + Len(t)
         /\ \A i \in 1 .. Len(s) : (s \o t)[i] = s[i]
         /\ \A j \in 1 .. Len(t) : (s \o t)[Len(s) + j] = t[j]
  <1>1. PICK n \in Nat, m \in Nat : n = Len(s) /\ m = Len(t)
    BY LenProperties
  <1>2. PICK u \in Seq(S) : u = s \o t
    BY ConcatProperties
  <1>3. Len(u) = n + m /\ \A i \in 1 .. n + m : u[i] = IF i <= n THEN s[i] ELSE t[i - n]
    BY <1>1, <1>2, ConcatProperties
  <1>4. \A i \in 1 .. n : u[i] = s[i]
    BY <1>3
  <1>5. \A j \in 1 .. m : n + j \in 1 .. n + m /\ ~(n + j <= n) /\ n + j - n = j
    BY <1>1
  <1>6. ASSUME NEW j \in 1 .. m
        PROVE  u[n + j] = t[j]
    <2>1. PICK i \in 1 .. n + m : i = n + j /\ ~(i <= n) /\ i - n = j
      BY <1>5
    <2>2. u[i] = t[i - n]
      BY <1>3, <2>1
    <2> QED
      BY <2>1, <2>2
  <1> QED
    BY <1>1, <1>2, <1>3, <1>4, <1>6

\* A sequence with two more words.
LEMMA TwoMore ==
  ASSUME NEW s \in Seq(Words), NEW x \in Words, NEW y \in Words
  PROVE  /\ s \o <<x, y>> \in Seq(Words)
         /\ Len(s \o <<x, y>>) = Len(s) + 2
         /\ \A i \in 1 .. Len(s) : (s \o <<x, y>>)[i] = s[i]
         /\ (s \o <<x, y>>)[Len(s) + 1] = x
         /\ (s \o <<x, y>>)[Len(s) + 2] = y
  <1>1. /\ <<x, y>> \in Seq(Words) /\ Len(<<x, y>>) = 2
        /\ <<x, y>>[1] = x /\ <<x, y>>[2] = y
    OBVIOUS
  <1>2. PICK t \in Seq(Words) : t = <<x, y>>
    BY <1>1
  <1>3. Len(t) = 2 /\ t[1] = x /\ t[2] = y
    BY <1>1, <1>2
  <1>4. /\ s \o t \in Seq(Words)
        /\ Len(s \o t) = Len(s) + Len(t)
        /\ \A i \in 1 .. Len(s) : (s \o t)[i] = s[i]
        /\ \A j \in 1 .. Len(t) : (s \o t)[Len(s) + j] = t[j]
    <2> HIDE <1>2
    <2> QED
      BY ConcatParts
  <1>5. 1 \in 1 .. Len(t) /\ 2 \in 1 .. Len(t)
    BY <1>3
  <1>6. /\ Len(s \o t) = Len(s) + 2
        /\ (s \o t)[Len(s) + 1] = x /\ (s \o t)[Len(s) + 2] = y
    <2> HIDE <1>2
    <2> QED
      BY <1>3, <1>4, <1>5
  <1> QED
    BY <1>2, <1>4, <1>6

\* The words a parent adds for its child.
LEMMA OwnWords ==
  /\ {Flag("--no-menu"), Flag("--pause"), Flag("--ti-child"), Flag("--log-file"),
      Flag("--abort-event"), Text("run log"), Text("event")} \subseteq Words
  /\ "--no-menu" \in DOMAIN TurnsOff /\ TurnsOff["--no-menu"] = "menu"
  /\ "--pause" \in DOMAIN TurnsOn /\ TurnsOn["--pause"] = "pause"
  /\ "--ti-child" \in DOMAIN TurnsOn /\ TurnsOn["--ti-child"] = "tiChild"
  <1>1. "--no-menu" \in DOMAIN TurnsOff /\ TurnsOff["--no-menu"] = "menu"
    <2>1. PICK r \in OffSwitches : r[1] = "--no-menu" /\ r[2] = "menu"
      <3>1. <<"--no-menu", "menu">> \in OffSwitches
        BY DEF OffSwitches
      <3> QED
        BY <3>1
    <2> QED
      BY <2>1, SwitchTables
  <1>2. "--pause" \in DOMAIN TurnsOn /\ TurnsOn["--pause"] = "pause"
    <2>1. PICK r \in OnSwitches : r[1] = "--pause" /\ r[2] = "pause"
      <3>1. <<"--pause", "pause">> \in OnSwitches
        BY DEF OnSwitches
      <3> QED
        BY <3>1
    <2> QED
      BY <2>1, SwitchTables
  <1>3. "--ti-child" \in DOMAIN TurnsOn /\ TurnsOn["--ti-child"] = "tiChild"
    <2>1. PICK r \in OnSwitches : r[1] = "--ti-child" /\ r[2] = "tiChild"
      <3>1. <<"--ti-child", "tiChild">> \in OnSwitches
        BY DEF OnSwitches
      <3> QED
        BY <3>1
    <2> QED
      BY <2>1, SwitchTables
  <1>4. \A f \in Texts : Flag(f) \in Words /\ Text(f) \in Words
    <2>1. "none" \in Texts /\ "text" \in Texts
      BY TextsAssumption
    <2> QED
      BY <2>1 DEF Flag, Text, Word, Words
  <1>5. "--log-file" \in Texts /\ "--abort-event" \in Texts
    BY TextsAssumption DEF TextFlags
  <1>6. "run log" \in Texts /\ "event" \in Texts
    BY TextsAssumption
  <1>7. "--no-menu" \in Texts /\ "--pause" \in Texts /\ "--ti-child" \in Texts
    BY <1>1, <1>2, <1>3, TextsAssumption
  <1> QED
    BY <1>1, <1>2, <1>3, <1>4, <1>5, <1>6, <1>7

\* The whole line of a child, and how it is made up.
ChildLine(o, en, child) ==
  EffectiveChildSwitches(o, en)
    \o (IF child = "elevated" THEN <<Flag("--no-menu"), Flag("--pause")>>
                             ELSE <<Flag("--ti-child"), Flag("--no-menu")>>)
    \o Option("--log-file", "run log")
    \o (IF child = "elevated" THEN Option("--abort-event", "event") ELSE <<>>)

MadeUp(line, m, k, told) ==
  /\ m \in Nat \ {0} /\ k \in {4, 6} /\ Len(line) = m + k
  /\ \A i \in 1 .. m : line[i] \in told
  /\ \A w \in told : \E i \in 1 .. m : line[i] = w
  /\ line[m + 1] \in {Flag("--no-menu"), Flag("--ti-child")}
  /\ line[m + 2] \in {Flag("--no-menu"), Flag("--pause")}
  /\ Flag("--no-menu") \in {line[m + 1], line[m + 2]}
  /\ line[m + 3] = Flag("--log-file") /\ line[m + 4] = Text("run log")
  /\ k = 6 => line[m + 5] = Flag("--abort-event") /\ line[m + 6] = Text("event")

Passed(o, en) ==
  Told(o) \cup {WaitArg(o.wait)} \cup {ComponentArg(c, State(c, en)) : c \in Components}

LEMMA ChildLineIsMadeUp ==
  ASSUME NEW o \in OptionsType, NEW en \in SUBSET Components,
         NEW child \in {"elevated", "worker"}
  PROVE  /\ ChildLine(o, en, child) \in Seq(Words)
         /\ \E m \in Nat, k \in Nat : MadeUp(ChildLine(o, en, child), m, k, Passed(o, en))
  <1>1. PICK B \in Seq(Words) :
          B = EffectiveChildSwitches(o, en) /\ ToSet(B) = Passed(o, en)
    BY ChildWords DEF Passed
  <1>2. PICK m \in Nat : m = Len(B) /\ DOMAIN B = 1 .. m
    BY LenProperties
  <1>3. /\ \A i \in 1 .. m : B[i] \in Passed(o, en)
        /\ \A w \in Passed(o, en) : \E i \in 1 .. m : B[i] = w
    BY <1>1, <1>2 DEF ToSet
  <1>4. m # 0
    <2>1. Mode(o) \in Passed(o, en)
      BY DEF Passed, Told
    <2> QED
      BY <1>3, <2>1
  <1>5. PICK x \in Words, y \in Words :
          /\ <<x, y>> = IF child = "elevated" THEN <<Flag("--no-menu"), Flag("--pause")>>
                        ELSE <<Flag("--ti-child"), Flag("--no-menu")>>
          /\ x \in {Flag("--no-menu"), Flag("--ti-child")}
          /\ y \in {Flag("--no-menu"), Flag("--pause")}
          /\ Flag("--no-menu") \in {x, y}
    BY OwnWords
  <1>6. PICK C : C = B \o <<x, y>>
    OBVIOUS
  <1>7. /\ C \in Seq(Words) /\ Len(C) = m + 2
        /\ \A i \in 1 .. m : C[i] = B[i]
        /\ C[m + 1] = x /\ C[m + 2] = y
    BY <1>2, <1>6, TwoMore
  <1>8. PICK f \in Words, r \in Words, e \in Words, v \in Words :
          /\ f = Flag("--log-file") /\ r = Text("run log")
          /\ e = Flag("--abort-event") /\ v = Text("event")
    BY OwnWords
  <1>9. PICK D : D = C \o <<f, r>>
    OBVIOUS
  <1>10. /\ D \in Seq(Words) /\ Len(D) = m + 2 + 2
         /\ \A i \in 1 .. m + 2 : D[i] = C[i]
         /\ D[m + 2 + 1] = f /\ D[m + 2 + 2] = r
    BY <1>7, <1>9, TwoMore
  <1>11. /\ Len(D) = m + 4 /\ \A i \in 1 .. m : D[i] = B[i]
         /\ D[m + 1] = x /\ D[m + 2] = y /\ D[m + 3] = f /\ D[m + 4] = r
    <2>1. /\ m + 2 + 2 = m + 4 /\ m + 2 + 1 = m + 3
          /\ m + 1 \in 1 .. m + 2 /\ m + 2 \in 1 .. m + 2
          /\ \A i \in 1 .. m : i \in 1 .. m + 2
      BY <1>2
    <2> QED
      BY <1>7, <1>10, <2>1
  <1>12. CASE child # "elevated"
    <2>1. ChildLine(o, en, child) = D
      <3>1. D \o <<>> = D
        BY <1>10, ConcatEmptySeq
      <3> QED
        BY <1>1, <1>5, <1>6, <1>8, <1>9, <1>12, <3>1 DEF ChildLine, Option
    <2>2. /\ m \in Nat \ {0} /\ 4 \in {4, 6} /\ 4 # 6
          /\ \A i \in 1 .. m : D[i] \in Passed(o, en)
          /\ \A w \in Passed(o, en) : \E i \in 1 .. m : D[i] = w
      BY <1>2, <1>3, <1>4, <1>11
    <2>3. MadeUp(D, m, 4, Passed(o, en))
      BY <1>5, <1>8, <1>11, <2>2 DEF MadeUp
    <2> QED
      BY <1>2, <1>10, <2>1, <2>3
  <1>13. CASE child = "elevated"
    <2>1. PICK E : E = D \o <<e, v>>
      OBVIOUS
    <2>2. /\ E \in Seq(Words) /\ Len(E) = m + 4 + 2
          /\ \A i \in 1 .. m + 4 : E[i] = D[i]
          /\ E[m + 4 + 1] = e /\ E[m + 4 + 2] = v
      BY <1>10, <1>11, <2>1, TwoMore
    <2>3. /\ Len(E) = m + 6 /\ \A i \in 1 .. m : E[i] = B[i]
          /\ E[m + 1] = x /\ E[m + 2] = y /\ E[m + 3] = f /\ E[m + 4] = r
          /\ E[m + 5] = e /\ E[m + 6] = v
      <3>1. /\ m + 4 + 2 = m + 6 /\ m + 4 + 1 = m + 5
            /\ m + 1 \in 1 .. m + 4 /\ m + 2 \in 1 .. m + 4
            /\ m + 3 \in 1 .. m + 4 /\ m + 4 \in 1 .. m + 4
            /\ \A i \in 1 .. m : i \in 1 .. m + 4
        BY <1>2
      <3> QED
        BY <1>11, <2>2, <3>1
    <2>4. ChildLine(o, en, child) = E
      BY <1>1, <1>5, <1>6, <1>8, <1>9, <1>13, <2>1 DEF ChildLine, Option
    <2>5. /\ m \in Nat \ {0} /\ 6 \in {4, 6}
          /\ \A i \in 1 .. m : E[i] \in Passed(o, en)
          /\ \A w \in Passed(o, en) : \E i \in 1 .. m : E[i] = w
      BY <1>2, <1>3, <1>4, <2>3
    <2>6. MadeUp(E, m, 6, Passed(o, en))
      BY <1>5, <1>8, <2>3, <2>5 DEF MadeUp
    <2> QED
      BY <1>2, <2>2, <2>4, <2>6
  <1> QED
    BY <1>12, <1>13

(***************************************************************************)
(* What the words of a line come to, whatever their order, when those that *)
(* are about one thing agree.                                              *)
(***************************************************************************)
LEMMA OnceSettled ==
  ASSUME NEW n \in Nat, NEW G, NEW h \in 0 .. n, h \in G,
         \A k \in 1 .. n : k - 1 \in G => k \in G
  PROVE  n \in G
  <1> DEFINE A == {k \in 0 .. n : k < h \/ k \in G}
  <1>1. 0 \in A
    BY 0 < h \/ 0 = h
  <1>2. ASSUME NEW k \in 1 .. n, k - 1 \in A
        PROVE  k \in A
    <2>1. k < h \/ k = h \/ ~(k - 1 < h)
      OBVIOUS
    <2> QED
      BY <1>2, <2>1
  <1>3. \A k \in 0 .. n : k \in A
    <2> HIDE DEF A
    <2> QED
      BY <1>1, <1>2, CountUp
  <1>4. n \in 0 .. n /\ ~(n < h)
    OBVIOUS
  <1> QED
    BY <1>3, <1>4

TurnOn(w, x) == w.flag \in DOMAIN TurnsOn /\ TurnsOn[w.flag] = x
TurnOff(w, x) == w.flag \in DOMAIN TurnsOff /\ TurnsOff[w.flag] = x

\* An option that words turn on and none turns off is on in the end, and the
\* other way round; one no word is about is as it was; and so for the rest.
LEMMA OptionsRead ==
  ASSUME NEW line \in Seq(Words), Understood(line)
  PROVE  /\ \A x : (\A i \in 1 .. Len(line) : ~TurnOff(line[i], x)) =>
              /\ (\E i \in 1 .. Len(line) : TurnOn(line[i], x)) => x \in ParseArgs(line).on
              /\ x \in Started(line).opt.on => x \in ParseArgs(line).on
         /\ \A x : (\A i \in 1 .. Len(line) : ~TurnOn(line[i], x)) =>
              /\ (\E i \in 1 .. Len(line) : TurnOff(line[i], x)) => x \notin ParseArgs(line).on
              /\ x \notin Started(line).opt.on => x \notin ParseArgs(line).on
         /\ \A v : /\ \A i \in 1 .. Len(line) :
                        line[i].flag = "--ti-wait-seconds=" => Clamp(line[i].number) = v
                   /\ \E i \in 1 .. Len(line) : line[i].flag = "--ti-wait-seconds="
                   => ParseArgs(line).wait = v
         /\ \A f \in TextFlags : \A v :
              /\ \A i \in 1 .. Len(line) :
                   Taken(line, i) /\ line[i - 1].flag = f => line[i].value = v
              /\ \E i \in 1 .. Len(line) : Taken(line, i) /\ line[i - 1].flag = f
              => ParseArgs(line).text[f] = v
  <1>1. PICK n \in Nat : n = Len(line)
    BY LenProperties
  <1>2. PICK st \in [0 .. n -> ParseStates] :
           /\ st[0] = Started(line)
           /\ ParseArgs(line).on = st[n].opt.on
           /\ ParseArgs(line).wait = st[n].opt.wait
           /\ ParseArgs(line).text = st[n].opt.text
           /\ \A i \in 1 .. n :
                /\ st[i].opt.on =
                     IF line[i].flag \in DOMAIN TurnsOn
                     THEN st[i - 1].opt.on \cup {TurnsOn[line[i].flag]}
                     ELSE IF line[i].flag \in DOMAIN TurnsOff
                          THEN st[i - 1].opt.on \ {TurnsOff[line[i].flag]}
                          ELSE st[i - 1].opt.on
                /\ st[i].opt.wait =
                     IF line[i].flag = "--ti-wait-seconds=" THEN Clamp(line[i].number)
                     ELSE st[i - 1].opt.wait
                /\ st[i].opt.text =
                     IF Taken(line, i)
                     THEN [st[i - 1].opt.text EXCEPT ![line[i - 1].flag] = line[i].value]
                     ELSE st[i - 1].opt.text
    BY <1>1, UnderstoodLoop
  <1>3. \A k \in 1 .. n : k \in 0 .. n /\ k - 1 \in 0 .. n
    BY <1>1
  <1>4. 0 \in 0 .. n /\ n \in 0 .. n
    BY <1>1
  <1>5. ASSUME NEW x, \A i \in 1 .. n : ~TurnOff(line[i], x),
               (\E i \in 1 .. n : TurnOn(line[i], x)) \/ x \in Started(line).opt.on
        PROVE  x \in ParseArgs(line).on
    <2> DEFINE G == {k \in 0 .. n : x \in st[k].opt.on}
    <2>1. \A k \in 1 .. n : k - 1 \in G => k \in G
      BY <1>2, <1>3, <1>5 DEF TurnOff
    <2>2. \E h \in 0 .. n : h \in G
      BY <1>2, <1>3, <1>4, <1>5 DEF TurnOn
    <2>3. n \in G
      <3> HIDE DEF G
      <3> QED
        BY <2>1, <2>2, OnceSettled
    <2> QED
      BY <1>2, <2>3
  <1>6. ASSUME NEW x, \A i \in 1 .. n : ~TurnOn(line[i], x),
               (\E i \in 1 .. n : TurnOff(line[i], x)) \/ x \notin Started(line).opt.on
        PROVE  x \notin ParseArgs(line).on
    <2> DEFINE G == {k \in 0 .. n : x \notin st[k].opt.on}
    <2>1. \A k \in 1 .. n : k - 1 \in G => k \in G
      BY <1>2, <1>3, <1>6 DEF TurnOn
    <2>2. \E h \in 0 .. n : h \in G
      BY <1>2, <1>3, <1>4, <1>6, KindsOfWords DEF TurnOff
    <2>3. n \in G
      <3> HIDE DEF G
      <3> QED
        BY <2>1, <2>2, OnceSettled
    <2> QED
      BY <1>2, <2>3
  <1>7. ASSUME NEW v, NEW h \in 1 .. n, line[h].flag = "--ti-wait-seconds=",
               \A i \in 1 .. n :
                 line[i].flag = "--ti-wait-seconds=" => Clamp(line[i].number) = v
        PROVE  ParseArgs(line).wait = v
    <2> DEFINE G == {k \in 0 .. n : st[k].opt.wait = v}
    <2>1. \A k \in 1 .. n : k - 1 \in G => k \in G
      BY <1>2, <1>3, <1>7
    <2>2. h \in G /\ h \in 0 .. n
      BY <1>2, <1>3, <1>7
    <2>3. n \in G
      <3> HIDE DEF G
      <3> QED
        BY <2>1, <2>2, OnceSettled
    <2> QED
      BY <1>2, <2>3
  <1>8. ASSUME NEW f \in TextFlags, NEW v, NEW h \in 1 .. n,
               Taken(line, h), line[h - 1].flag = f,
               \A i \in 1 .. n : Taken(line, i) /\ line[i - 1].flag = f => line[i].value = v
        PROVE  ParseArgs(line).text[f] = v
    <2> DEFINE G == {k \in 0 .. n : st[k].opt.text[f] = v}
    <2>0. \A k \in 0 .. n : st[k].opt.text \in [TextFlags -> Texts]
      BY <1>2 DEF ParseStates, OptionsType
    <2>1. ASSUME NEW k \in 1 .. n, k - 1 \in G
          PROVE  k \in G
      <3>1. st[k - 1].opt.text \in [TextFlags -> Texts]
        BY <1>3, <2>0
      <3> QED
        BY <1>2, <1>3, <1>8, <2>1, <3>1, ZenonT(30)
    <2>2. h \in G /\ h \in 0 .. n
      <3>1. st[h - 1].opt.text \in [TextFlags -> Texts]
        BY <1>3, <2>0
      <3> QED
        BY <1>2, <1>3, <1>8, <3>1
    <2>3. n \in G
      <3> HIDE DEF G
      <3> QED
        BY <2>1, <2>2, OnceSettled
    <2> QED
      BY <1>2, <2>3
  <1> HIDE <1>2
  <1> QED
    BY <1>1, <1>5, <1>6, <1>7, <1>8

\* A line that says of every component, and never otherwise, what en says.
States(line, en) ==
  /\ \A i \in 1 .. Len(line) : ~BadComponentArg(line[i])
  /\ \A i \in 1 .. Len(line) : IsComponentArg(line[i]) =>
       ((line[i].value = "on") <=> line[i].key \in en)
  /\ \A c \in Components : \E i \in 1 .. Len(line) :
       IsComponentArg(line[i]) /\ line[i].key = c

LEMMA ComponentsRead ==
  ASSUME NEW line \in Seq(Words), NEW start \in SUBSET Components,
         NEW en \in SUBSET Components, States(line, en)
  PROVE  ApplyComponentArgs(line, start) = en
  <1>1. PICK n \in Nat : n = Len(line)
    BY LenProperties
  <1>2. PICK st \in [0 .. n -> SUBSET Components] :
          /\ \A i \in 1 .. n : st[i] = ApplyComponentArg(st[i - 1], line[i])
          /\ ApplyComponentArgs(line, start) = st[n]
    BY <1>1, ComponentLoop
  <1>3. \A k \in 1 .. n : k \in 0 .. n /\ k - 1 \in 0 .. n
    BY <1>1
  <1>4. ASSUME NEW c \in Components
        PROVE  c \in st[n] <=> c \in en
    <2> DEFINE G == {k \in 0 .. n : c \in st[k] <=> c \in en}
    <2>1. ASSUME NEW k \in 1 .. n
          PROVE  c \in st[k] <=> IF IsComponentArg(line[k]) /\ line[k].key = c
                                 THEN c \in en ELSE c \in st[k - 1]
      <3>1. PICK s \in SUBSET Components : s = st[k - 1]
        BY <1>2, <1>3
      <3>2. st[k] = ApplyComponentArg(s, line[k])
        BY <1>2, <3>1
      <3>3. c \in ApplyComponentArg(s, line[k]) <=>
              IF IsComponentArg(line[k]) /\ ~BadComponentArg(line[k]) /\ line[k].key = c
              THEN line[k].value = "on" ELSE c \in s
        BY ComponentArgType
      <3>4. ~BadComponentArg(line[k]) /\
              (IsComponentArg(line[k]) => (line[k].value = "on" <=> line[k].key \in en))
        BY <1>1 DEF States
      <3> QED
        BY <3>1, <3>2, <3>3, <3>4, Zenon
    <2>2. \A k \in 1 .. n : k - 1 \in G => k \in G
      BY <1>3, <2>1
    <2>3. PICK h \in 1 .. n : IsComponentArg(line[h]) /\ line[h].key = c
      BY <1>1 DEF States
    <2>4. h \in G /\ h \in 0 .. n
      BY <1>3, <2>1, <2>3
    <2>5. n \in G
      <3> HIDE DEF G
      <3> QED
        BY <2>2, <2>4, OnceSettled
    <2> QED
      BY <2>5
  <1>5. st[n] \in SUBSET Components
    BY <1>1, <1>2
  <1> QED
    BY <1>2, <1>4, <1>5

(***************************************************************************)
(* The child reads what its parent wrote.                                  *)
(***************************************************************************)
Decided == {Decides(f) : f \in ToSet(Forwarded)}

\* Each forwarded switch decides an option of its own, which is none of those
\* that are a process's own business, and says what the child would not
\* assume anyhow.
LEMMA ForwardedDecide ==
  /\ \A f, g \in ToSet(Forwarded) : Decides(f) = Decides(g) => f = g
  /\ \A f \in ToSet(Forwarded) :
       /\ Decides(f) \notin {"execute", "menu", "pause", "tiChild"}
       /\ f \in DOMAIN TurnsOn <=> Decides(f) \notin DefaultOptions.on
       /\ f \in DOMAIN TurnsOff <=> Decides(f) \in DefaultOptions.on
  /\ \A f \in DOMAIN TurnsOn : TurnsOn[f] # "wizard"
  /\ "--execute" \in DOMAIN TurnsOn /\ TurnsOn["--execute"] = "execute"
  /\ "--dry-run" \in DOMAIN TurnsOff /\ TurnsOff["--dry-run"] = "execute"
  <1>1. \A r, q \in OnSwitches : r[2] = q[2] => r = q
    BY SMTT(60) DEF OnSwitches
  <1>2. \A r, q \in OffSwitches : r[2] = q[2] => r = q
    BY SMTT(60) DEF OffSwitches
  <1>3. \A r \in OnSwitches : r[2] # "wizard"
    BY SMTT(60) DEF OnSwitches
  <1> DEFINE own == {"execute", "menu", "pause", "tiChild"}
             default == {"relaunch", "preserve", "disableTasks"}
  <1>4. \A i \in 1 .. 17 :
          \/ \E r \in OnSwitches : r[1] = Forwarded[i] /\ r[2] \notin own \cup default
          \/ \E r \in OffSwitches : r[1] = Forwarded[i] /\ r[2] \in default \ own
    BY SMTT(60) DEF Forwarded, OnSwitches, OffSwitches
  <1>5. DefaultOptions.on = default
    BY DEF DefaultOptions
  <1> HIDE DEF own, default
  <1>6. \A f \in ToSet(Forwarded) :
          \/ \E r \in OnSwitches : r[1] = f /\ r[2] \notin own \cup default
          \/ \E r \in OffSwitches : r[1] = f /\ r[2] \in default \ own
    BY <1>4, ForwardedSwitches DEF ToSet
  <1>7. \A r \in OnSwitches :
          r[1] \in DOMAIN TurnsOn /\ r[1] \notin DOMAIN TurnsOff /\ Decides(r[1]) = r[2]
    BY SwitchTables, KindsOfWords DEF Decides
  <1>8. \A r \in OffSwitches :
          r[1] \in DOMAIN TurnsOff /\ r[1] \notin DOMAIN TurnsOn /\ Decides(r[1]) = r[2]
    BY SwitchTables, KindsOfWords DEF Decides
  <1>9. \A f \in ToSet(Forwarded) :
          /\ Decides(f) \notin own
          /\ f \in DOMAIN TurnsOn <=> Decides(f) \notin default
          /\ f \in DOMAIN TurnsOff <=> Decides(f) \in default
    BY <1>6, <1>7, <1>8
  <1>10. ASSUME NEW f \in ToSet(Forwarded), NEW g \in ToSet(Forwarded),
                Decides(f) = Decides(g)
         PROVE  f = g
    <2>1. CASE Decides(f) \in default
      <3>1. PICK r \in OffSwitches : r[1] = f /\ r[2] = Decides(f)
        BY <1>6, <1>7, <1>8, <2>1
      <3>2. PICK q \in OffSwitches : q[1] = g /\ q[2] = Decides(g)
        BY <1>6, <1>7, <1>8, <1>10, <2>1
      <3> QED
        BY <1>2, <1>10, <3>1, <3>2
    <2>2. CASE Decides(f) \notin default
      <3>1. PICK r \in OnSwitches : r[1] = f /\ r[2] = Decides(f)
        BY <1>6, <1>7, <1>8, <2>2
      <3>2. PICK q \in OnSwitches : q[1] = g /\ q[2] = Decides(g)
        BY <1>6, <1>7, <1>8, <1>10, <2>2
      <3> QED
        BY <1>1, <1>10, <3>1, <3>2
    <2> QED
      BY <2>1, <2>2
  <1>11. \A f \in DOMAIN TurnsOn : TurnsOn[f] # "wizard"
    BY <1>3, SwitchTables
  <1>12. "--execute" \in DOMAIN TurnsOn /\ TurnsOn["--execute"] = "execute"
    <2>1. PICK r \in OnSwitches : r[1] = "--execute" /\ r[2] = "execute"
      <3>1. <<"--execute", "execute">> \in OnSwitches
        BY DEF OnSwitches
      <3> QED
        BY <3>1
    <2> QED
      BY <2>1, SwitchTables
  <1>13. "--dry-run" \in DOMAIN TurnsOff /\ TurnsOff["--dry-run"] = "execute"
    <2>1. PICK r \in OffSwitches : r[1] = "--dry-run" /\ r[2] = "execute"
      <3>1. <<"--dry-run", "execute">> \in OffSwitches
        BY DEF OffSwitches
      <3> QED
        BY <3>1
    <2> QED
      BY <2>1, SwitchTables
  <1> QED
    BY <1>5, <1>9, <1>10, <1>11, <1>12, <1>13 DEF own

\* A word that is understood by itself, wherever no value is expected.
Plain(w) ==
  /\ w.flag \in DOMAIN TurnsOn \cup DOMAIN TurnsOff
                  \cup {"--component", "--ti-wait-seconds="}
  /\ w.flag = "--ti-wait-seconds=" => w.value = "integer"
  /\ ~BadComponentArg(w)

LEMMA PassedWordsArePlain ==
  ASSUME NEW o \in OptionsType, NEW en \in SUBSET Components
  PROVE  \A w \in Passed(o, en) : Plain(w)
  <1>1. \A f \in DOMAIN TurnsOn \cup DOMAIN TurnsOff : Plain(Flag(f))
    <2>1. \A f : Flag(f).flag = f
      BY DEF Flag, Word
    <2> QED
      BY <2>1, KindsOfWords DEF Plain, BadComponentArg, IsComponentArg
  <1>2. \A f \in ToSet(Forwarded) : f \in DOMAIN TurnsOn \cup DOMAIN TurnsOff
    BY ForwardedSwitches DEF ToSet
  <1>3. \A w \in Told(o) : Plain(w)
    <2>1. Plain(Mode(o))
      <3>1. "--execute" \in DOMAIN TurnsOn /\ "--dry-run" \in DOMAIN TurnsOff
        BY ForwardedDecide
      <3> QED
        BY <1>1, <3>1 DEF Mode
    <2> QED
      BY <1>1, <1>2, <2>1 DEF Told
  <1>4. Plain(WaitArg(o.wait))
    BY DEF Plain, WaitArg, Word, BadComponentArg, IsComponentArg
  <1>5. \A c \in Components : Plain(ComponentArg(c, State(c, en)))
    BY DEF Plain, ComponentArg, Word, State, BadComponentArg, IsComponentArg
  <1> QED
    BY <1>3, <1>4, <1>5 DEF Passed

\* The words after those passed on, by their places.
LEMMA OwnPlaces ==
  ASSUME NEW line, NEW m, NEW k, NEW told, MadeUp(line, m, k, told)
  PROVE  /\ \A i \in 1 .. Len(line) :
              i \in 1 .. m \/ i = m + 1 \/ i = m + 2 \/ i = m + 3 \/ i = m + 4
                \/ (i = m + 5 /\ k = 6) \/ (i = m + 6 /\ k = 6)
         /\ \A i \in 1 .. m + 4 : i \in 1 .. Len(line)
         /\ {m + 1, m + 2, m + 3, m + 4} \subseteq 1 .. m + 4
  <1>1. m \in Nat \ {0} /\ k \in {4, 6} /\ Len(line) = m + k
    BY DEF MadeUp
  <1>2. CASE k = 4
    BY <1>1, <1>2
  <1>3. CASE k = 6
    BY <1>1, <1>3
  <1> QED
    BY <1>1, <1>2, <1>3

\* Every word of a child's line is understood.
LEMMA ChildUnderstands ==
  ASSUME NEW line \in Seq(Words), NEW m, NEW k, NEW told, MadeUp(line, m, k, told),
         \A w \in told : Plain(w)
  PROVE  Understood(line)
  <1>1. m \in Nat \ {0} /\ k \in {4, 6} /\ Len(line) = m + k
    BY DEF MadeUp
  <1>2. \A f : Flag(f).flag = f
    BY DEF Flag, Word
  <1>3. \A i \in 1 .. m : Plain(line[i])
    BY DEF MadeUp
  <1>4. \A f \in DOMAIN TurnsOn \cup DOMAIN TurnsOff : Plain(Flag(f))
    BY <1>2, KindsOfWords DEF Plain, BadComponentArg, IsComponentArg
  <1>5. Plain(line[m + 1]) /\ Plain(line[m + 2])
    <2>1. Plain(Flag("--no-menu")) /\ Plain(Flag("--pause")) /\ Plain(Flag("--ti-child"))
      BY <1>4, OwnWords
    <2>2. /\ line[m + 1] \in {Flag("--no-menu"), Flag("--ti-child")}
          /\ line[m + 2] \in {Flag("--no-menu"), Flag("--pause")}
      BY DEF MadeUp
    <2> QED
      BY <2>1, <2>2
  <1>6. \A w : Plain(w) => w.flag \notin TextFlags /\ w.flag # "text"
    BY KindsOfWords DEF Plain
  <1>7. /\ line[m + 3].flag = "--log-file" /\ line[m + 4].flag = "text"
        /\ k = 6 => line[m + 5].flag = "--abort-event" /\ line[m + 6].flag = "text"
    <2>1. \A v : Text(v).flag = "text"
      BY DEF Text, Word
    <2> QED
      BY <1>2, <2>1, ZenonT(30) DEF MadeUp
  <1>8. {"--log-file", "--abort-event"} \subseteq TextFlags
    BY DEF TextFlags
  <1>9. /\ \A i : i \in 2 .. m => i - 1 \in 1 .. m
        /\ m + 1 - 1 = m /\ m + 2 - 1 = m + 1 /\ m + 3 - 1 = m + 2
        /\ m + 4 - 1 = m + 3 /\ m + 5 - 1 = m + 4 /\ m + 6 - 1 = m + 5 /\ m + 7 - 1 = m + 6
        /\ m + 1 > 1 /\ m + 2 > 1 /\ m + 3 > 1 /\ m + 4 > 1 /\ m + 5 > 1 /\ m + 6 > 1
        /\ m \in 1 .. m /\ \A i \in 1 .. m : i > 1 => i \in 2 .. m
    BY <1>1
  <1>10. /\ \A i \in 1 .. m : ~Taken(line, i)
         /\ ~Taken(line, m + 1) /\ ~Taken(line, m + 2) /\ ~Taken(line, m + 3)
         /\ Taken(line, m + 4) /\ ~Taken(line, m + 5)
         /\ k = 6 => Taken(line, m + 6) /\ ~Taken(line, m + 7)
    <2>1. \A i \in 1 .. m : ~Taken(line, i)
      BY <1>3, <1>6, <1>9 DEF Taken
    <2>2. ~Taken(line, m + 1) /\ ~Taken(line, m + 2) /\ ~Taken(line, m + 3)
      <3>1. Plain(line[m])
        BY <1>3, <1>9
      <3>2. /\ line[m].flag \notin TextFlags /\ line[m + 1].flag \notin TextFlags
            /\ line[m + 2].flag \notin TextFlags
        BY <1>5, <1>6, <3>1
      <3>3. ~Taken(line, m + 1)
        BY <1>1, <3>2 DEF Taken
      <3>4. ~Taken(line, m + 2)
        BY <1>1, <3>2 DEF Taken
      <3>5. ~Taken(line, m + 3)
        BY <1>1, <3>2 DEF Taken
      <3> QED
        BY <3>3, <3>4, <3>5
    <2>3. Taken(line, m + 4) /\ ~Taken(line, m + 5)
      BY <1>7, <1>8, <1>9, KindsOfWords, SMTT(30) DEF Taken
    <2>4. k = 6 => Taken(line, m + 6) /\ ~Taken(line, m + 7)
      BY <1>7, <1>8, <1>9, KindsOfWords, SMTT(30) DEF Taken
    <2> QED
      BY <2>1, <2>2, <2>3, <2>4
  <1>11. ~Taken(line, Len(line) + 1)
    <2>1. CASE k = 4
      BY <1>1, <1>10, <2>1
    <2>2. CASE k = 6
      BY <1>1, <1>10, <2>2
    <2> QED
      BY <1>1, <2>1, <2>2
  <1>12. ASSUME NEW i, Plain(line[i]), ~Taken(line, i)
         PROVE  Fits(line, i) /\ ~BadComponentArg(line[i])
    BY <1>6, <1>12 DEF Plain, Fits
  <1>13. ASSUME NEW i, ~Taken(line, i), line[i].flag \in {"--log-file", "--abort-event"}
         PROVE  Fits(line, i) /\ ~BadComponentArg(line[i])
    <2>1. line[i].flag # "text" /\ line[i].flag # "--component"
          /\ line[i].flag # "--ti-wait-seconds=" /\ line[i].flag \in TextFlags
      BY <1>8, <1>13, KindsOfWords
    <2> QED
      BY <1>13, <2>1 DEF Fits, BadComponentArg, IsComponentArg
  <1>14. ASSUME NEW i, Taken(line, i), line[i].flag = "text"
         PROVE  Fits(line, i) /\ ~BadComponentArg(line[i])
    BY <1>14 DEF Fits, BadComponentArg, IsComponentArg
  <1>15. ASSUME NEW i \in 1 .. Len(line)
         PROVE  Fits(line, i) /\ ~BadComponentArg(line[i])
    <2>1. i \in 1 .. m \/ i = m + 1 \/ i = m + 2 \/ i = m + 3 \/ i = m + 4
            \/ (i = m + 5 /\ k = 6) \/ (i = m + 6 /\ k = 6)
      BY OwnPlaces
    <2>2. i \in 1 .. m \/ i = m + 1 \/ i = m + 2 => Plain(line[i]) /\ ~Taken(line, i)
      BY <1>3, <1>5, <1>10
    <2>3. i = m + 3 \/ (i = m + 5 /\ k = 6) =>
            ~Taken(line, i) /\ line[i].flag \in {"--log-file", "--abort-event"}
      BY <1>7, <1>10
    <2>4. i = m + 4 \/ (i = m + 6 /\ k = 6) => Taken(line, i) /\ line[i].flag = "text"
      BY <1>7, <1>10
    <2> QED
      BY <1>12, <1>13, <1>14, <2>1, <2>2, <2>3, <2>4
  <1> QED
    BY <1>11, <1>15, UnderstoodParts

\* What a process says of its options on its child's line.
SaidOn(o, x) ==
  \/ x = "execute" /\ "execute" \in o.on
  \/ \E f \in ToSet(Forwarded) : Says(f, o) /\ f \in DOMAIN TurnsOn /\ Decides(f) = x
SaidOff(o, x) ==
  \/ x = "execute" /\ "execute" \notin o.on
  \/ \E f \in ToSet(Forwarded) : Says(f, o) /\ f \in DOMAIN TurnsOff /\ Decides(f) = x

\* What the words of a child's line are about.
LEMMA PassedWords ==
  ASSUME NEW o \in OptionsType, NEW en \in SUBSET Components, NEW w \in Passed(o, en)
  PROVE  /\ \A x : TurnOn(w, x) => SaidOn(o, x)
         /\ \A x : TurnOff(w, x) => SaidOff(o, x)
         /\ w.flag = "--ti-wait-seconds=" => w.number = o.wait
         /\ IsComponentArg(w) => ((w.value = "on") <=> w.key \in en)
  <1>1. \A f : Flag(f).flag = f
    BY DEF Flag, Word
  <1>2. CASE w = Mode(o)
    <2>1. w.flag = IF "execute" \in o.on THEN "--execute" ELSE "--dry-run"
      BY <1>1, <1>2 DEF Mode
    <2>2. /\ w.flag \notin {"--component", "--ti-wait-seconds="}
          /\ "--execute" \notin DOMAIN TurnsOff /\ "--dry-run" \notin DOMAIN TurnsOn
      BY <2>1, ForwardedDecide, KindsOfWords
    <2> QED
      BY <2>1, <2>2, ForwardedDecide DEF TurnOn, TurnOff, IsComponentArg, SaidOn, SaidOff
  <1>3. ASSUME NEW f \in ToSet(Forwarded), Says(f, o), w = Flag(f)
        PROVE  /\ w.flag = f /\ w.flag \notin {"--component", "--ti-wait-seconds="}
               /\ \A x : TurnOn(w, x) => f \in DOMAIN TurnsOn /\ Decides(f) = x
               /\ \A x : TurnOff(w, x) => f \in DOMAIN TurnsOff /\ Decides(f) = x
    <2>1. f \in DOMAIN TurnsOn \cup DOMAIN TurnsOff
      BY ForwardedSwitches DEF ToSet
    <2> QED
      BY <1>1, <1>3, <2>1, KindsOfWords DEF TurnOn, TurnOff, Decides
  <1>4. CASE \E f \in ToSet(Forwarded) : Says(f, o) /\ w = Flag(f)
    BY <1>3, <1>4 DEF IsComponentArg, SaidOn, SaidOff
  <1>5. CASE w = WaitArg(o.wait)
    <2>1. w.flag = "--ti-wait-seconds=" /\ w.number = o.wait
      BY <1>5 DEF WaitArg, Word
    <2> QED
      BY <2>1, KindsOfWords DEF TurnOn, TurnOff, IsComponentArg
  <1>6. CASE \E c \in Components : w = ComponentArg(c, State(c, en))
    <2>1. PICK c \in Components : w = ComponentArg(c, State(c, en))
      BY <1>6
    <2>2. w.flag = "--component" /\ w.key = c /\ (w.value = "on" <=> c \in en)
      BY <2>1 DEF ComponentArg, Word, State
    <2> QED
      BY <2>2, KindsOfWords DEF TurnOn, TurnOff
  <1>7. \/ w = Mode(o) \/ (\E f \in ToSet(Forwarded) : Says(f, o) /\ w = Flag(f))
        \/ w = WaitArg(o.wait) \/ (\E c \in Components : w = ComponentArg(c, State(c, en)))
    BY DEF Passed, Told
  <1> QED
    BY <1>2, <1>4, <1>5, <1>6, <1>7

LEMMA LineDecides ==
  ASSUME NEW o \in OptionsType, NEW en \in SUBSET Components,
         NEW line \in Seq(Words), NEW m, NEW k, MadeUp(line, m, k, Passed(o, en)),
         NEW i \in 1 .. Len(line)
  PROVE  /\ \A x : TurnOn(line[i], x) => SaidOn(o, x) \/ x \in {"tiChild", "pause"}
         /\ \A x : TurnOff(line[i], x) => SaidOff(o, x) \/ x = "menu"
         /\ line[i].flag = "--ti-wait-seconds=" => line[i].number = o.wait
         /\ IsComponentArg(line[i]) => ((line[i].value = "on") <=> line[i].key \in en)
  <1>1. \A f : Flag(f).flag = f
    BY DEF Flag, Word
  <1>2. CASE line[i] \in Passed(o, en)
    BY <1>2, PassedWords
  <1>3. ASSUME line[i] \in {Flag("--no-menu"), Flag("--ti-child"), Flag("--pause")}
        PROVE  /\ \A x : TurnOn(line[i], x) => x \in {"tiChild", "pause"}
               /\ \A x : TurnOff(line[i], x) => x = "menu"
               /\ line[i].flag \notin {"--component", "--ti-wait-seconds="}
    <2>1. line[i].flag \in {"--no-menu", "--ti-child", "--pause"}
      BY <1>1, <1>3
    <2>2. CASE line[i].flag = "--no-menu"
      BY <2>2, OwnWords, KindsOfWords DEF TurnOn, TurnOff
    <2>3. CASE line[i].flag = "--ti-child"
      BY <2>3, OwnWords, KindsOfWords DEF TurnOn, TurnOff
    <2>4. CASE line[i].flag = "--pause"
      BY <2>4, OwnWords, KindsOfWords DEF TurnOn, TurnOff
    <2> QED
      BY <2>1, <2>2, <2>3, <2>4
  <1>4. ASSUME line[i].flag \in TextFlags \cup {"text"}
        PROVE  /\ \A x : ~TurnOn(line[i], x) /\ ~TurnOff(line[i], x)
               /\ line[i].flag \notin {"--component", "--ti-wait-seconds="}
    BY <1>4, KindsOfWords DEF TurnOn, TurnOff
  <1>5. \/ line[i] \in Passed(o, en)
        \/ line[i] \in {Flag("--no-menu"), Flag("--ti-child"), Flag("--pause")}
        \/ line[i].flag \in TextFlags \cup {"text"}
    <2>1. i \in 1 .. m \/ i = m + 1 \/ i = m + 2 \/ i = m + 3 \/ i = m + 4
            \/ (i = m + 5 /\ k = 6) \/ (i = m + 6 /\ k = 6)
      BY OwnPlaces
    <2>2. (\A v : Text(v).flag = "text") /\ {"--log-file", "--abort-event"} \subseteq TextFlags
      BY DEF Text, Word, TextFlags
    <2>3. i \in 1 .. m => line[i] \in Passed(o, en)
      BY DEF MadeUp
    <2>4. i = m + 1 \/ i = m + 2 =>
            line[i] \in {Flag("--no-menu"), Flag("--ti-child"), Flag("--pause")}
      BY DEF MadeUp
    <2>5. /\ line[m + 3].flag = "--log-file" /\ line[m + 4].flag = "text"
          /\ k = 6 => line[m + 5].flag = "--abort-event" /\ line[m + 6].flag = "text"
      BY <1>1, <2>2, ZenonT(30) DEF MadeUp
    <2> QED
      BY <2>1, <2>2, <2>3, <2>4, <2>5
  <1> QED
    BY <1>2, <1>3, <1>4, <1>5 DEF IsComponentArg

\* The words a parent adds, by their flags.
LEMMA OwnFlags ==
  ASSUME NEW line, NEW m, NEW k, NEW told, MadeUp(line, m, k, told)
  PROVE  /\ line[m + 1].flag \in {"--no-menu", "--ti-child", "--pause"}
         /\ line[m + 2].flag \in {"--no-menu", "--ti-child", "--pause"}
         /\ line[m + 3].flag = "--log-file" /\ line[m + 4].flag = "text"
         /\ line[m + 4].value = "run log"
         /\ k = 6 => line[m + 5].flag = "--abort-event" /\ line[m + 6].flag = "text"
  <1>1. \A f : Flag(f).flag = f
    BY DEF Flag, Word
  <1>2. \A v : Text(v).flag = "text" /\ Text(v).value = v
    BY DEF Text, Word
  <1>3. /\ line[m + 1] \in {Flag("--no-menu"), Flag("--ti-child")}
        /\ line[m + 2] \in {Flag("--no-menu"), Flag("--pause")}
        /\ line[m + 3] = Flag("--log-file") /\ line[m + 4] = Text("run log")
        /\ k = 6 => line[m + 5] = Flag("--abort-event") /\ line[m + 6] = Text("event")
    BY DEF MadeUp
  <1>4. /\ line[m + 1].flag \in {"--no-menu", "--ti-child", "--pause"}
        /\ line[m + 2].flag \in {"--no-menu", "--ti-child", "--pause"}
    BY <1>1, <1>3
  <1>5. /\ line[m + 3].flag = "--log-file" /\ line[m + 4].flag = "text"
        /\ line[m + 4].value = "run log"
    BY <1>1, <1>2, <1>3
  <1>6. k = 6 => line[m + 5].flag = "--abort-event" /\ line[m + 6].flag = "text"
    BY <1>1, <1>2, <1>3
  <1> QED
    BY <1>4, <1>5, <1>6

Waits == TiWaitMin .. TiWaitMax

\* What a process can come to think of any command line.
LEMMA ConfiguredType ==
  ASSUME NEW line \in Seq(Words)
  PROVE  /\ Configured(line).opt \in OptionsType
         /\ Configured(line).opt.wait \in Waits
         /\ Configured(line).enabled \in SUBSET Components
         /\ Configured(line).opt.on = ParseArgs(line).on
         /\ Configured(line).opt.wait = ParseArgs(line).wait
         /\ Configured(line).opt.text = ParseArgs(line).text
  <1>1. PICK n \in Nat : n = Len(line) /\ \A i \in 1 .. n : line[i] \in Words
    BY LenProperties, ElementOfSeq
  <1>2. PICK st \in [0 .. n -> ParseStates] :
          /\ st[0] = Started(line)
          /\ \A i \in 1 .. n : st[i] = ReadArg(st[i - 1], line[i])
          /\ ParseArgs(line) = [st[n].opt EXCEPT !.bad = @ \/ st[n].awaits # "none"]
    BY <1>1, ParseUnfolds
  <1>3. \A v \in Int : Clamp(v) \in Waits
    BY SMTT(30) DEF Clamp, Waits, TiWaitMin, TiWaitMax
  <1> DEFINE G == {k \in 0 .. n : st[k].opt.wait \in Waits}
  <1>4. 0 \in G /\ 0 \in 0 .. n
    <2>1. 600 \in Waits
      BY DEF Waits, TiWaitMin, TiWaitMax
    <2>2. Started(line).opt.wait = 600
      BY DEF Started, DefaultOptions, WizardOptions
    <2> QED
      BY <1>1, <1>2, <2>1, <2>2
  <1>5. ASSUME NEW k \in 1 .. n, k - 1 \in G
        PROVE  k \in G
    <2>1. PICK j \in 0 .. n : j = k - 1 /\ k \in 0 .. n
      BY <1>1
    <2>2. st[j] \in ParseStates /\ st[j].opt.wait \in Waits /\ line[k] \in Words
      BY <1>1, <1>2, <1>5, <2>1
    <2>3. ReadArg(st[j], line[k]).opt.wait \in {st[j].opt.wait, Clamp(line[k].number)}
      <3>1. CASE st[j].awaits = "none"
        <4>1. ReadArg(st[j], line[k]).opt.wait =
                IF line[k].flag = "--ti-wait-seconds=" /\ line[k].value = "integer"
                THEN Clamp(line[k].number) ELSE st[j].opt.wait
          BY <2>2, <3>1, SwitchRead
        <4> QED
          BY <4>1
      <3>2. CASE st[j].awaits # "none"
        BY <2>2, <3>2, ValueRead
      <3> QED
        BY <3>1, <3>2
    <2>4. line[k].number \in Int
      BY <2>2 DEF Words
    <2>5. st[k].opt.wait \in Waits
      BY <1>2, <1>3, <2>1, <2>2, <2>3, <2>4
    <2> QED
      BY <2>1, <2>5
  <1>6. n \in G
    <2> HIDE DEF G
    <2> QED
      BY <1>4, <1>5, OnceSettled
  <1>7. st[n].opt \in OptionsType /\ st[n].opt.wait \in Waits
    BY <1>1, <1>2, <1>6 DEF ParseStates
  <1>8. ParseArgs(line) \in OptionsType /\ ParseArgs(line).wait \in Waits
    BY <1>2, <1>7 DEF OptionsType
  <1>9. PICK p \in OptionsType : p = ParseArgs(line)
    BY <1>8
  <1>10. Configured(line).opt =
           [p EXCEPT !.bad = @ \/ \E i \in DOMAIN line : BadComponentArg(line[i])]
    BY <1>9 DEF Configured
  <1>11. /\ Configured(line).opt \in OptionsType
         /\ Configured(line).opt.on = p.on
         /\ Configured(line).opt.wait = p.wait
         /\ Configured(line).opt.text = p.text
    BY <1>10 DEF OptionsType
  <1>12. Configured(line).enabled \in SUBSET Components
    <2>1. InitialSelection(p) \in SUBSET Components
      BY DEF InitialSelection
    <2>2. ApplyComponentArgs(line, InitialSelection(p)) \in SUBSET Components
      <3>1. PICK s \in [0 .. Len(line) -> SUBSET Components] :
              ApplyComponentArgs(line, InitialSelection(p)) = s[Len(line)]
        BY <2>1, ComponentLoop
      <3>2. Len(line) \in 0 .. Len(line)
        BY <1>1
      <3> QED
        BY <3>1, <3>2
    <2> QED
      BY <1>9, <2>2 DEF Configured
  <1> QED
    BY <1>8, <1>9, <1>11, <1>12

\* The round trip: the child understands every word of its line and comes to
\* the selection of its parent.
ReadBack(line, o, en) ==
  /\ line \in Seq(Words) /\ Understood(line)
  /\ Selection(Configured(line).opt, Configured(line).enabled) = Selection(o, en)
  /\ Configured(line).opt.text["--log-file"] = "run log"
  /\ {"menu", "wizard"} \cap Configured(line).opt.on = {}

LEMMA ChildReads ==
  ASSUME NEW o \in OptionsType, o.wait \in Waits, NEW en \in SUBSET Components,
         NEW child \in {"elevated", "worker"}
  PROVE  ReadBack(ChildLine(o, en, child), o, en)
  <1>0. PICK line : line = ChildLine(o, en, child)
    OBVIOUS
  <1>1. line \in Seq(Words)
    BY <1>0, ChildLineIsMadeUp
  <1>2. PICK m \in Nat, k \in Nat : MadeUp(line, m, k, Passed(o, en))
    BY <1>0, ChildLineIsMadeUp
  <1>3. Understood(line)
    BY <1>1, <1>2, ChildUnderstands, PassedWordsArePlain
  <1>4. m \in Nat \ {0} /\ Len(line) = m + k /\ k \in {4, 6}
    BY <1>2 DEF MadeUp
  <1>5. \A i \in 1 .. m : i \in 1 .. Len(line)
    BY <1>4
  <1>6. Started(line).opt.on = DefaultOptions.on
    <2>1. line # <<>>
      BY <1>1, <1>4, EmptySeq, LenProperties
    <2> QED
      BY <2>1 DEF Started
  <1>7. PICK p \in OptionsType : p = ParseArgs(line)
    BY <1>1, <1>3, UnderstoodLoop
  <1>8. /\ \A x : (\A i \in 1 .. Len(line) : ~TurnOff(line[i], x)) =>
              /\ (\E i \in 1 .. Len(line) : TurnOn(line[i], x)) => x \in p.on
              /\ x \in DefaultOptions.on => x \in p.on
        /\ \A x : (\A i \in 1 .. Len(line) : ~TurnOn(line[i], x)) =>
              /\ (\E i \in 1 .. Len(line) : TurnOff(line[i], x)) => x \notin p.on
              /\ x \notin DefaultOptions.on => x \notin p.on
    BY <1>1, <1>3, <1>6, <1>7, OptionsRead
  <1>9. \A i \in 1 .. Len(line) :
          /\ \A x : TurnOn(line[i], x) => SaidOn(o, x) \/ x \in {"tiChild", "pause"}
          /\ \A x : TurnOff(line[i], x) => SaidOff(o, x) \/ x = "menu"
    BY <1>1, <1>2, LineDecides
  <1>10. \A f : Flag(f).flag = f
    BY DEF Flag, Word
  <1>11. \A f \in ToSet(Forwarded) : Says(f, o) =>
           \E i \in 1 .. Len(line) : IF f \in DOMAIN TurnsOn THEN TurnOn(line[i], Decides(f))
                                     ELSE TurnOff(line[i], Decides(f))
    <2> SUFFICES ASSUME NEW f \in ToSet(Forwarded), Says(f, o)
                 PROVE  \E i \in 1 .. Len(line) :
                          IF f \in DOMAIN TurnsOn THEN TurnOn(line[i], Decides(f))
                          ELSE TurnOff(line[i], Decides(f))
      OBVIOUS
    <2>1. Flag(f) \in Passed(o, en)
      BY DEF Passed, Told
    <2>2. PICK i \in 1 .. Len(line) : line[i] = Flag(f)
      BY <1>2, <1>5, <2>1 DEF MadeUp
    <2>3. f \in DOMAIN TurnsOn \cup DOMAIN TurnsOff
      BY ForwardedSwitches DEF ToSet
    <2> QED
      BY <1>10, <2>2, <2>3 DEF TurnOn, TurnOff, Decides
  <1>12. \E i \in 1 .. Len(line) : IF "execute" \in o.on THEN TurnOn(line[i], "execute")
                                   ELSE TurnOff(line[i], "execute")
    <2>1. Mode(o) \in Passed(o, en)
      BY DEF Passed, Told
    <2>2. PICK i \in 1 .. Len(line) : line[i] = Mode(o)
      BY <1>2, <1>5, <2>1 DEF MadeUp
    <2>3. line[i].flag = IF "execute" \in o.on THEN "--execute" ELSE "--dry-run"
      BY <1>10, <2>2 DEF Mode
    <2> QED
      BY <2>3, ForwardedDecide DEF TurnOn, TurnOff
  <1>13. ASSUME NEW f \in ToSet(Forwarded)
         PROVE  Decides(f) \in p.on <=> Decides(f) \in o.on
    <2>0. PICK x : x = Decides(f)
      OBVIOUS
    <2>1. /\ x \notin {"execute", "menu", "pause", "tiChild"}
          /\ f \in DOMAIN TurnsOn <=> x \notin DefaultOptions.on
          /\ f \in DOMAIN TurnsOff <=> x \in DefaultOptions.on
          /\ \A g \in ToSet(Forwarded) : Decides(g) = x => g = f
      BY <2>0, ForwardedDecide
    <2>2. Says(f, o) <=> (f \in DOMAIN TurnsOn <=> x \in o.on)
      BY <2>0 DEF Says
    <2>3. \A i \in 1 .. Len(line) : TurnOn(line[i], x) => Says(f, o) /\ f \in DOMAIN TurnsOn
      BY <1>9, <2>1 DEF SaidOn
    <2>4. \A i \in 1 .. Len(line) : TurnOff(line[i], x) => Says(f, o) /\ f \in DOMAIN TurnsOff
      BY <1>9, <2>1 DEF SaidOff
    <2>5. Says(f, o) => \E i \in 1 .. Len(line) :
            IF f \in DOMAIN TurnsOn THEN TurnOn(line[i], x) ELSE TurnOff(line[i], x)
      BY <1>11, <2>0
    <2>6. ASSUME f \in DOMAIN TurnsOn
          PROVE  x \in p.on <=> x \in o.on
      <3>1. f \notin DOMAIN TurnsOff /\ x \notin DefaultOptions.on
        BY <2>1, <2>6
      <3>2. CASE x \in o.on
        BY <1>8, <2>2, <2>4, <2>5, <2>6, <3>1, <3>2
      <3>3. CASE x \notin o.on
        BY <1>8, <2>2, <2>3, <2>6, <3>1, <3>3
      <3> QED
        BY <3>2, <3>3
    <2>7. ASSUME f \notin DOMAIN TurnsOn
          PROVE  x \in p.on <=> x \in o.on
      <3>1. x \in DefaultOptions.on
        BY <2>1, <2>7
      <3>2. CASE x \in o.on
        BY <1>8, <2>2, <2>4, <2>7, <3>1, <3>2
      <3>3. CASE x \notin o.on
        BY <1>8, <2>2, <2>3, <2>5, <2>7, <3>1, <3>3
      <3> QED
        BY <3>2, <3>3
    <2> QED
      BY <2>0, <2>6, <2>7
  <1>14. "execute" \in p.on <=> "execute" \in o.on
    <2>1. \A f \in ToSet(Forwarded) : Decides(f) # "execute"
      BY ForwardedDecide
    <2>2. CASE "execute" \in o.on
      BY <1>8, <1>9, <1>12, <2>1, <2>2 DEF SaidOff
    <2>3. CASE "execute" \notin o.on
      BY <1>8, <1>9, <1>12, <2>1, <2>3 DEF SaidOn
    <2> QED
      BY <2>2, <2>3
  <1>15. "menu" \notin p.on /\ "wizard" \notin p.on
    <2>1. "menu" \notin DefaultOptions.on /\ "wizard" \notin DefaultOptions.on
      BY DEF DefaultOptions
    <2>2. \A i \in 1 .. Len(line) : ~TurnOn(line[i], "menu")
      <3>1. \A f \in ToSet(Forwarded) : Decides(f) # "menu"
        BY ForwardedDecide
      <3>2. ~SaidOn(o, "menu")
        BY <3>1 DEF SaidOn
      <3> QED
        BY <1>9, <3>2
    <2>3. \A i \in 1 .. Len(line) : ~TurnOn(line[i], "wizard")
      <3>1. \A w : ~TurnOn(w, "wizard")
        BY ForwardedDecide DEF TurnOn
      <3> QED
        BY <3>1
    <2> QED
      BY <1>8, <2>1, <2>2, <2>3
  <1>16. p.wait = o.wait
    <2>1. Clamp(o.wait) = o.wait
      <3>1. \A v \in Waits : Clamp(v) = v
        <4>1. ASSUME NEW v \in Int, 15 <= v, v <= 7200
              PROVE  Clamp(v) = v
          BY <4>1 DEF Clamp, TiWaitMin, TiWaitMax
        <4>2. \A v \in Waits : v \in Int /\ 15 <= v /\ v <= 7200
          BY SMTT(30) DEF Waits, TiWaitMin, TiWaitMax
        <4> QED
          BY <4>1, <4>2
      <3> QED
        BY <3>1
    <2>2. \A i \in 1 .. Len(line) :
            line[i].flag = "--ti-wait-seconds=" => Clamp(line[i].number) = o.wait
      BY <1>1, <1>2, <2>1, LineDecides
    <2>3. \E i \in 1 .. Len(line) : line[i].flag = "--ti-wait-seconds="
      <3>1. WaitArg(o.wait) \in Passed(o, en)
        BY DEF Passed
      <3>2. WaitArg(o.wait).flag = "--ti-wait-seconds="
        BY DEF WaitArg, Word
      <3> QED
        BY <1>2, <1>5, <3>1, <3>2 DEF MadeUp
    <2> QED
      BY <1>1, <1>3, <1>7, <2>2, <2>3, OptionsRead
  <1>17. p.text["--log-file"] = "run log"
    <2>2. /\ line[m + 3].flag = "--log-file" /\ line[m + 4].flag = "text"
          /\ line[m + 4].value = "run log"
          /\ k = 6 => line[m + 5].flag = "--abort-event"
      BY <1>2, OwnFlags
    <2>3. line[m + 1].flag # "--log-file" /\ line[m + 2].flag # "--log-file"
      <3>1. /\ line[m + 1].flag \in {"--no-menu", "--ti-child", "--pause"}
            /\ line[m + 2].flag \in {"--no-menu", "--ti-child", "--pause"}
        BY <1>2, OwnFlags
      <3> QED
        BY <3>1
    <2>4. \A j \in 1 .. m : line[j].flag # "--log-file"
      <3>1. \A w : Plain(w) => w.flag # "--log-file"
        BY KindsOfWords DEF Plain, TextFlags
      <3> QED
        BY <1>2, <3>1, PassedWordsArePlain DEF MadeUp
    <2>5. \A i \in 1 .. Len(line) :
            Taken(line, i) /\ line[i - 1].flag = "--log-file" => i = m + 4
      <3> SUFFICES ASSUME NEW i \in 1 .. Len(line), i > 1, line[i - 1].flag = "--log-file"
                   PROVE  i = m + 4
        BY DEF Taken
      <3>1. PICK j \in 1 .. Len(line) : j = i - 1 /\ i = j + 1 /\ j < Len(line)
        BY <1>4
      <3>2. j \in 1 .. m \/ j = m + 1 \/ j = m + 2 \/ j = m + 3 \/ j = m + 4
              \/ (j = m + 5 /\ k = 6) \/ (j = m + 6 /\ k = 6)
        BY <1>2, OwnPlaces
      <3>3. ~(j = m + 6 /\ k = 6)
        BY <1>4, <3>1
      <3>4. j = m + 3
        BY <2>2, <2>3, <2>4, <3>1, <3>2, <3>3
      <3> QED
        BY <1>4, <3>1, <3>4
    <2>6. /\ m + 4 \in 1 .. Len(line) /\ m + 4 > 1 /\ m + 4 - 1 = m + 3
          /\ "--log-file" \in TextFlags
      BY <1>4 DEF TextFlags
    <2>7. Taken(line, m + 4) /\ line[m + 4 - 1].flag = "--log-file"
      <3>1. line[m + 4 - 1] = line[m + 3]
        BY <2>6
      <3>2. Taken(line, m + 4) <=> line[m + 4 - 1].flag \in TextFlags
        BY <1>4 DEF Taken
      <3> QED
        BY <2>2, <2>6, <3>1, <3>2
    <2>8. \A i \in 1 .. Len(line) :
            Taken(line, i) /\ line[i - 1].flag = "--log-file" => line[i].value = "run log"
      BY <2>2, <2>5
    <2>9. \A f \in TextFlags : \A v :
            /\ \A i \in 1 .. Len(line) :
                 Taken(line, i) /\ line[i - 1].flag = f => line[i].value = v
            /\ \E i \in 1 .. Len(line) : Taken(line, i) /\ line[i - 1].flag = f
            => p.text[f] = v
      BY <1>1, <1>3, <1>7, OptionsRead
    <2>10. \E i \in 1 .. Len(line) : Taken(line, i) /\ line[i - 1].flag = "--log-file"
      BY <2>6, <2>7
    <2> QED
      BY <2>6, <2>8, <2>9, <2>10
  <1>18. Configured(line).enabled = en
    <2>1. \A i \in 1 .. Len(line) : ~BadComponentArg(line[i])
      BY <1>1, <1>3, UnderstoodParts
    <2>2. \A i \in 1 .. Len(line) : IsComponentArg(line[i]) =>
            ((line[i].value = "on") <=> line[i].key \in en)
      BY <1>1, <1>2, LineDecides
    <2>3. ASSUME NEW c \in Components
          PROVE  \E i \in 1 .. Len(line) : IsComponentArg(line[i]) /\ line[i].key = c
      <3>1. ComponentArg(c, State(c, en)) \in Passed(o, en)
        BY DEF Passed
      <3>2. /\ IsComponentArg(ComponentArg(c, State(c, en)))
            /\ ComponentArg(c, State(c, en)).key = c
        BY DEF IsComponentArg, ComponentArg, Word
      <3> QED
        BY <1>2, <1>5, <3>1, <3>2 DEF MadeUp
    <2>4. InitialSelection(p) \in SUBSET Components
      BY DEF InitialSelection
    <2>5. ApplyComponentArgs(line, InitialSelection(p)) = en
      <3>1. States(line, en)
        BY <2>1, <2>2, <2>3 DEF States
      <3> QED
        BY <1>1, <2>4, <3>1, ComponentsRead
    <2> QED
      BY <1>7, <1>15, <2>5 DEF Configured
  <1>19. Effective(Configured(line).opt) = Effective(o)
    <2>1. Configured(line).opt.on = p.on /\ Configured(line).opt.wait = p.wait
      BY <1>1, <1>7, ConfiguredType
    <2>2. p.on \cap (Decided \cup {"execute"}) = o.on \cap (Decided \cup {"execute"})
      BY <1>13, <1>14 DEF Decided
    <2> QED
      BY <1>16, <2>1, <2>2 DEF Effective, Decided
  <1> QED
    <2>1. Selection(Configured(line).opt, Configured(line).enabled) = Selection(o, en)
      BY <1>18, <1>19 DEF Selection
    <2>2. Configured(line).opt.on = p.on /\ Configured(line).opt.text = p.text
      BY <1>1, <1>7, ConfiguredType
    <2>3. ReadBack(line, o, en)
      BY <1>1, <1>3, <1>15, <1>17, <2>1, <2>2 DEF ReadBack
    <2> QED
      BY <1>0, <2>3

(***************************************************************************)
(* The run: an invariant that is inductive.                                *)
(***************************************************************************)
\* The processes and what they have read, whatever it is.
RunTypes ==
  /\ world \in Worlds
  /\ who \in {"launcher", "elevated", "worker"}
  /\ place \in {"start", "menu", "gate", "elevate", "admit", "scan", "exited"}
  /\ exit \in {-1, 0, 10, 13}
  /\ (exit # -1) => place = "exited"
  /\ opt \in OptionsType /\ opt.wait \in Waits
  /\ enabled \in SUBSET Components

\* What is known of the command line the user gave, from place to place.
Strict ==
  /\ who = "launcher" => args = world.args
  /\ who = "launcher" /\ place \in {"menu", "gate"} =>
       (~opt.bad <=> Understood(world.args))
  /\ place \in {"elevate", "admit", "scan"} /\ On("execute") => Understood(world.args)
  /\ who # "launcher" => Understood(world.args)

\* A child about to start has the line some parent made for it; one that has
\* read it never asks its user.
Child ==
  who # "launcher" =>
    /\ place = "start" =>
         \E o \in OptionsType, en \in SUBSET Components :
           o.wait \in Waits /\ handed = Selection(o, en) /\ args = ChildLine(o, en, who)
    /\ place # "start" =>
         /\ ~opt.bad /\ Selection(opt, enabled) = handed
         /\ opt.text["--log-file"] = "run log"
         /\ place # "menu"

\* The launcher was given a line that has it ask its user.
Asks == LET first == Configured(world.args).opt.on IN "menu" \in first /\ "tiChild" \notin first
Confirmed ==
  Asks =>
    /\ who = "launcher" /\ place \in {"gate", "elevate", "admit", "scan"} /\ On("execute")
         => Selection(opt, enabled) = confirmed
    /\ who # "launcher" => handed = confirmed

RunInv == RunTypes /\ Strict /\ Child /\ Confirmed

LEMMA InitRun ==
  Init => RunInv
  <1> SUFFICES ASSUME Init
               PROVE  RunInv
    OBVIOUS
  <1>1. RunTypes
    <2>1. DefaultOptions.wait = 600 /\ 600 \in Waits
      BY DEF DefaultOptions, Waits, TiWaitMin, TiWaitMax
    <2> QED
      BY <2>1, OptionTypes DEF Init, RunTypes
  <1>2. Strict /\ Child /\ Confirmed
    BY DEF Init, Strict, Child, Confirmed
  <1> QED
    BY <1>1, <1>2 DEF RunInv

LEMMA ReadByChild ==
  ASSUME RunTypes, Child, who # "launcher", place = "start"
  PROVE  /\ args \in Seq(Words) /\ Understood(args)
         /\ Selection(Configured(args).opt, Configured(args).enabled) = handed
         /\ Configured(args).opt.text["--log-file"] = "run log"
         /\ "menu" \notin Configured(args).opt.on
  <1>1. PICK child \in {"elevated", "worker"} : child = who
    BY DEF RunTypes
  <1>2. PICK o \in OptionsType, en \in SUBSET Components :
          o.wait \in Waits /\ handed = Selection(o, en) /\ args = ChildLine(o, en, child)
    BY <1>1 DEF Child
  <1>3. PICK line : line = args
    OBVIOUS
  <1>4. line = ChildLine(o, en, child) /\ o.wait \in Waits
    BY <1>2, <1>3
  <1>5. /\ line \in Seq(Words) /\ Understood(line)
        /\ Selection(Configured(line).opt, Configured(line).enabled) = Selection(o, en)
        /\ Configured(line).opt.text["--log-file"] = "run log"
        /\ {"menu", "wizard"} \cap Configured(line).opt.on = {}
    <2>1. ReadBack(line, o, en)
      BY <1>4, ChildReads
    <2> QED
      BY <2>1 DEF ReadBack
  <1> QED
    BY <1>2, <1>3, <1>5

LEMMA ReadKeeps ==
  ASSUME RunInv, ReadCommandLine
  PROVE  RunInv'
  <1>1. PICK me : me = Configured(args)
    OBVIOUS
  <1>2. /\ place = "start" /\ opt' = me.opt /\ enabled' = me.enabled
        /\ UNCHANGED <<world, who, args, handed, confirmed>>
        /\ \/ place' = "exited" /\ exit' = 0
           \/ "menu" \in me.opt.on /\ "tiChild" \notin me.opt.on
                /\ place' = "menu" /\ UNCHANGED exit
           \/ ~("menu" \in me.opt.on /\ "tiChild" \notin me.opt.on)
                /\ place' = "gate" /\ UNCHANGED exit
    BY <1>1 DEF ReadCommandLine, Exit, Unchanged
  <1>3. args \in Seq(Words)
    <2>1. CASE who = "launcher"
      BY <2>1, WorldsAssumption DEF RunInv, RunTypes, Strict
    <2>2. CASE who # "launcher"
      BY <1>2, <2>2, ReadByChild DEF RunInv, Child
    <2> QED
      BY <2>1, <2>2
  <1>4. /\ me.opt \in OptionsType /\ me.opt.wait \in Waits
        /\ me.enabled \in SUBSET Components
        /\ ~me.opt.bad <=> Understood(args)
    BY <1>1, <1>3, ConfiguredType, ParserIsStrict, Zenon
  <1>5. RunTypes'
    BY <1>2, <1>4 DEF RunInv, RunTypes
  <1>6. Strict'
    <2>1. CASE who = "launcher"
      <3>1. args = world.args /\ who' = "launcher" /\ world' = world
        BY <1>2, <2>1 DEF RunInv, Strict
      <3> QED
        BY <1>2, <1>4, <3>1 DEF Strict
    <2>2. CASE who # "launcher"
      BY <1>2, <2>2 DEF RunInv, Strict, On
    <2> QED
      BY <2>1, <2>2
  <1>7. Child'
    <2> SUFFICES ASSUME who # "launcher"
                 PROVE  Child'
      BY <1>2 DEF Child
    <2>2. /\ Understood(args)
          /\ Selection(me.opt, me.enabled) = handed
          /\ me.opt.text["--log-file"] = "run log"
          /\ "menu" \notin me.opt.on
      BY <1>1, <1>2, ReadByChild DEF RunInv
    <2> QED
      BY <1>2, <1>4, <2>2 DEF Child
  <1>8. Confirmed'
    <2> SUFFICES ASSUME Asks
                 PROVE  Confirmed'
      BY <1>2 DEF Confirmed, Asks
    <2>1. CASE who = "launcher"
      <3>1. "menu" \in me.opt.on /\ "tiChild" \notin me.opt.on
        BY <1>1, <2>1 DEF RunInv, Strict, Asks
      <3> QED
        BY <1>2, <2>1, <3>1 DEF Confirmed
    <2>2. CASE who # "launcher"
      BY <1>2, <2>2 DEF RunInv, Confirmed
    <2> QED
      BY <2>1, <2>2
  <1> QED
    BY <1>5, <1>6, <1>7, <1>8 DEF RunInv

\* The menu toggles options there are.
LEMMA ToggleNames ==
  MenuOptions \subseteq OptionNames
  <1>1. \A o \in MenuOptions : \E r \in OnSwitches : r[2] = o
    BY SMTT(60) DEF MenuOptions, OnSwitches
  <1> QED
    BY <1>1, SwitchTables DEF OptionNames

LEMMA MenuKeeps ==
  ASSUME RunInv,
         \/ \E o \in MenuOptions : ToggleOption(o)
         \/ \E c \in Components : ToggleComponent(c)
         \/ Quit \/ Start
  PROVE  RunInv'
  <1>1. /\ place = "menu" /\ who = "launcher"
        /\ UNCHANGED <<world, who, args, handed>>
    BY DEF RunInv, Child, ToggleOption, ToggleComponent, Quit, Start, Unchanged
  <1>2. /\ opt' \in OptionsType /\ opt'.wait = opt.wait /\ opt'.bad = opt.bad
        /\ enabled' \in SUBSET Components
        /\ place' \in {"menu", "gate", "exited"} /\ exit' \in {-1, 0}
        /\ exit' # -1 => place' = "exited"
    <2>0. /\ opt \in OptionsType /\ enabled \in SUBSET Components /\ exit = -1
      BY <1>1 DEF RunInv, RunTypes
    <2>1. ASSUME NEW o \in MenuOptions, ToggleOption(o)
          PROVE  /\ opt' \in OptionsType /\ opt'.wait = opt.wait /\ opt'.bad = opt.bad
                 /\ UNCHANGED <<enabled, place, exit>>
      <3>1. o \in OptionNames
        BY ToggleNames
      <3>2. Toggled(opt.on, o) \in SUBSET OptionNames
        BY <2>0, <3>1 DEF Toggled, OptionsType
      <3> QED
        BY <2>0, <2>1, <3>2 DEF ToggleOption, OptionsType
    <2>2. ASSUME NEW c \in Components, ToggleComponent(c)
          PROVE  enabled' \in SUBSET Components /\ UNCHANGED <<opt, place, exit>>
      BY <2>0, <2>2 DEF ToggleComponent, Toggled
    <2>3. Quit => UNCHANGED <<opt, enabled>> /\ place' = "exited" /\ exit' = 0
      BY DEF Quit, Exit
    <2>4. Start => UNCHANGED <<opt, enabled, exit>> /\ place' = "gate"
      BY DEF Start
    <2> QED
      BY <1>1, <2>0, <2>1, <2>2, <2>3, <2>4
  <1>3. RunTypes'
    BY <1>1, <1>2 DEF RunInv, RunTypes
  <1>4. Strict'
    BY <1>1, <1>2 DEF RunInv, Strict
  <1>5. Child'
    BY <1>1 DEF Child
  <1>6. Confirmed'
    <2>1. place' = "gate" => Start
      BY <1>1 DEF ToggleOption, ToggleComponent, Quit, Exit
    <2>2. Start /\ On("execute")' => confirmed' = Selection(opt', enabled')
      BY DEF Start, On
    <2> QED
      BY <1>1, <1>2, <2>1, <2>2 DEF Confirmed
  <1> QED
    BY <1>3, <1>4, <1>5, <1>6 DEF RunInv

LEMMA GateKeeps ==
  ASSUME RunInv,
         CheckArgs \/ GoOnAsIs \/ NoWorker \/ BeginScan \/ Scan
  PROVE  RunInv'
  <1>1. /\ UNCHANGED <<world, who, args, opt, enabled, handed, confirmed>>
        /\ \/ place = "gate" /\ place' = "exited" /\ exit' = 13
           \/ /\ place = "gate" /\ place' = "elevate" /\ UNCHANGED exit
              /\ ~(opt.bad /\ On("execute"))
           \/ place = "elevate" /\ place' = "admit" /\ UNCHANGED exit
           \/ place = "admit" /\ place' = "exited" /\ exit' = 10
           \/ place = "admit" /\ place' = "scan" /\ UNCHANGED exit
           \/ place = "scan" /\ place' \in {"scan", "exited"} /\ UNCHANGED exit
    <2>1. CASE CheckArgs
      BY <2>1 DEF CheckArgs, Exit, Unchanged
    <2>2. CASE GoOnAsIs
      BY <2>2 DEF GoOnAsIs, Unchanged
    <2>3. CASE NoWorker
      BY <2>3 DEF NoWorker, Exit, Unchanged
    <2>4. CASE BeginScan
      BY <2>4 DEF BeginScan
    <2>5. CASE Scan
      BY <2>5 DEF Scan
    <2> QED
      BY <2>1, <2>2, <2>3, <2>4, <2>5
  <1>2. RunTypes'
    BY <1>1 DEF RunInv, RunTypes
  <1>3. Strict'
    BY <1>1 DEF RunInv, Strict, On
  <1>4. Child'
    BY <1>1 DEF RunInv, Child
  <1>5. Confirmed'
    BY <1>1 DEF RunInv, Confirmed, Asks, On
  <1> QED
    BY <1>2, <1>3, <1>4, <1>5 DEF RunInv

LEMMA HandOverKeeps ==
  ASSUME RunInv, Elevate \/ StartWorker
  PROVE  RunInv'
  <1>1. PICK child \in {"elevated", "worker"} :
          /\ who' = child /\ args' = ChildLine(opt, enabled, child)
          /\ place \in {"elevate", "admit"} /\ On("execute")
          /\ place' = "start"
          /\ handed' = Selection(opt, enabled)
          /\ UNCHANGED <<world, opt, enabled, exit, confirmed>>
    <2>1. CASE Elevate
      BY <2>1 DEF Elevate, HandOver, NeedsElevation, ChildLine, Unchanged
    <2>2. CASE StartWorker
      BY <2>2 DEF StartWorker, HandOver, NeedsWorker, ChildLine, Unchanged
    <2> QED
      BY <2>1, <2>2
  <1>2. RunTypes'
    BY <1>1 DEF RunInv, RunTypes
  <1>3. Strict'
    BY <1>1 DEF RunInv, Strict
  <1>4. Child'
    BY <1>1 DEF RunInv, RunTypes, Child
  <1>5. Confirmed'
    <2>1. Asks => Selection(opt, enabled) = confirmed
      BY <1>1 DEF RunInv, Confirmed, Child
    <2> QED
      BY <1>1, <2>1 DEF Confirmed, Asks
  <1> QED
    BY <1>2, <1>3, <1>4, <1>5 DEF RunInv

LEMMA NextKeeps ==
  ASSUME RunInv, [Next]_vars
  PROVE  RunInv'
  <1>1. CASE Next
    BY <1>1, ReadKeeps, MenuKeeps, GateKeeps, HandOverKeeps DEF Next
  <1>2. CASE UNCHANGED vars
    BY <1>2 DEF vars, runVars, RunInv, RunTypes, Strict, Child, Confirmed, Asks, On
  <1> QED
    BY <1>1, <1>2

\* wmain_try and interactive_menu: the inductive invariant of the run from its
\* command line to the scan, whichever processes it goes through.
THEOREM RunInvariant == Spec => []RunInv
  BY InitRun, NextKeeps, PTL DEF Spec

(***************************************************************************)
(* What the user is promised.                                              *)
(***************************************************************************)
\* wmain_try and parse_args: whatever the command line, the catalog and the
\* disk, no scan in execute mode follows a line with a word in it that was not
\* understood.
THEOREM StrictInExecuteMode == Spec => []ExecuteIsStrict
  <1>1. RunInv => ExecuteIsStrict
    BY DEF RunInv, Strict, ExecuteIsStrict
  <1> QED
    BY <1>1, RunInvariant, PTL

\* effective_child_switches and parse_args: every selection a process can come
\* to, by whatever line and whatever its user toggled, is the one its child
\* reads from the line it is given.
THEOREM SelectionsSurvive == Spec => []SelectionSurvives
  <1>1. RunInv => SelectionSurvives
    BY DEF RunInv, Child, SelectionSurvives
  <1> QED
    BY <1>1, RunInvariant, PTL

\* interactive_menu: what was on the screen when EXECUTE was typed is what the
\* process that scans has selected, whichever process that is.
THEOREM ConfirmedRuns == Spec => []ConfirmedIsWhatRuns
  <1>1. RunInv => ConfirmedIsWhatRuns
    BY DEF RunInv, Child, Confirmed, Asks, ConfirmedIsWhatRuns
  <1> QED
    BY <1>1, RunInvariant, PTL

(***************************************************************************)
(* Paths, and where they lead.                                             *)
(***************************************************************************)
LEMMA FrontOfAppend ==
  ASSUME NEW S, NEW s \in Seq(S), NEW x \in S
  PROVE  Front(Append(s, x)) = s /\ Last(Append(s, x)) = x
  <1>1. PICK t : t = Append(s, x)
    OBVIOUS
  <1>2. /\ t \in Seq(S) /\ Len(t) = Len(s) + 1 /\ Len(s) \in Nat
        /\ t[Len(t)] = x
        /\ \A i \in 1 .. Len(s) : t[i] = s[i]
    BY <1>1, AppendProperties, LenProperties
  <1>3. Len(t) - 1 = Len(s)
    BY <1>2
  <1>4. PICK f : f = SubSeq(t, 1, Len(s))
    OBVIOUS
  <1>5. /\ f \in Seq(S) /\ Len(f) = Len(s)
        /\ \A i \in 1 .. Len(s) : f[i] = t[i]
    <2>1. PICK n \in Nat : n = Len(s)
      BY <1>2
    <2>2. \A i \in 1 .. n : t[i] \in S
      BY <1>2, <2>1
    <2>3. /\ SubSeq(t, 1, n) \in Seq(S)
          /\ Len(SubSeq(t, 1, n)) = IF 1 <= n THEN n - 1 + 1 ELSE 0
          /\ \A i \in 1 .. n - 1 + 1 : SubSeq(t, 1, n)[i] = t[1 + i - 1]
      BY <2>1, <2>2, SubSeqProperties
    <2>4. f = SubSeq(t, 1, n)
      BY <1>4, <2>1
    <2> QED
      BY <2>1, <2>3, <2>4
  <1>6. f = s
    BY <1>2, <1>5, SeqEqual
  <1> QED
    BY <1>1, <1>2, <1>3, <1>4, <1>6 DEF Front, Last

LEMMA SplitAtLast ==
  ASSUME NEW S, NEW p \in Seq(S), p # <<>>
  PROVE  /\ Front(p) \in Seq(S) /\ Last(p) \in S
         /\ p = Append(Front(p), Last(p))
         /\ Len(Front(p)) = Len(p) - 1
  <1>1. PICK s \in Seq(S), x \in S : p = Append(s, x)
    BY SequenceEmptyOrAppend
  <1>2. Front(p) = s /\ Last(p) = x
    BY <1>1, FrontOfAppend
  <1> QED
    BY <1>1, <1>2, AppendProperties, LenProperties

\* The first names of a path, before and after one is added.
LEMMA FirstNames ==
  ASSUME NEW S, NEW s \in Seq(S), NEW x \in S, NEW i \in 1 .. Len(s)
  PROVE  SubSeq(Append(s, x), 1, i) = SubSeq(s, 1, i) /\ SubSeq(s, 1, i) \in Seq(S)
  <1>1. Len(s) \in Nat /\ Append(s, x) \in Seq(S) /\ Len(Append(s, x)) = Len(s) + 1
    BY AppendProperties, LenProperties
  <1>2. i \in Nat /\ \A j \in 1 .. i : s[j] \in S /\ Append(s, x)[j] = s[j]
    BY <1>1, AppendProperties, LenProperties
  <1>3. PICK t : t = Append(s, x)
    OBVIOUS
  <1>4. \A j \in 1 .. i : t[j] \in S /\ t[j] = s[j]
    BY <1>2, <1>3
  <1>5. /\ SubSeq(t, 1, i) \in Seq(S) /\ Len(SubSeq(t, 1, i)) = i
        /\ \A j \in 1 .. i : SubSeq(t, 1, i)[j] = t[j]
    <2>1. /\ SubSeq(t, 1, i) \in Seq(S)
          /\ Len(SubSeq(t, 1, i)) = IF 1 <= i THEN i - 1 + 1 ELSE 0
          /\ \A j \in 1 .. i - 1 + 1 : SubSeq(t, 1, i)[j] = t[1 + j - 1]
      BY <1>2, <1>4, SubSeqProperties
    <2> QED
      BY <1>2, <2>1
  <1>6. /\ SubSeq(s, 1, i) \in Seq(S) /\ Len(SubSeq(s, 1, i)) = i
        /\ \A j \in 1 .. i : SubSeq(s, 1, i)[j] = s[j]
    <2>1. /\ SubSeq(s, 1, i) \in Seq(S)
          /\ Len(SubSeq(s, 1, i)) = IF 1 <= i THEN i - 1 + 1 ELSE 0
          /\ \A j \in 1 .. i - 1 + 1 : SubSeq(s, 1, i)[j] = s[1 + j - 1]
      BY <1>2, SubSeqProperties
    <2> QED
      BY <1>2, <2>1
  <1>7. SubSeq(t, 1, i) = SubSeq(s, 1, i)
    BY <1>4, <1>5, <1>6, SeqEqual
  <1> QED
    BY <1>3, <1>6, <1>7

\* What is left of a path after its first names, when one is added.
LEMMA LaterNames ==
  ASSUME NEW S, NEW s \in Seq(S), NEW x \in S, NEW i \in 0 .. Len(s)
  PROVE  /\ SubSeq(s, i + 1, Len(s)) \in Seq(S)
         /\ SubSeq(Append(s, x), i + 1, Len(s) + 1) = Append(SubSeq(s, i + 1, Len(s)), x)
  <1>1. PICK n \in Nat : n = Len(s)
    BY LenProperties
  <1>2. PICK t : t = Append(s, x)
    OBVIOUS
  <1>3. i \in Nat /\ i <= n /\ i + 1 \in Int /\ n + 1 \in Int
    BY <1>1
  <1>4. t \in Seq(S) /\ t[n + 1] = x /\ \A j \in 1 .. n : t[j] = s[j] /\ s[j] \in S
    BY <1>1, <1>2, AppendProperties, LenProperties
  <1>5. PICK u : u = SubSeq(s, i + 1, n)
    OBVIOUS
  <1>6. PICK v : v = SubSeq(t, i + 1, n + 1)
    OBVIOUS
  <1>7. /\ u \in Seq(S) /\ Len(u) = n - i
        /\ \A j \in 1 .. n - i : u[j] = s[i + j]
    <2>1. \A j \in i + 1 .. n : s[j] \in S
      BY <1>3, <1>4
    <2>2. /\ SubSeq(s, i + 1, n) \in Seq(S)
          /\ Len(SubSeq(s, i + 1, n)) = IF i + 1 <= n THEN n - (i + 1) + 1 ELSE 0
          /\ \A j \in 1 .. n - (i + 1) + 1 : SubSeq(s, i + 1, n)[j] = s[i + 1 + j - 1]
      BY <1>3, <2>1, SubSeqProperties
    <2>3. Len(u) = n - i
      BY <1>3, <1>5, <2>2
    <2>4. ASSUME NEW j \in 1 .. n - i
          PROVE  u[j] = s[i + j]
      <3>1. j \in 1 .. n - (i + 1) + 1 /\ i + 1 + j - 1 = i + j
        BY <1>3
      <3> QED
        BY <1>5, <2>2, <3>1
    <2> QED
      BY <1>5, <2>2, <2>3, <2>4
  <1>8. /\ v \in Seq(S) /\ Len(v) = n - i + 1
        /\ \A j \in 1 .. n - i + 1 : v[j] = t[i + j]
    <2>1. \A j \in i + 1 .. n + 1 : t[j] \in S
      BY <1>3, <1>4
    <2>2. /\ SubSeq(t, i + 1, n + 1) \in Seq(S)
          /\ Len(SubSeq(t, i + 1, n + 1))
               = IF i + 1 <= n + 1 THEN n + 1 - (i + 1) + 1 ELSE 0
          /\ \A j \in 1 .. n + 1 - (i + 1) + 1 :
               SubSeq(t, i + 1, n + 1)[j] = t[i + 1 + j - 1]
      BY <1>3, <2>1, SubSeqProperties
    <2>3. Len(v) = n - i + 1
      BY <1>3, <1>6, <2>2
    <2>4. ASSUME NEW j \in 1 .. n - i + 1
          PROVE  v[j] = t[i + j]
      <3>1. j \in 1 .. n + 1 - (i + 1) + 1 /\ i + 1 + j - 1 = i + j
        BY <1>3
      <3> QED
        BY <1>6, <2>2, <3>1
    <2> QED
      BY <1>6, <2>2, <2>3, <2>4
  <1>9. PICK w : w = Append(u, x)
    OBVIOUS
  <1>10. /\ w \in Seq(S) /\ Len(w) = n - i + 1 /\ w[n - i + 1] = x
         /\ \A j \in 1 .. n - i : w[j] = u[j]
    BY <1>7, <1>9, AppendProperties
  <1>11. ASSUME NEW j \in 1 .. n - i + 1
         PROVE  v[j] = w[j]
    <2>1. CASE j = n - i + 1
      <3>1. i + j = n + 1
        BY <1>3, <2>1
      <3> QED
        BY <1>4, <1>8, <1>10, <2>1, <3>1
    <2>2. CASE j # n - i + 1
      <3>1. j \in 1 .. n - i /\ i + j \in 1 .. n
        BY <1>3, <2>2
      <3> QED
        BY <1>4, <1>7, <1>8, <1>10, <3>1
    <2> QED
      BY <2>1, <2>2
  <1>12. v = w
    BY <1>8, <1>10, <1>11, SeqEqual
  <1> QED
    BY <1>1, <1>2, <1>5, <1>6, <1>7, <1>9, <1>12

LEMMA AppendAfterConcat ==
  ASSUME NEW S, NEW s \in Seq(S), NEW t \in Seq(S), NEW x \in S
  PROVE  s \o Append(t, x) = Append(s \o t, x)
  <1>1. PICK o : o = <<x>>
    OBVIOUS
  <1>2. o \in Seq(S)
    <2>1. PICK e : e = <<>>
      OBVIOUS
    <2>2. e \in Seq(S)
      BY <2>1, EmptySeq
    <2>3. Append(e, x) = e \o o /\ Append(e, x) \in Seq(S)
      BY <1>1, <2>2, AppendIsConcat, AppendProperties
    <2>4. e \o o = o
      BY <1>1, <2>1
    <2> QED
      BY <2>3, <2>4
  <1>3. Append(t, x) = t \o o
    BY <1>1, AppendIsConcat
  <1>4. s \o t \in Seq(S)
    BY ConcatProperties
  <1>5. Append(s \o t, x) = (s \o t) \o o
    BY <1>1, <1>4, AppendIsConcat
  <1>6. (s \o t) \o o = s \o (t \o o)
    BY <1>2, ConcatAssociative, SMTT(30)
  <1> QED
    BY <1>3, <1>5, <1>6

\* Where the path of a disk goes through reparse points.
Via(d, p) == {i \in 1 .. Len(p) : SubSeq(p, 1, i) \in Links(d)}
FirstVia(d, p, i) == i \in Via(d, p) /\ \A j \in Via(d, p) : i <= j

LEMMA FirstViaExists ==
  ASSUME NEW d, NEW p, Via(d, p) # {}
  PROVE  \E i \in Nat : FirstVia(d, p, i)
  <1> DEFINE R == OpToRel(<, Nat)
  <1>1. IsWellFoundedOn(R, Nat)
    BY NatLessThanWellFounded
  <1>2. Via(d, p) \subseteq Nat
    BY DEF Via
  <1>3. PICK i \in Via(d, p) : \A j \in Via(d, p) : <<j, i>> \notin R
    <2> HIDE DEF R
    <2> QED
      BY <1>1, <1>2, WFMin
  <1>4. ASSUME NEW j \in Via(d, p)
        PROVE  i <= j
    <2>1. i \in Nat /\ j \in Nat
      BY <1>2
    <2>2. ~(j < i)
      BY <1>3, <2>1 DEF OpToRel
    <2> QED
      BY <2>1, <2>2
  <1> QED
    BY <1>2, <1>3, <1>4 DEF FirstVia

LEMMA CanonicalForm ==
  ASSUME NEW d, NEW p
  PROVE  /\ Via(d, p) = {} => Canonical(d, p) = p
         /\ \A i \in Nat : FirstVia(d, p, i) =>
              Canonical(d, p) = d.links[SubSeq(p, 1, i)] \o SubSeq(p, i + 1, Len(p))
  <1>1. Via(d, p) = {} => Canonical(d, p) = p
    BY DEF Canonical, Via
  <1>2. ASSUME NEW i \in Nat, FirstVia(d, p, i)
        PROVE  Canonical(d, p) = d.links[SubSeq(p, 1, i)] \o SubSeq(p, i + 1, Len(p))
    <2> DEFINE k == CHOOSE k \in Via(d, p) : \A j \in Via(d, p) : k <= j
    <2>1. k \in Via(d, p) /\ \A j \in Via(d, p) : k <= j
      BY <1>2 DEF FirstVia
    <2>2. k = i
      <3>1. k \in Nat
        BY <2>1 DEF Via
      <3>2. k <= i /\ i <= k
        BY <1>2, <2>1 DEF FirstVia
      <3> HIDE DEF k
      <3> QED
        BY <3>1, <3>2
    <2>3. Canonical(d, p) = d.links[SubSeq(p, 1, k)] \o SubSeq(p, k + 1, Len(p))
      <3>1. Via(d, p) # {}
        BY <2>1
      <3> QED
        BY <3>1 DEF Canonical, Via
    <2> HIDE DEF k
    <2> QED
      BY <2>2, <2>3
  <1> QED
    BY <1>1, <1>2

LEMMA CanonicalType ==
  ASSUME NEW d, WellFormed(d), NEW p \in Seq(Names)
  PROVE  Canonical(d, p) \in Seq(Names)
  <1>1. CASE Via(d, p) = {}
    BY <1>1, CanonicalForm
  <1>2. CASE Via(d, p) # {}
    <2>1. PICK i \in Nat : FirstVia(d, p, i)
      BY <1>2, FirstViaExists
    <2>2. PICK n \in Nat : n = Len(p)
      BY LenProperties
    <2>3. SubSeq(p, i + 1, Len(p)) \in Seq(Names)
      <3>1. \A j \in i + 1 .. n : p[j] \in Names
        BY <2>2, LenProperties
      <3>2. i + 1 \in Int /\ n \in Int
        BY <2>2
      <3> QED
        BY <2>2, <3>1, <3>2, SubSeqProperties
    <2>4. d.links[SubSeq(p, 1, i)] \in Seq(Names)
      BY <2>1 DEF FirstVia, Via, WellFormed
    <2>5. d.links[SubSeq(p, 1, i)] \o SubSeq(p, i + 1, Len(p)) \in Seq(Names)
      BY <2>3, <2>4, ConcatProperties
    <2> QED
      BY <2>1, <2>5, CanonicalForm
  <1> QED
    BY <1>1, <1>2

\* A name added to a path is added to where the path leads, unless it is a
\* reparse point reached without one.
LEMMA CanonicalOfAppend ==
  ASSUME NEW d, WellFormed(d), NEW f \in Seq(Names), NEW x \in Names,
         Via(d, f) # {} \/ Append(f, x) \notin Links(d)
  PROVE  Canonical(d, Append(f, x)) = Append(Canonical(d, f), x)
  <1>1. PICK p : p = Append(f, x)
    OBVIOUS
  <1>2. /\ p \in Seq(Names) /\ Len(f) \in Nat /\ Len(p) = Len(f) + 1
        /\ SubSeq(p, 1, Len(p)) = p
    BY <1>1, AppendProperties, LenProperties, SubSeqFull
  <1>3. \A i \in 1 .. Len(f) : i \in Via(d, p) <=> i \in Via(d, f)
    <2> SUFFICES ASSUME NEW i \in 1 .. Len(f)
                 PROVE  i \in Via(d, p) <=> i \in Via(d, f)
      OBVIOUS
    <2>1. SubSeq(p, 1, i) = SubSeq(f, 1, i)
      BY <1>1, FirstNames
    <2>2. i \in 1 .. Len(p)
      BY <1>2
    <2> QED
      BY <2>1, <2>2 DEF Via
  <1>4. Len(p) \in Via(d, p) <=> p \in Links(d)
    <2>1. Len(p) \in 1 .. Len(p)
      BY <1>2
    <2> QED
      BY <1>2, <2>1 DEF Via
  <1>5. CASE Via(d, f) = {}
    <2>1. Via(d, p) = {}
      <3> SUFFICES ASSUME NEW i \in Via(d, p)
                   PROVE  FALSE
        OBVIOUS
      <3>1. i \in 1 .. Len(p)
        BY DEF Via
      <3>2. i \in 1 .. Len(f) \/ i = Len(p)
        BY <1>2, <3>1
      <3> QED
        BY <1>1, <1>3, <1>4, <1>5, <3>2
    <2> QED
      BY <1>1, <1>5, <2>1, CanonicalForm
  <1>6. CASE Via(d, f) # {}
    <2>1. PICK i \in Nat : FirstVia(d, f, i)
      BY <1>6, FirstViaExists
    <2>2. i \in 1 .. Len(f)
      BY <2>1 DEF FirstVia, Via
    <2>3. FirstVia(d, p, i)
      <3>1. i \in Via(d, p)
        BY <1>3, <2>1, <2>2 DEF FirstVia
      <3>2. ASSUME NEW j \in Via(d, p)
            PROVE  i <= j
        <4>1. j \in 1 .. Len(p)
          BY DEF Via
        <4>2. CASE j \in 1 .. Len(f)
          BY <1>3, <2>1, <4>2 DEF FirstVia
        <4>3. CASE j \notin 1 .. Len(f)
          BY <1>2, <2>2, <4>1, <4>3
        <4> QED
          BY <4>2, <4>3
      <3> QED
        BY <3>1, <3>2 DEF FirstVia
    <2>4. PICK t : t = d.links[SubSeq(f, 1, i)]
      OBVIOUS
    <2>5. t \in Seq(Names)
      BY <2>1, <2>4 DEF FirstVia, Via, WellFormed
    <2>6. SubSeq(p, 1, i) = SubSeq(f, 1, i)
      BY <1>1, <2>2, FirstNames
    <2>7. PICK u : u = SubSeq(f, i + 1, Len(f))
      OBVIOUS
    <2>8. u \in Seq(Names) /\ SubSeq(p, i + 1, Len(p)) = Append(u, x)
      <3>1. i \in 0 .. Len(f)
        BY <2>2
      <3>2. /\ SubSeq(f, i + 1, Len(f)) \in Seq(Names)
            /\ SubSeq(Append(f, x), i + 1, Len(f) + 1) = Append(SubSeq(f, i + 1, Len(f)), x)
        BY <3>1, LaterNames, ZenonT(30)
      <3> QED
        BY <1>1, <1>2, <2>7, <3>2
    <2>9. Canonical(d, p) = t \o Append(u, x) /\ Canonical(d, f) = t \o u
      <3>1. Canonical(d, f) = d.links[SubSeq(f, 1, i)] \o SubSeq(f, i + 1, Len(f))
        BY <2>1, CanonicalForm
      <3>2. Canonical(d, p) = d.links[SubSeq(p, 1, i)] \o SubSeq(p, i + 1, Len(p))
        BY <2>3, CanonicalForm
      <3> QED
        BY <2>4, <2>6, <2>7, <2>8, <3>1, <3>2
    <2>10. t \o Append(u, x) = Append(t \o u, x)
      BY <2>5, <2>8, AppendAfterConcat, SMTT(30)
    <2> QED
      BY <1>1, <2>9, <2>10
  <1> QED
    BY <1>5, <1>6

\* What begins with a sequence, and what is left of it.
LEMMA PrefixOfConcat ==
  ASSUME NEW S, NEW s \in Seq(S), NEW t \in Seq(S)
  PROVE  /\ IsPrefix(s, s \o t)
         /\ SubSeq(s \o t, Len(s) + 1, Len(s \o t)) = t
  <1>1. PICK c : c = s \o t
    OBVIOUS
  <1>2. PICK m \in Nat : m = Len(s)
    BY LenProperties
  <1>3. PICK k \in Nat : k = Len(t)
    BY LenProperties
  <1>4. /\ c \in Seq(S) /\ Len(c) = m + k
        /\ \A i \in 1 .. m + k : c[i] = IF i <= m THEN s[i] ELSE t[i - m]
    BY <1>1, <1>2, <1>3, ConcatProperties
  <1>5. \A i \in 1 .. m + k : c[i] \in S
    BY <1>4, LenProperties
  <1>6. SubSeq(c, 1, m) = s
    <2>1. /\ SubSeq(c, 1, m) \in Seq(S)
          /\ Len(SubSeq(c, 1, m)) = IF 1 <= m THEN m - 1 + 1 ELSE 0
          /\ \A i \in 1 .. m - 1 + 1 : SubSeq(c, 1, m)[i] = c[1 + i - 1]
      <3>1. \A i \in 1 .. m : c[i] \in S
        BY <1>5
      <3> QED
        BY <3>1, SubSeqProperties
    <2>2. Len(SubSeq(c, 1, m)) = m
      BY <2>1
    <2>3. \A i \in 1 .. m : SubSeq(c, 1, m)[i] = s[i]
      BY <1>4, <2>1
    <2> QED
      BY <1>2, <2>1, <2>2, <2>3, SeqEqual
  <1>7. SubSeq(s, 1, m) = s
    BY <1>2, SubSeqFull
  <1>8. SubSeq(c, m + 1, m + k) = t
    <2>1. PICK u : u = SubSeq(c, m + 1, m + k)
      OBVIOUS
    <2>2. \A i \in m + 1 .. m + k : c[i] \in S
      BY <1>5
    <2>3. /\ SubSeq(c, m + 1, m + k) \in Seq(S)
          /\ Len(SubSeq(c, m + 1, m + k))
               = IF m + 1 <= m + k THEN m + k - (m + 1) + 1 ELSE 0
          /\ \A i \in 1 .. m + k - (m + 1) + 1 :
               SubSeq(c, m + 1, m + k)[i] = c[m + 1 + i - 1]
      <3>1. m + 1 \in Int /\ m + k \in Int
        OBVIOUS
      <3> QED
        BY <2>2, <3>1, SubSeqProperties
    <2>4. Len(u) = k
      BY <2>1, <2>3
    <2>5. ASSUME NEW i \in 1 .. k
          PROVE  u[i] = t[i]
      <3>1. /\ i \in 1 .. m + k - (m + 1) + 1 /\ m + 1 + i - 1 = m + i
            /\ m + i \in 1 .. m + k /\ ~(m + i <= m) /\ m + i - m = i
        OBVIOUS
      <3> QED
        BY <1>4, <2>1, <2>3, <3>1
    <2> QED
      BY <1>3, <2>1, <2>3, <2>4, <2>5, SeqEqual
  <1> QED
    BY <1>1, <1>2, <1>4, <1>6, <1>7, <1>8 DEF IsPrefix

LEMMA PrefixOfLonger ==
  ASSUME NEW S, NEW s \in Seq(S), NEW t \in Seq(S), NEW u \in Seq(S),
         IsPrefix(s, t), IsPrefix(t, u)
  PROVE  IsPrefix(s, u)
  <1>1. PICK m \in Nat : m = Len(s)
    BY LenProperties
  <1>2. PICK k \in Nat : k = Len(t)
    BY LenProperties
  <1>3. PICK n \in Nat : n = Len(u)
    BY LenProperties
  <1>4. m <= k /\ k <= n /\ SubSeq(s, 1, m) = SubSeq(t, 1, m) /\ SubSeq(t, 1, k) = SubSeq(u, 1, k)
    BY <1>1, <1>2, <1>3 DEF IsPrefix
  <1>5. ASSUME NEW v \in Seq(S), NEW l \in Nat, l <= Len(v)
        PROVE  /\ SubSeq(v, 1, l) \in Seq(S) /\ Len(SubSeq(v, 1, l)) = l
               /\ \A i \in 1 .. l : SubSeq(v, 1, l)[i] = v[i]
    <2>1. \A i \in 1 .. l : v[i] \in S
      BY <1>5, LenProperties
    <2>2. /\ SubSeq(v, 1, l) \in Seq(S)
          /\ Len(SubSeq(v, 1, l)) = IF 1 <= l THEN l - 1 + 1 ELSE 0
          /\ \A i \in 1 .. l - 1 + 1 : SubSeq(v, 1, l)[i] = v[1 + i - 1]
      BY <2>1, SubSeqProperties
    <2> QED
      BY <2>2
  <1>6. \A i \in 1 .. k : t[i] = u[i]
    BY <1>2, <1>3, <1>4, <1>5
  <1>7. \A i \in 1 .. m : SubSeq(t, 1, m)[i] = SubSeq(u, 1, m)[i]
    BY <1>2, <1>3, <1>4, <1>5, <1>6
  <1>8. /\ SubSeq(t, 1, m) \in Seq(S) /\ Len(SubSeq(t, 1, m)) = m
        /\ SubSeq(u, 1, m) \in Seq(S) /\ Len(SubSeq(u, 1, m)) = m
    BY <1>2, <1>3, <1>4, <1>5
  <1>9. SubSeq(t, 1, m) = SubSeq(u, 1, m)
    BY <1>7, <1>8, SeqEqual
  <1> QED
    BY <1>1, <1>3, <1>4, <1>9 DEF IsPrefix

\* A real directory is where its path leads, whether its last name is
\* followed or not.
LEMMA DirIsCanonical ==
  ASSUME NEW d, WellFormed(d), NEW p \in NonEmptyPaths, KindOf(d, p) = "dir"
  PROVE  Canonical(d, p) = Located(d, p) /\ Located(d, p) \in d.dirs
  <1>1. /\ Front(p) \in Seq(Names) /\ Last(p) \in Names
        /\ p = Append(Front(p), Last(p))
    BY SplitAtLast DEF NonEmptyPaths
  <1>2. Located(d, p) \in d.dirs
    BY DEF KindOf
  <1>3. Located(d, p) = Append(Canonical(d, Front(p)), Last(p))
    BY DEF Located
  <1>4. Located(d, p) \notin Links(d)
    BY <1>2 DEF WellFormed
  <1>5. Via(d, Front(p)) # {} \/ Append(Front(p), Last(p)) \notin Links(d)
    <2>1. Via(d, Front(p)) = {} => Canonical(d, Front(p)) = Front(p)
      BY CanonicalForm
    <2> QED
      BY <1>3, <1>4, <2>1
  <1>6. Canonical(d, Append(Front(p), Last(p))) = Append(Canonical(d, Front(p)), Last(p))
    BY <1>1, <1>5, CanonicalOfAppend
  <1> QED
    BY <1>1, <1>2, <1>3, <1>6

(***************************************************************************)
(* The walk.                                                               *)
(***************************************************************************)
\* A folder the walk enters: a real directory that leads to where its root
\* leads, and further by the names it has below that root.
Walked(p) ==
  /\ p \in Seq(Names) /\ KindOf(disk, p) = "dir"
  /\ \E r \in SearchRoots, t \in Seq(Names) :
       p = r \o t /\ Canonical(disk, p) = Canonical(disk, r) \o t

\* A path the walk may take: what goes with it lies in a root.
InRoot(e) == \E r \in SearchRoots : IsPrefix(Canonical(disk, r), e)
Held(p) ==
  /\ p \in NonEmptyPaths /\ p \in Paths
  /\ Located(disk, p) \in Seq(Names)
  /\ InRoot(Located(disk, p))

LEMMA EntryPath ==
  ASSUME NEW r \in SearchRoots, NEW t \in Seq(Names), Canonical(disk, r) \in Seq(Names),
         Canonical(disk, r) \o t \in Entries(disk)
  PROVE  r \o t \in Paths /\ InRoot(Canonical(disk, r) \o t)
  <1>1. PICK c \in Seq(Names) : c = Canonical(disk, r)
    OBVIOUS
  <1>2. PICK e \in Entries(disk) : e = c \o t
    BY <1>1
  <1>3. IsPrefix(c, e) /\ SubSeq(e, Len(c) + 1, Len(e)) = t
    BY <1>2, PrefixOfConcat
  <1>4. r \o t \in Paths
    <2> DEFINE Below(q) == {f \in Entries(disk) : IsPrefix(Canonical(disk, q), f)}
               Named(q) == {q \o SubSeq(f, Len(Canonical(disk, q)) + 1, Len(f)) : f \in Below(q)}
    <2>1. e \in Below(r)
      BY <1>1, <1>3
    <2>2. r \o SubSeq(e, Len(Canonical(disk, r)) + 1, Len(e)) \in Named(r)
      BY <2>1
    <2>3. r \o t \in Named(r)
      BY <1>1, <1>3, <2>2
    <2>4. Paths = UNION {Named(q) : q \in SearchRoots}
      BY DEF Paths
    <2> HIDE DEF Named
    <2> QED
      BY <2>3, <2>4
  <1> QED
    BY <1>1, <1>2, <1>3, <1>4 DEF InRoot

LEMMA DirEntry ==
  ASSUME WellFormed(disk), NEW d \in disk.dirs
  PROVE  d \in NonEmptyPaths /\ Located(disk, d) = d /\ KindOf(disk, d) = "dir"
  <1>1. d \in Entries(disk)
    BY DEF Entries
  <1>2. d \in NonEmptyPaths
    BY <1>1 DEF WellFormed
  <1>3. /\ Front(d) \in Seq(Names) /\ Last(d) \in Names
        /\ d = Append(Front(d), Last(d)) /\ Len(Front(d)) = Len(d) - 1
    BY <1>2, SplitAtLast DEF NonEmptyPaths
  <1>4. Via(disk, Front(d)) = {}
    <2> SUFFICES ASSUME NEW i \in Via(disk, Front(d))
                 PROVE  FALSE
      OBVIOUS
    <2>1. i \in 1 .. Len(Front(d)) /\ SubSeq(Front(d), 1, i) \in Links(disk)
      BY DEF Via
    <2>2. SubSeq(d, 1, i) = SubSeq(Front(d), 1, i)
      BY <1>3, <2>1, FirstNames
    <2>3. i \in 1 .. Len(d) - 1
      BY <1>3, <2>1
    <2> QED
      BY <1>1, <2>1, <2>2, <2>3 DEF WellFormed
  <1>5. Located(disk, d) = d
    BY <1>3, <1>4, CanonicalForm DEF Located
  <1>6. /\ Located(disk, d) \in disk.dirs
        /\ Located(disk, d) \notin disk.files /\ Located(disk, d) \notin Links(disk)
    BY <1>5 DEF WellFormed
  <1>7. KindOf(disk, d) = "dir"
    BY <1>6 DEF KindOf
  <1> QED
    BY <1>2, <1>5, <1>7

LEMMA RootsAreDirs ==
  ASSUME WellFormed(disk), NEW r \in SearchRoots
  PROVE  /\ r \in NonEmptyPaths /\ KindOf(disk, r) = "dir"
         /\ Canonical(disk, r) \in Seq(Names)
         /\ Canonical(disk, r) = Located(disk, r) /\ Located(disk, r) \in disk.dirs
  <1>1. r \in NonEmptyPaths /\ KindOf(disk, r) = "dir"
    <2>1. CASE r \in disk.dirs
      BY <2>1, DirEntry
    <2>2. CASE r \in FixedPlaces /\ KindOf(disk, r) = "dir"
      BY <2>2, PlacesAssumption
    <2>3. ASSUME NEW u \in Profiles, NEW s \in ProfileSuffixes, r = u \o s,
                 KindOf(disk, r) = "dir"
          PROVE  r \in NonEmptyPaths
      <3>1. s \in Seq(Names) /\ s # <<>>
        BY PlacesAssumption DEF NonEmptyPaths
      <3>2. u \in Seq(Names)
        BY DirEntry DEF Profiles, NonEmptyPaths
      <3>3. u \o s \in Seq(Names)
        BY <3>1, <3>2, ConcatProperties
      <3>4. u \o s # <<>>
        BY <3>1, <3>2, ConcatEqualIffEmpty
      <3> QED
        BY <2>3, <3>3, <3>4 DEF NonEmptyPaths
    <2> QED
      BY <2>1, <2>2, <2>3 DEF SearchRoots
  <1>2. r \in Seq(Names)
    BY <1>1 DEF NonEmptyPaths
  <1> QED
    BY <1>1, <1>2, CanonicalType, DirIsCanonical

LEMMA RootHeld ==
  ASSUME WellFormed(disk), NEW r \in SearchRoots
  PROVE  Held(r) /\ Walked(r)
  <1>1. /\ r \in NonEmptyPaths /\ r \in Seq(Names) /\ KindOf(disk, r) = "dir"
        /\ Canonical(disk, r) \in Seq(Names)
        /\ Canonical(disk, r) = Located(disk, r) /\ Located(disk, r) \in disk.dirs
    BY RootsAreDirs DEF NonEmptyPaths
  <1>2. PICK t : t = <<>>
    OBVIOUS
  <1>3. t \in Seq(Names)
    BY <1>2, EmptySeq
  <1>4. r \o t = r /\ Canonical(disk, r) \o t = Canonical(disk, r)
    BY <1>1, <1>2, ConcatEmptySeq
  <1>5. Canonical(disk, r) \o t \in Entries(disk)
    BY <1>1, <1>4 DEF Entries
  <1>6. r \o t \in Paths /\ InRoot(Canonical(disk, r) \o t)
    BY <1>1, <1>3, <1>5, EntryPath
  <1> QED
    BY <1>1, <1>3, <1>4, <1>6 DEF Held, Walked

\* An entry of a folder that is walked leads where its name says: in the
\* folder's root, whatever links there are.
LEMMA EntryHeld ==
  ASSUME WellFormed(disk), NEW d, Walked(d), NEW p \in Listing(disk, d)
  PROVE  Held(p) /\ (KindOf(disk, p) = "dir" => Walked(p))
  <1>1. PICK r \in SearchRoots, t \in Seq(Names) :
          d = r \o t /\ Canonical(disk, d) = Canonical(disk, r) \o t
    BY DEF Walked
  <1>2. PICK e \in Entries(disk) : Front(e) = Canonical(disk, d) /\ p = Append(d, Last(e))
    BY DEF Listing
  <1>3. PICK x \in Names : x = Last(e) /\ e = Append(Canonical(disk, d), x)
    <2>1. e \in Seq(Names) /\ e # <<>>
      BY DEF WellFormed, NonEmptyPaths
    <2>2. Last(e) \in Names /\ e = Append(Front(e), Last(e))
      BY <2>1, SplitAtLast
    <2> QED
      BY <1>2, <2>2
  <1>4. d \in Seq(Names) /\ r \in Seq(Names) /\ Canonical(disk, r) \in Seq(Names)
    BY RootsAreDirs DEF Walked, NonEmptyPaths
  <1>5. p = Append(d, x) /\ Front(p) = d /\ Last(p) = x /\ p \in NonEmptyPaths /\ p \in Seq(Names)
    BY <1>2, <1>3, <1>4, FrontOfAppend, AppendProperties DEF NonEmptyPaths
  <1>6. Located(disk, p) = e
    BY <1>3, <1>5 DEF Located
  <1>7. PICK u : u = Append(t, x)
    OBVIOUS
  <1>8. u \in Seq(Names)
    BY <1>7, AppendProperties
  <1>9. p = r \o u
    <2>1. r \o Append(t, x) = Append(r \o t, x)
      BY <1>4, AppendAfterConcat
    <2> QED
      BY <1>1, <1>5, <1>7, <2>1
  <1>10. e = Canonical(disk, r) \o u
    <2>1. PICK c \in Seq(Names) : c = Canonical(disk, r)
      BY <1>4
    <2>2. c \o Append(t, x) = Append(c \o t, x)
      BY AppendAfterConcat
    <2> QED
      BY <1>1, <1>3, <1>7, <2>1, <2>2
  <1>11. p \in Paths /\ InRoot(e)
    BY <1>4, <1>8, <1>9, <1>10, EntryPath
  <1>12. e \in Seq(Names)
    BY DEF WellFormed, NonEmptyPaths
  <1>13. Held(p)
    BY <1>5, <1>6, <1>11, <1>12 DEF Held
  <1>14. ASSUME KindOf(disk, p) = "dir"
         PROVE  Walked(p)
    <2>1. Canonical(disk, p) = e
      BY <1>5, <1>6, <1>14, DirIsCanonical
    <2> QED
      BY <1>5, <1>8, <1>9, <1>10, <1>14, <2>1 DEF Walked
  <1> QED
    BY <1>13, <1>14

(***************************************************************************)
(* The collapse of candidates that lie in others.                          *)
(***************************************************************************)
\* The length of a path's text is a number.
LEMMA PathSizeType ==
  ASSUME NEW p \in Seq(Names)
  PROVE  PathSize(p) \in Nat
  <1> DEFINE n == Len(p)
             op == [x \in Nat \X (1 .. n) |-> x[1] + Size[p[x[2]]] + 1]
  <1>1. n \in Nat /\ DOMAIN p = 1 .. n /\ \A i \in 1 .. n : p[i] \in Names
    BY LenProperties
  <1>2. \A m \in Nat, i \in 1 .. n : m + Size[p[i]] + 1 \in Nat
    BY <1>1, SizeAssumption
  <1>3. op \in Steps(n, Nat)
    BY <1>2 DEF Steps
  <1>4. \A m \in Nat, i \in 1 .. n : op[<<m, i>>] = m + Size[p[i]] + 1
    OBVIOUS
  <1>5. PICK start \in Nat : start = 0
    OBVIOUS
  <1> HIDE DEF op, n
  <1>6. PICK g : Solves(g, n, Nat, start, op)
    BY <1>1, <1>3, IterExists
  <1> DEFINE Step(f, s) == IF s = {} THEN start ELSE f[s \ {Max(s)}] + Size[p[Max(s)]] + 1
             Is(f) == f = [s \in SUBSET (1 .. n) |-> Step(f, s)]
             iter == CHOOSE f : Is(f)
  <1>7. \A s \in SUBSET (1 .. n) : s # {} =>
          Max(s) \in 1 .. n /\ s \ {Max(s)} \in SUBSET (1 .. n)
    BY <1>1, MaxIsIn
  <1>8. ASSUME NEW s \in SUBSET (1 .. n)
        PROVE  g[s] = Step(g, s)
    BY <1>4, <1>6, <1>7 DEF Solves
  <1>9. Is(g)
    BY <1>6, <1>8 DEF Solves
  <1>10. Is(iter)
    <2> HIDE DEF Is
    <2> QED
      BY <1>9
  <1>11. PathSize(p) = iter[1 .. n]
    BY <1>1, <1>5 DEF PathSize, FoldLeft, MapThenFoldSet
  <1> HIDE DEF iter
  <1>12. \A s \in SUBSET (1 .. n) : iter[s] = Step(iter, s)
    BY <1>10
  <1>13. iter[{}] = start
    BY <1>12
  <1>14. Recurs(iter, n, Nat, start, op)
    BY <1>4, <1>7, <1>12, <1>13, ZenonT(30) DEF Recurs
  <1>15. PICK st : Unfolds(st, n, Nat, start, op) /\ iter[1 .. n] = st[n]
    <2>1. op \in Steps(n, Nat) /\ n \in Nat /\ start \in Nat
      BY <1>1, <1>3
    <2>2. PICK T : T = Nat
      OBVIOUS
    <2>3. op \in Steps(n, T) /\ start \in T /\ Recurs(iter, n, T, start, op)
      BY <1>14, <2>1, <2>2
    <2>4. \E st : Unfolds(st, n, T, start, op) /\ iter[1 .. n] = st[n]
      BY <2>1, <2>3, IterUnrolls
    <2> QED
      BY <2>2, <2>4
  <1> QED
    BY <1>1, <1>11, <1>15 DEF Unfolds

\* Of finitely many paths one is the longest.
LEMMA LongestIsIn ==
  ASSUME NEW F \in SUBSET Seq(Names), IsFiniteSet(F), F # {}
  PROVE  Longest(F) \in F
  <1> DEFINE Longer(s) == \E p \in s : \A q \in s : PathSize(q) <= PathSize(p)
             n == Cardinality(F)
             A == {k \in 0 .. n : \A s \in SUBSET F :
                     Cardinality(s) = k /\ s # {} => Longer(s)}
  <1>1. n \in Nat /\ \A s \in SUBSET F : IsFiniteSet(s) /\ Cardinality(s) \in Nat
    BY FS_CardinalityType, FS_Subset
  <1>2. 0 \in A
    <2>1. \A s \in SUBSET F : Cardinality(s) = 0 => s = {}
      BY <1>1, FS_EmptySet
    <2>2. 0 \in 0 .. n
      BY <1>1
    <2>3. \A s \in SUBSET F : Cardinality(s) = 0 /\ s # {} => Longer(s)
      BY <2>1
    <2> HIDE DEF Longer, n
    <2> QED
      BY <2>2, <2>3
  <1>3. ASSUME NEW k \in 1 .. n, k - 1 \in A
        PROVE  k \in A
    <2> SUFFICES ASSUME NEW s \in SUBSET F, Cardinality(s) = k, s # {}
                 PROVE  Longer(s)
      BY <1>1, SMTT(30)
    <2>1. PICK x \in s : TRUE
      OBVIOUS
    <2>2. s \ {x} \in SUBSET F /\ Cardinality(s \ {x}) = k - 1
      BY <1>1, FS_RemoveElement
    <2>3. \A q \in s : PathSize(q) \in Nat
      BY PathSizeType
    <2>4. CASE s \ {x} = {}
      <3>1. s = {x}
        BY <2>4
      <3> QED
        BY <2>3, <3>1
    <2>5. CASE s \ {x} # {}
      <3>1. Longer(s \ {x})
        BY <1>3, <2>2, <2>5
      <3>2. PICK p \in s \ {x} : \A q \in s \ {x} : PathSize(q) <= PathSize(p)
        BY <3>1
      <3>3. CASE PathSize(x) <= PathSize(p)
        <4>1. \A q \in s : PathSize(q) <= PathSize(p)
          BY <3>2, <3>3
        <4> QED
          BY <4>1
      <3>4. CASE ~(PathSize(x) <= PathSize(p))
        <4>1. ASSUME NEW q \in s
              PROVE  PathSize(q) <= PathSize(x)
          <5>1. PathSize(q) \in Nat /\ PathSize(x) \in Nat /\ PathSize(p) \in Nat
            BY <2>3
          <5>2. q = x \/ PathSize(q) <= PathSize(p)
            BY <3>2
          <5> QED
            BY <3>4, <5>1, <5>2
        <4> QED
          BY <4>1
      <3> QED
        BY <3>3, <3>4
    <2> QED
      BY <2>4, <2>5
  <1>4. n \in A
    <2> HIDE DEF A
    <2>1. \A k \in 0 .. n : k \in A
      BY <1>1, <1>2, <1>3, CountUp
    <2> QED
      BY <1>1, <2>1
  <1>5. Longer(F)
    BY <1>4
  <1> QED
    BY <1>5 DEF Longest

\* One step of the collapse, on what has been kept of the shorter ones; a
\* function that follows the collapse on the sets in a family.
Kept(f, s) == IF s = {} THEN {} ELSE KeepUnlessNested(Longest(s), f[s \ {Longest(s)}])
UpTo(F, k) == {s \in SUBSET F : Cardinality(s) <= k}
Follows(f, F, k) ==
  f \in [UpTo(F, k) -> SUBSET F] /\ \A s \in UpTo(F, k) : f[s] = Kept(f, s)

\* A set and the same without its longest path, which may be kept.
LEMMA OneKept ==
  ASSUME NEW F \in SUBSET Seq(Names), IsFiniteSet(F), NEW s \in SUBSET F, s # {}
  PROVE  /\ s \ {Longest(s)} \in SUBSET F
         /\ Cardinality(s) \in Nat /\ Cardinality(s \ {Longest(s)}) = Cardinality(s) - 1
         /\ \A g \in SUBSET F : KeepUnlessNested(Longest(s), g) \in SUBSET F
  <1>1. IsFiniteSet(s)
    BY FS_Subset
  <1>2. s \in SUBSET Seq(Names)
    OBVIOUS
  <1>3. Longest(s) \in s
    BY <1>1, <1>2, LongestIsIn
  <1>4. Cardinality(s) \in Nat /\ Cardinality(s \ {Longest(s)}) = Cardinality(s) - 1
    BY <1>1, <1>3, FS_CardinalityType, FS_RemoveElement
  <1> QED
    BY <1>3, <1>4 DEF KeepUnlessNested

LEMMA CollapseHasSolution ==
  ASSUME NEW F \in SUBSET Seq(Names), IsFiniteSet(F)
  PROVE  \E f : Follows(f, F, Cardinality(F))
  <1> DEFINE n == Cardinality(F)
             A == {k \in 0 .. n : \E f : Follows(f, F, k)}
  <1>1. n \in Nat /\ \A s \in SUBSET F : IsFiniteSet(s) /\ Cardinality(s) \in Nat
    BY FS_CardinalityType, FS_Subset
  <1>2. 0 \in A
    <2> DEFINE f == [s \in UpTo(F, 0) |-> {}]
    <2>1. \A s \in UpTo(F, 0) : s = {}
      BY <1>1, FS_EmptySet DEF UpTo
    <2>2. Follows(f, F, 0)
      BY <2>1 DEF Follows, Kept
    <2>3. 0 \in 0 .. n
      BY <1>1
    <2> HIDE DEF f, n
    <2> QED
      BY <2>2, <2>3
  <1>3. ASSUME NEW k \in 1 .. n, k - 1 \in A
        PROVE  k \in A
    <2>1. PICK j \in Nat : j = k - 1 /\ j + 1 = k
      OBVIOUS
    <2>2. PICK f : Follows(f, F, j)
      BY <1>3, <2>1
    <2> DEFINE g == [s \in UpTo(F, k) |-> IF s \in UpTo(F, j) THEN f[s] ELSE Kept(f, s)]
    <2>3. ASSUME NEW s \in UpTo(F, k), s # {}
          PROVE  s \ {Longest(s)} \in UpTo(F, j) /\ s \ {Longest(s)} \in UpTo(F, k)
      <3>1. s \in SUBSET F /\ Cardinality(s) <= k
        BY DEF UpTo
      <3>2. /\ s \ {Longest(s)} \in SUBSET F
            /\ Cardinality(s) \in Nat
            /\ Cardinality(s \ {Longest(s)}) = Cardinality(s) - 1
        BY <2>3, <3>1, OneKept
      <3>3. Cardinality(s \ {Longest(s)}) <= j /\ Cardinality(s \ {Longest(s)}) <= k
        BY <2>1, <3>1, <3>2
      <3> QED
        BY <3>2, <3>3 DEF UpTo
    <2>4. \A s \in UpTo(F, j) : s \in UpTo(F, k)
      <3> SUFFICES ASSUME NEW s \in UpTo(F, j)
                   PROVE  s \in UpTo(F, k)
        OBVIOUS
      <3>1. s \in SUBSET F /\ Cardinality(s) <= j /\ Cardinality(s) \in Nat
        BY <1>1 DEF UpTo
      <3>2. Cardinality(s) <= k
        BY <2>1, <3>1
      <3> QED
        BY <3>1, <3>2 DEF UpTo
    <2>5. \A s \in UpTo(F, k) : Kept(f, s) \in SUBSET F
      <3> SUFFICES ASSUME NEW s \in UpTo(F, k)
                   PROVE  Kept(f, s) \in SUBSET F
        OBVIOUS
      <3>1. CASE s = {}
        BY <3>1 DEF Kept
      <3>2. CASE s # {}
        <4>1. f[s \ {Longest(s)}] \in SUBSET F
          BY <2>2, <2>3, <3>2 DEF Follows
        <4>2. s \in SUBSET F
          BY DEF UpTo
        <4>3. PICK o \in SUBSET F : o = f[s \ {Longest(s)}]
          BY <4>1
        <4>4. \A h \in SUBSET F : KeepUnlessNested(Longest(s), h) \in SUBSET F
          BY <3>2, <4>2, OneKept
        <4>5. KeepUnlessNested(Longest(s), o) \in SUBSET F
          BY <4>4
        <4> QED
          BY <3>2, <4>3, <4>5 DEF Kept
      <3> QED
        BY <3>1, <3>2
    <2>6. g \in [UpTo(F, k) -> SUBSET F]
      BY <2>2, <2>5 DEF Follows
    <2>7. ASSUME NEW s \in UpTo(F, k)
          PROVE  g[s] = Kept(g, s)
      <3>1. g[s] = Kept(f, s)
        BY <2>2 DEF Follows
      <3>2. s # {} => g[s \ {Longest(s)}] = f[s \ {Longest(s)}]
        BY <2>3
      <3> HIDE DEF g
      <3> QED
        BY <3>1, <3>2 DEF Kept
    <2> HIDE DEF g
    <2>8. Follows(g, F, k)
      BY <2>6, <2>7 DEF Follows
    <2> QED
      BY <2>8
  <1>4. n \in A
    <2> HIDE DEF A
    <2>1. \A k \in 0 .. n : k \in A
      BY <1>1, <1>2, <1>3, CountUp
    <2> QED
      BY <1>1, <2>1
  <1> QED
    BY <1>4

\* The collapse only leaves candidates out.
LEMMA CollapseKeepsSome ==
  ASSUME NEW F \in SUBSET Seq(Names), IsFiniteSet(F)
  PROVE  CollapseNestedCandidates(F) \in SUBSET F
  <1> DEFINE n == Cardinality(F)
             Is(f) == f = [s \in SUBSET F |-> Kept(f, s)]
             iter == CHOOSE f : Is(f)
             A == {k \in 0 .. n : \A s \in UpTo(F, k) : iter[s] \in SUBSET F}
  <1>1. n \in Nat /\ \A s \in SUBSET F : IsFiniteSet(s) /\ Cardinality(s) \in Nat
    BY FS_CardinalityType, FS_Subset
  <1>2. UpTo(F, n) = SUBSET F
    <2>1. \A s \in SUBSET F : Cardinality(s) <= n
      BY FS_Subset
    <2> QED
      BY <2>1 DEF UpTo
  <1>3. PICK f : Follows(f, F, n)
    BY CollapseHasSolution
  <1>4. Is(f)
    BY <1>2, <1>3 DEF Follows
  <1>5. Is(iter)
    <2> HIDE DEF Is
    <2> QED
      BY <1>4
  <1>6. CollapseNestedCandidates(F) = iter[F]
    BY DEF CollapseNestedCandidates, MapThenFoldSet, Kept
  <1> HIDE DEF iter
  <1>7. \A s \in SUBSET F : iter[s] = Kept(iter, s)
    BY <1>5
  <1>8. 0 \in A
    <2>1. \A s \in UpTo(F, 0) : s = {}
      BY <1>1, FS_EmptySet DEF UpTo
    <2>2. \A s \in UpTo(F, 0) : iter[s] \in SUBSET F
      BY <1>7, <2>1 DEF Kept
    <2>3. 0 \in 0 .. n
      BY <1>1
    <2> HIDE DEF n
    <2> QED
      BY <2>2, <2>3
  <1>9. ASSUME NEW k \in 1 .. n, k - 1 \in A
        PROVE  k \in A
    <2>1. ASSUME NEW s \in UpTo(F, k), s # {}
          PROVE  iter[s] \in SUBSET F
      <3>1. s \in SUBSET F /\ Cardinality(s) <= k
        BY DEF UpTo
      <3>2. /\ s \ {Longest(s)} \in SUBSET F
            /\ Cardinality(s) \in Nat
            /\ Cardinality(s \ {Longest(s)}) = Cardinality(s) - 1
            /\ \A g \in SUBSET F : KeepUnlessNested(Longest(s), g) \in SUBSET F
        BY <2>1, <3>1, OneKept
      <3>3. Cardinality(s \ {Longest(s)}) <= k - 1
        BY <3>1, <3>2
      <3>4. s \ {Longest(s)} \in UpTo(F, k - 1)
        BY <3>2, <3>3 DEF UpTo
      <3>5. iter[s \ {Longest(s)}] \in SUBSET F
        BY <1>9, <3>4
      <3>6. PICK o \in SUBSET F : o = iter[s \ {Longest(s)}]
        BY <3>5
      <3>7. KeepUnlessNested(Longest(s), o) \in SUBSET F
        BY <3>2
      <3>8. iter[s] = KeepUnlessNested(Longest(s), o)
        BY <1>7, <2>1, <3>1, <3>6 DEF Kept
      <3> QED
        BY <3>7, <3>8
    <2>2. iter[{}] \in SUBSET F
      BY <1>7 DEF Kept
    <2>3. \A s \in UpTo(F, k) : iter[s] \in SUBSET F
      BY <2>1, <2>2
    <2>4. k \in 0 .. n
      BY <1>1
    <2> QED
      BY <2>3, <2>4
  <1>10. n \in A
    <2> HIDE DEF A
    <2>1. \A k \in 0 .. n : k \in A
      BY <1>1, <1>8, <1>9, CountUp
    <2> QED
      BY <1>1, <2>1
  <1>11. iter[F] \in SUBSET F
    BY <1>2, <1>10
  <1> QED
    BY <1>6, <1>11

(***************************************************************************)
(* The scan: an invariant that is inductive.                               *)
(***************************************************************************)
\* A folder on the stack, with the entries of it that are still to be visited.
Frames ==
  {w \in [dir : Seq(Names), rest : SUBSET Seq(Names)] :
     Walked(w.dir) /\ w.rest \subseteq Listing(disk, w.dir)}

ScanInv ==
  /\ disk = world.disk /\ WellFormed(disk)
  /\ dpc \in {"off", "scan", "done"}
  /\ roots \subseteq SearchRoots
  /\ stack \in Seq(Frames)
  /\ IsFiniteSet(found)
  /\ \A p \in found : Held(p)

LEMMA SameDisk ==
  ASSUME UNCHANGED disk
  PROVE  /\ SearchRoots' = SearchRoots /\ Paths' = Paths /\ Frames' = Frames
         /\ \A p : Held(p)' <=> Held(p)
  <1>1. SearchRoots' = SearchRoots
    BY DEF SearchRoots, Profiles
  <1>2. Paths' = Paths
    BY <1>1 DEF Paths
  <1>3. \A p : Walked(p)' <=> Walked(p)
    BY <1>1 DEF Walked
  <1>4. Frames' = Frames
    BY <1>3 DEF Frames
  <1>5. \A p : Held(p)' <=> Held(p)
    BY <1>1, <1>2 DEF Held, InRoot
  <1> QED
    BY <1>1, <1>2, <1>4, <1>5

\* A step of the scan that leaves the disk alone and keeps what it goes by.
LEMMA ScanKept ==
  ASSUME ScanInv, UNCHANGED <<world, disk>>,
         dpc' \in {"off", "scan", "done"},
         roots' \subseteq SearchRoots,
         stack' \in Seq(Frames),
         IsFiniteSet(found'),
         \A p \in found' : Held(p)
  PROVE  ScanInv'
  <1>1. SearchRoots' = SearchRoots /\ Frames' = Frames /\ \A p : Held(p)' <=> Held(p)
    BY SameDisk
  <1>2. \A p \in found' : Held(p)'
    BY <1>1
  <1>3. WellFormed(disk')
    BY DEF ScanInv
  <1> QED
    BY <1>1, <1>2, <1>3 DEF ScanInv

LEMMA InitScan ==
  Init => ScanInv
  <1> SUFFICES ASSUME Init
               PROVE  ScanInv
    OBVIOUS
  <1>1. disk = world.disk /\ WellFormed(disk)
    BY WorldsAssumption DEF Init
  <1>2. stack \in Seq(Frames)
    BY EmptySeq DEF Init, DiscoveryInit
  <1>3. IsFiniteSet(found) /\ found = {}
    BY FS_EmptySet DEF Init, DiscoveryInit
  <1> QED
    BY <1>1, <1>2, <1>3 DEF ScanInv, Init, DiscoveryInit

LEMMA VisitKeeps ==
  ASSUME ScanInv, NEW p, Held(p), Visit(p)
  PROVE  IsFiniteSet(found') /\ \A q \in found' : Held(q)
  <1>1. found' = found \/ found' = found \cup {p}
    BY DEF Visit
  <1>2. IsFiniteSet(found) /\ \A q \in found : Held(q)
    BY DEF ScanInv
  <1>3. IsFiniteSet(found \cup {p})
    BY <1>2, FS_AddElement
  <1> QED
    BY <1>1, <1>2, <1>3

LEMMA WalkKeeps ==
  ASSUME ScanInv, NEW d, Walked(d), NEW below \in Seq(Frames), Walk(d, below)
  PROVE  stack' \in Seq(Frames)
  <1>1. PICK w : w = [dir |-> d, rest |-> Listing(disk, d)]
    OBVIOUS
  <1>2. w \in Frames
    <2>1. d \in Seq(Names)
      BY DEF Walked
    <2>2. \A p \in Listing(disk, d) : p \in Seq(Names)
      BY EntryHeld DEF ScanInv, Held, NonEmptyPaths
    <2> QED
      BY <1>1, <2>1, <2>2 DEF Frames
  <1>3. Append(below, w) \in Seq(Frames)
    BY <1>2, AppendProperties
  <1> QED
    BY <1>1, <1>3 DEF Walk, NotRead

\* The folder that is walked, what is left to visit in it, and the stack when
\* an entry of it has been visited or the folder is left.
LEMMA TopOfStack ==
  ASSUME ScanInv, stack # <<>>
  PROVE  /\ Front(stack) \in Seq(Frames)
         /\ \A e \in Rest : Held(e) /\ (KindOf(disk, e) = "dir" => Walked(e))
         /\ \A e : After(e) \in Seq(Frames)
  <1>1. Front(stack) \in Seq(Frames) /\ Last(stack) \in Frames
    BY SplitAtLast DEF ScanInv
  <1>2. PICK w \in Frames : w = Last(stack)
    BY <1>1
  <1>3. /\ w \in [dir : Seq(Names), rest : SUBSET Seq(Names)]
        /\ Walked(w.dir) /\ w.rest \subseteq Listing(disk, w.dir)
    BY DEF Frames
  <1>4. \A e \in Rest : Held(e) /\ (KindOf(disk, e) = "dir" => Walked(e))
    BY <1>2, <1>3, EntryHeld DEF ScanInv, Rest
  <1>5. ASSUME NEW e
        PROVE  After(e) \in Seq(Frames)
    <2>1. PICK o : o = [w EXCEPT !.rest = @ \ {e}]
      OBVIOUS
    <2>2. o \in [dir : Seq(Names), rest : SUBSET Seq(Names)]
          /\ o.dir = w.dir /\ o.rest = w.rest \ {e}
      BY <1>3, <2>1
    <2>3. o \in Frames
      BY <1>3, <2>2 DEF Frames
    <2>4. After(e) = Append(Front(stack), o)
      BY <1>2, <2>1 DEF After
    <2> QED
      BY <1>1, <2>3, <2>4, AppendProperties
  <1> QED
    BY <1>1, <1>4, <1>5

LEMMA ScanStepKeeps ==
  ASSUME ScanInv, ScanStep, UNCHANGED <<world, disk>>
  PROVE  ScanInv'
  <1>1. /\ dpc \in {"off", "scan", "done"} /\ roots \subseteq SearchRoots
        /\ stack \in Seq(Frames) /\ IsFiniteSet(found) /\ \A p \in found : Held(p)
    BY DEF ScanInv
  <1>2. ASSUME NEW r \in roots, EnterRoot(r)
        PROVE  ScanInv'
    <2>1. Held(r) /\ Walked(r)
      BY <1>1, RootHeld DEF ScanInv
    <2>2. Visit(r) /\ dpc' = dpc /\ roots' = roots \ {r}
      BY <1>2 DEF EnterRoot
    <2>3. stack' \in Seq(Frames)
      <3>1. Walk(r, stack) \/ stack' = stack
        BY <1>2 DEF EnterRoot, NotRead
      <3> QED
        BY <1>1, <2>1, <3>1, WalkKeeps
    <2> QED
      BY <1>1, <2>1, <2>2, <2>3, VisitKeeps, ScanKept
  <1>3. CASE RootsAbort
    BY <1>1, <1>3, ScanKept DEF RootsAbort
  <1>4. ASSUME stack # <<>>, NEW e \in Rest, EnterEntry(e)
        PROVE  ScanInv'
    <2>1. Held(e) /\ (KindOf(disk, e) = "dir" => Walked(e)) /\ After(e) \in Seq(Frames)
      BY <1>4, TopOfStack
    <2>2. dpc' = dpc /\ roots' = roots
      BY <1>4 DEF EnterEntry
    <2>3. IsFiniteSet(found') /\ \A q \in found' : Held(q)
      <3>1. Visit(e) \/ found' = found
        BY <1>4 DEF EnterEntry
      <3> QED
        BY <1>1, <2>1, <3>1, VisitKeeps
    <2>4. stack' \in Seq(Frames)
      <3>1. \/ stack' = After(e)
            \/ KindOf(disk, e) = "dir" /\ Walk(e, After(e))
        BY <1>4 DEF EnterEntry
      <3> QED
        BY <2>1, <3>1, WalkKeeps
    <2> QED
      BY <1>1, <2>2, <2>3, <2>4, ScanKept
  <1>5. CASE WalkAborts \/ LeaveFolder
    <2>1. Front(stack) \in Seq(Frames)
      BY <1>5, TopOfStack DEF WalkAborts, LeaveFolder
    <2>2. stack' = Front(stack) /\ dpc' = dpc /\ roots' = roots /\ found' = found
      BY <1>5 DEF WalkAborts, LeaveFolder
    <2> QED
      BY <1>1, <2>1, <2>2, ScanKept
  <1>6. CASE Collapse
    <2>1. found \in SUBSET Seq(Names)
      BY <1>1 DEF Held, NonEmptyPaths
    <2>2. CollapseNestedCandidates(found) \in SUBSET found
      BY <1>1, <2>1, CollapseKeepsSome
    <2>3. found' \in SUBSET found /\ dpc' = "done" /\ roots' = roots /\ stack' = stack
      BY <1>6, <2>2 DEF Collapse
    <2>4. IsFiniteSet(found') /\ \A q \in found' : Held(q)
      BY <1>1, <2>3, FS_Subset
    <2> QED
      BY <1>1, <2>3, <2>4, ScanKept
  <1>7. CASE RequestAbort
    BY <1>1, <1>7, ScanKept DEF RequestAbort
  <1>8. ASSUME stack # <<>>, NEW e \in Rest, EntryLost(e)
        PROVE  ScanInv'
    <2>1. stack' \in Seq(Frames)
      BY <1>8, TopOfStack DEF EntryLost
    <2>2. dpc' = dpc /\ roots' = roots /\ found' = found
      BY <1>8 DEF EntryLost
    <2> QED
      BY <1>1, <2>1, <2>2, ScanKept
  <1> QED
    BY <1>2, <1>3, <1>4, <1>5, <1>6, <1>7, <1>8 DEF ScanStep

LEMMA NextKeepsScan ==
  ASSUME ScanInv, [Next]_vars
  PROVE  ScanInv'
  <1>1. /\ dpc \in {"off", "scan", "done"} /\ roots \subseteq SearchRoots
        /\ stack \in Seq(Frames) /\ IsFiniteSet(found) /\ \A p \in found : Held(p)
    BY DEF ScanInv
  <1>2. CASE UNCHANGED <<world, disk, scanVars>>
    BY <1>1, <1>2, ScanKept DEF scanVars
  <1>3. CASE BeginScan
    <2>1. /\ dpc' = "scan" /\ roots' \in {SearchRoots} \cup SUBSET SearchRoots
          /\ UNCHANGED <<world, disk, stack, found>>
      BY <1>3 DEF BeginScan, StartScan, RootsFound
    <2> QED
      BY <1>1, <2>1, ScanKept
  <1>4. CASE Scan
    BY <1>4, ScanStepKeeps DEF Scan
  <1>5. CASE ReadCommandLine
    BY <1>2, <1>5 DEF ReadCommandLine, Unchanged
  <1>6. CASE \E o \in MenuOptions : ToggleOption(o)
    BY <1>2, <1>6 DEF ToggleOption, Unchanged
  <1>7. CASE \E c \in Components : ToggleComponent(c)
    BY <1>2, <1>7 DEF ToggleComponent, Unchanged
  <1>8. CASE Quit \/ Start \/ CheckArgs
    BY <1>2, <1>8 DEF Quit, Start, CheckArgs, Unchanged
  <1>9. CASE Elevate \/ GoOnAsIs \/ StartWorker \/ NoWorker
    BY <1>2, <1>9 DEF Elevate, GoOnAsIs, StartWorker, NoWorker, Unchanged
  <1>10. CASE UNCHANGED vars
    BY <1>2, <1>10 DEF vars, runVars
  <1> QED
    BY <1>3, <1>4, <1>5, <1>6, <1>7, <1>8, <1>9, <1>10 DEF Next

\* walk and process_path: what is on the stack and among the candidates, on
\* every disk and under every fault.
THEOREM ScanInvariant == Spec => []ScanInv
  BY InitScan, NextKeepsScan, PTL DEF Spec

\* main.rs and discovery.rs: every process reads options and components there
\* are, and the scan goes by the entries of real folders of the roots.
THEOREM TypeCorrect == Spec => []TypeOK
  <1>1. ASSUME RunInv, ScanInv
        PROVE  TypeOK
    <2>1. found \subseteq Paths
      BY <1>1 DEF ScanInv, Held
    <2>2. ASSUME NEW i \in DOMAIN stack
          PROVE  KindOf(disk, stack[i].dir) = "dir" /\ stack[i].rest \subseteq Paths
      <3>1. stack[i] \in Frames
        BY <1>1, LenProperties DEF ScanInv
      <3>2. Walked(stack[i].dir) /\ stack[i].rest \subseteq Listing(disk, stack[i].dir)
        BY <3>1 DEF Frames
      <3>3. \A p \in stack[i].rest : p \in Paths
        BY <1>1, <3>2, EntryHeld DEF ScanInv, Held
      <3> QED
        BY <3>2, <3>3 DEF Walked
    <2> QED
      BY <1>1, <2>1, <2>2 DEF TypeOK, RunInv, RunTypes, ScanInv
  <1> QED
    BY <1>1, RunInvariant, ScanInvariant, PTL

\* walk, process_path and collapse_nested_candidates: on no disk, with
\* whatever links in the roots or on the way to them, does anything outside of
\* the roots go.
THEOREM RemovalsStayInRoots == Spec => []StaysInRoots
  <1>1. ASSUME ScanInv
        PROVE  StaysInRoots
    <2> SUFFICES ASSUME NEW e \in Goes(found)
                 PROVE  \E r \in SearchRoots : IsPrefix(Canonical(disk, r), e)
      BY DEF StaysInRoots
    <2>1. PICK k \in found : \/ e = Located(disk, k)
                             \/ KindOf(disk, k) = "dir" /\ IsPrefix(Located(disk, k), e)
      BY DEF Goes
    <2>2. PICK r \in SearchRoots : IsPrefix(Canonical(disk, r), Located(disk, k))
      BY <1>1 DEF ScanInv, Held, InRoot
    <2>3. CASE e = Located(disk, k)
      BY <2>2, <2>3
    <2>4. CASE IsPrefix(Located(disk, k), e)
      <3>1. e \in Seq(Names) /\ Located(disk, k) \in Seq(Names)
        BY <1>1 DEF Goes, ScanInv, WellFormed, NonEmptyPaths, Held
      <3>2. Canonical(disk, r) \in Seq(Names)
        BY <1>1, RootsAreDirs DEF ScanInv
      <3>3. IsPrefix(Canonical(disk, r), e)
        BY <2>2, <2>4, <3>1, <3>2, PrefixOfLonger
      <3> QED
        BY <3>3
    <2> QED
      BY <2>1, <2>3, <2>4
  <1> QED
    BY <1>1, ScanInvariant, PTL

(***************************************************************************)
(* What the walk does not lose.                                            *)
(***************************************************************************)
\* The first names of a sequence, one more at a time.
LEMMA OneMoreName ==
  ASSUME NEW S, NEW s \in Seq(S), NEW k \in 1 .. Len(s)
  PROVE  /\ SubSeq(s, 1, k - 1) \in Seq(S) /\ Len(SubSeq(s, 1, k - 1)) = k - 1
         /\ SubSeq(s, 1, k) \in Seq(S) /\ Len(SubSeq(s, 1, k)) = k
         /\ s[k] \in S /\ SubSeq(s, 1, k) = Append(SubSeq(s, 1, k - 1), s[k])
  <1>1. PICK n \in Nat : n = Len(s)
    BY LenProperties
  <1>2. PICK j \in Nat : j = k - 1 /\ j + 1 = k /\ k <= n
    BY <1>1
  <1>3. \A i \in 1 .. n : s[i] \in S
    BY <1>1, LenProperties
  <1>4. PICK u : u = SubSeq(s, 1, j)
    OBVIOUS
  <1>5. PICK v : v = SubSeq(s, 1, k)
    OBVIOUS
  <1>6. u \in Seq(S) /\ Len(u) = j /\ \A i \in 1 .. j : u[i] = s[i]
    <2>1. \A i \in 1 .. j : s[i] \in S
      BY <1>2, <1>3
    <2>2. /\ SubSeq(s, 1, j) \in Seq(S)
          /\ Len(SubSeq(s, 1, j)) = IF 1 <= j THEN j - 1 + 1 ELSE 0
          /\ \A i \in 1 .. j - 1 + 1 : SubSeq(s, 1, j)[i] = s[1 + i - 1]
      BY <2>1, SubSeqProperties
    <2> QED
      BY <1>4, <2>2
  <1>7. v \in Seq(S) /\ Len(v) = k /\ \A i \in 1 .. k : v[i] = s[i]
    <2>1. \A i \in 1 .. k : s[i] \in S
      BY <1>2, <1>3
    <2>2. /\ SubSeq(s, 1, k) \in Seq(S)
          /\ Len(SubSeq(s, 1, k)) = IF 1 <= k THEN k - 1 + 1 ELSE 0
          /\ \A i \in 1 .. k - 1 + 1 : SubSeq(s, 1, k)[i] = s[1 + i - 1]
      BY <2>1, SubSeqProperties
    <2> QED
      BY <1>5, <2>2
  <1>8. s[k] \in S
    BY <1>2, <1>3
  <1>9. PICK w : w = Append(u, s[k])
    OBVIOUS
  <1>10. /\ w \in Seq(S) /\ Len(w) = k /\ w[k] = s[k]
         /\ \A i \in 1 .. j : w[i] = u[i]
    BY <1>2, <1>6, <1>8, <1>9, AppendProperties
  <1>11. ASSUME NEW i \in 1 .. k
         PROVE  v[i] = w[i]
    <2>1. i = k \/ i \in 1 .. j
      BY <1>2
    <2> QED
      BY <1>6, <1>7, <1>10, <2>1
  <1>12. v = w
    BY <1>7, <1>10, <1>11, SeqEqual
  <1> QED
    BY <1>2, <1>4, <1>5, <1>6, <1>7, <1>8, <1>9, <1>12

\* A path with a prefix is the prefix and the rest.
LEMMA PrefixAndRest ==
  ASSUME NEW S, NEW s \in Seq(S), NEW u \in Seq(S), IsPrefix(s, u)
  PROVE  /\ SubSeq(u, Len(s) + 1, Len(u)) \in Seq(S)
         /\ u = s \o SubSeq(u, Len(s) + 1, Len(u))
  <1>1. PICK m \in Nat : m = Len(s)
    BY LenProperties
  <1>2. PICK n \in Nat : n = Len(u)
    BY LenProperties
  <1>3. m <= n /\ s = SubSeq(u, 1, m)
    BY <1>1, <1>2, SubSeqFull DEF IsPrefix
  <1>4. 1 \in 1 .. n + 1 /\ m \in 1 - 1 .. n /\ n \in m .. n
    BY <1>3
  <1>5. SubSeq(u, 1, m) \o SubSeq(u, m + 1, n) = SubSeq(u, 1, n)
    BY <1>2, <1>4, ConcatAdjacentSubSeq
  <1>6. SubSeq(u, 1, n) = u
    BY <1>2, SubSeqFull
  <1>7. SubSeq(u, m + 1, n) \in Seq(S)
    <2>1. \A i \in m + 1 .. n : u[i] \in S
      BY <1>2, LenProperties
    <2>2. m + 1 \in Int /\ n \in Int
      OBVIOUS
    <2> QED
      BY <2>1, <2>2, SubSeqProperties
  <1> QED
    BY <1>1, <1>2, <1>3, <1>5, <1>6, <1>7

LEMMA PrefixOfMore ==
  ASSUME NEW S, NEW s \in Seq(S), NEW t \in Seq(S), NEW u \in Seq(S)
  PROVE  IsPrefix(s \o t, s \o (t \o u))
  <1>1. s \o t \in Seq(S)
    BY ConcatProperties
  <1>2. IsPrefix(s \o t, (s \o t) \o u)
    BY <1>1, PrefixOfConcat
  <1>3. (s \o t) \o u = s \o (t \o u)
    BY ConcatAssociative
  <1> QED
    BY <1>2, <1>3

\* Below a root no name leads elsewhere on the way to an entry.
LEMMA StraightDown ==
  ASSUME WellFormed(disk), NEW r \in Seq(Names), NEW t \in Seq(Names), NEW x \in Names,
         Canonical(disk, r) \in Seq(Names),
         Canonical(disk, r) \o Append(t, x) \in Entries(disk)
  PROVE  Canonical(disk, r \o t) = Canonical(disk, r) \o t
  <1>1. PICK c \in Seq(Names) : c = Canonical(disk, r)
    OBVIOUS
  <1>2. PICK e \in Entries(disk) : e = c \o Append(t, x)
    BY <1>1
  <1>3. PICK n \in Nat : n = Len(t)
    BY LenProperties
  <1>4. PICK m \in Nat : m = Len(c)
    BY LenProperties
  <1> DEFINE A == {k \in 0 .. n : Canonical(disk, r \o SubSeq(t, 1, k)) = c \o SubSeq(t, 1, k)}
  <1>5. 0 \in A
    <2>1. SubSeq(t, 1, 0) = <<>>
      BY SubSeqEmpty
    <2>2. r \o <<>> = r /\ c \o <<>> = c
      BY ConcatEmptySeq
    <2>3. 0 \in 0 .. n
      OBVIOUS
    <2> QED
      BY <1>1, <2>1, <2>2, <2>3
  <1>6. ASSUME NEW k \in 1 .. n, k - 1 \in A
        PROVE  k \in A
    <2>1. PICK u \in Seq(Names) : u = SubSeq(t, 1, k - 1)
      BY <1>3, OneMoreName
    <2>2. PICK y \in Names : y = t[k] /\ SubSeq(t, 1, k) = Append(u, y)
      BY <1>3, <2>1, OneMoreName
    <2>3. Canonical(disk, r \o u) = c \o u
      BY <1>6, <2>1
    <2>4. r \o u \in Seq(Names) /\ c \o u \in Seq(Names)
      BY ConcatProperties
    <2>5. r \o Append(u, y) = Append(r \o u, y) /\ c \o Append(u, y) = Append(c \o u, y)
      <3>1. r \o Append(u, y) = Append(r \o u, y)
        BY ONLY AppendAfterConcat
      <3>2. c \o Append(u, y) = Append(c \o u, y)
        BY ONLY AppendAfterConcat
      <3> QED
        BY ONLY <3>1, <3>2
    <2>6. c \o Append(u, y) \notin Links(disk)
      <3>0. SubSeq(t, 1, k) \in Seq(Names) /\ Len(SubSeq(t, 1, k)) = k
        BY <1>3, OneMoreName
      <3>1. PICK v \in Seq(Names) : v = SubSeq(t, 1, k) /\ Len(v) = k
        BY <3>0
      <3>2. PICK w \in Seq(Names) : w = Append(t, x)
        BY AppendProperties
      <3>3. Len(w) = n + 1 /\ SubSeq(w, 1, k) = v
        BY <1>3, <3>1, <3>2, AppendProperties, FirstNames
      <3>4. PICK z \in Seq(Names) : w = v \o z
        <4>1. SubSeq(v, 1, Len(v)) = v
          BY SubSeqFull
        <4>2. IsPrefix(v, w)
          BY <3>1, <3>3, <4>1 DEF IsPrefix
        <4>3. /\ SubSeq(w, Len(v) + 1, Len(w)) \in Seq(Names)
              /\ w = v \o SubSeq(w, Len(v) + 1, Len(w))
          BY <4>2, PrefixAndRest
        <4> QED
          BY <4>3
      <3>5. PICK b \in Seq(Names) : b = c \o v /\ Len(b) = m + k
        <4>1. c \o v \in Seq(Names) /\ Len(c \o v) = Len(c) + Len(v)
          BY ConcatProperties
        <4> QED
          BY <1>4, <3>1, <4>1
      <3>6. IsPrefix(b, e)
        <4>1. IsPrefix(c \o v, c \o (v \o z))
          BY PrefixOfMore
        <4> QED
          BY <1>2, <3>2, <3>4, <3>5, <4>1
      <3>7. Len(e) = m + n + 1
        <4>1. Len(c \o w) = Len(c) + Len(w)
          BY ConcatProperties
        <4> QED
          BY <1>2, <1>4, <3>2, <3>3, <4>1
      <3>8. SubSeq(e, 1, m + k) = b
        <4>1. SubSeq(b, 1, Len(b)) = b
          BY SubSeqFull
        <4> QED
          BY <3>5, <3>6, <4>1 DEF IsPrefix
      <3>9. m + k \in 1 .. Len(e) - 1
        BY <3>7
      <3>10. b \notin Links(disk)
        BY <3>8, <3>9 DEF WellFormed
      <3> QED
        BY <2>2, <3>1, <3>5, <3>10
    <2>7. Via(disk, r \o u) # {} \/ Append(r \o u, y) \notin Links(disk)
      BY <2>3, <2>5, <2>6, CanonicalForm, ZenonT(30)
    <2>8. Canonical(disk, Append(r \o u, y)) = Append(Canonical(disk, r \o u), y)
      BY <2>4, <2>7, CanonicalOfAppend
    <2>9. k \in 0 .. n
      OBVIOUS
    <2> QED
      BY <2>2, <2>3, <2>5, <2>8, <2>9
  <1>7. n \in A
    <2> HIDE DEF A
    <2>1. \A k \in 0 .. n : k \in A
      BY <1>5, <1>6, CountUp
    <2> QED
      BY <2>1
  <1>8. SubSeq(t, 1, n) = t
    BY <1>3, SubSeqFull
  <1> QED
    BY <1>1, <1>7, <1>8

\* The paths the walk goes by are those of entries.
LEMMA PathsAreEntries ==
  ASSUME WellFormed(disk), NEW p \in Paths
  PROVE  p \in NonEmptyPaths /\ Located(disk, p) \in Entries(disk)
  <1>1. PICK r \in SearchRoots, e \in Entries(disk) :
          /\ IsPrefix(Canonical(disk, r), e)
          /\ p = r \o SubSeq(e, Len(Canonical(disk, r)) + 1, Len(e))
    BY DEF Paths
  <1>2. r \in Seq(Names) /\ r \in NonEmptyPaths /\ Located(disk, r) \in Entries(disk)
    BY RootsAreDirs DEF NonEmptyPaths, Entries
  <1>3. PICK c \in Seq(Names) : c = Canonical(disk, r)
    BY RootsAreDirs
  <1>4. e \in Seq(Names)
    BY DEF WellFormed, NonEmptyPaths
  <1>5. PICK t \in Seq(Names) : t = SubSeq(e, Len(c) + 1, Len(e)) /\ e = c \o t
    <2>1. /\ SubSeq(e, Len(c) + 1, Len(e)) \in Seq(Names)
          /\ e = c \o SubSeq(e, Len(c) + 1, Len(e))
      BY <1>1, <1>3, <1>4, PrefixAndRest
    <2> QED
      BY <2>1
  <1>6. p = r \o t
    BY <1>1, <1>3, <1>5
  <1>7. CASE t = <<>>
    BY <1>2, <1>6, <1>7, ConcatEmptySeq
  <1>8. CASE t # <<>>
    <2>1. PICK u \in Seq(Names), x \in Names : t = Append(u, x)
      BY <1>8, SequenceEmptyOrAppend
    <2>2. Canonical(disk, r \o u) = c \o u
      <3>1. Canonical(disk, r) \in Seq(Names)
        BY <1>3
      <3>2. Canonical(disk, r) \o Append(u, x) \in Entries(disk)
        BY <1>3, <1>5, <2>1
      <3>3. Canonical(disk, r \o u) = Canonical(disk, r) \o u
        BY <1>2, <3>1, <3>2, StraightDown
      <3> QED
        BY <1>3, <3>3
    <2>3. r \o u \in Seq(Names) /\ c \o u \in Seq(Names)
      BY <1>2, ConcatProperties
    <2>4. p = Append(r \o u, x) /\ e = Append(c \o u, x)
      <3>1. /\ r \o Append(u, x) = Append(r \o u, x)
            /\ c \o Append(u, x) = Append(c \o u, x)
        BY <1>2, AppendAfterConcat, SMTT(30)
      <3> QED
        BY <1>5, <1>6, <2>1, <3>1
    <2>5. Front(p) = r \o u /\ Last(p) = x /\ p \in NonEmptyPaths
      <3>1. PICK f \in Seq(Names) : f = r \o u
        BY <2>3
      <3>2. /\ Front(Append(f, x)) = f /\ Last(Append(f, x)) = x
            /\ Append(f, x) \in Seq(Names) /\ Append(f, x) # <<>>
        BY FrontOfAppend, AppendProperties
      <3> QED
        BY <2>4, <3>1, <3>2 DEF NonEmptyPaths
    <2>6. Located(disk, p) = e
      BY <2>2, <2>4, <2>5 DEF Located
    <2> QED
      BY <2>5, <2>6
  <1> QED
    BY <1>7, <1>8

LEMMA OneNameOn ==
  ASSUME NEW S, NEW f \in Seq(S), NEW p \in Seq(S), IsPrefix(f, p), f # p
  PROVE  /\ Len(f) \in Nat /\ Len(p) \in Nat /\ Len(f) < Len(p) /\ SubSeq(p, 1, Len(f)) = f
         /\ \E e \in Seq(S) :
              /\ e = SubSeq(p, 1, Len(e)) /\ Len(e) = Len(f) + 1
              /\ e # <<>> /\ IsPrefix(e, p) /\ Front(e) = f
  <1>1. PICK m \in Nat : m = Len(f)
    BY LenProperties
  <1>2. PICK n \in Nat : n = Len(p)
    BY LenProperties
  <1>3. SubSeq(f, 1, m) = f /\ SubSeq(p, 1, n) = p
    BY <1>1, <1>2, SubSeqFull
  <1>4. m <= n /\ SubSeq(p, 1, m) = f
    BY <1>1, <1>2, <1>3 DEF IsPrefix
  <1>5. m # n
    BY <1>3, <1>4
  <1>6. m < n
    BY <1>4, <1>5
  <1>7. PICK k \in 1 .. n : k = m + 1 /\ k - 1 = m
    BY <1>6
  <1>8. /\ SubSeq(p, 1, k - 1) \in Seq(S)
        /\ SubSeq(p, 1, k) \in Seq(S) /\ Len(SubSeq(p, 1, k)) = k
        /\ p[k] \in S /\ SubSeq(p, 1, k) = Append(SubSeq(p, 1, k - 1), p[k])
    BY <1>2, OneMoreName
  <1>9. PICK e \in Seq(S) : e = SubSeq(p, 1, k) /\ Len(e) = k
    BY <1>8
  <1>10. PICK x \in S : e = Append(f, x)
    BY <1>4, <1>7, <1>8, <1>9
  <1>11. Front(e) = f /\ e # <<>>
    BY <1>10, FrontOfAppend, AppendProperties
  <1>12. IsPrefix(e, p)
    <2>1. SubSeq(e, 1, Len(e)) = e
      BY SubSeqFull
    <2>2. Len(e) <= Len(p)
      BY <1>2, <1>9
    <2> QED
      BY <1>9, <2>1, <2>2 DEF IsPrefix
  <1> QED
    BY <1>1, <1>2, <1>4, <1>6, <1>7, <1>9, <1>11, <1>12

LEMMA ListedInFront ==
  ASSUME WellFormed(disk), NEW p \in NonEmptyPaths, Located(disk, p) \in Entries(disk)
  PROVE  p \in Listing(disk, Front(p))
  <1>1. /\ Front(p) \in Seq(Names) /\ Last(p) \in Names
        /\ p = Append(Front(p), Last(p))
    BY SplitAtLast DEF NonEmptyPaths
  <1>2. PICK c \in Seq(Names) : c = Canonical(disk, Front(p))
    BY <1>1, CanonicalType
  <1>3. PICK e \in Entries(disk) : e = Located(disk, p)
    OBVIOUS
  <1>4. e = Append(c, Last(p))
    BY <1>2, <1>3 DEF Located
  <1>5. Front(e) = c /\ Last(e) = Last(p)
    BY <1>1, <1>4, FrontOfAppend
  <1> QED
    BY <1>1, <1>2, <1>5 DEF Listing

\* A path the walk reaches below the root r, and the entries left on a stack
\* that lie on the way to it.
Reaches(r, p) ==
  /\ IsPrefix(r, p)
  /\ \A i \in Len(r)..Len(p) - 1 :
       KindOf(disk, SubSeq(p, 1, i)) = "dir" /\ SubSeq(p, 1, i) \notin unread
  /\ \A i \in Len(r) + 1..Len(p) :
       KindOf(disk, SubSeq(p, 1, i)) = "link"
       \/ ~ShouldPruneTraversal(SubSeq(p, 1, i), enabled)
  /\ \A i \in Len(r)..Len(p) : SubSeq(p, 1, i) \notin missed
OnTheWay(e, r, p) == IsPrefix(e, p) /\ Len(e) > Len(r)
Ahead(st, r, p) == \E i \in 1 .. Len(st) : \E e \in st[i].rest : OnTheWay(e, r, p)

LEMMA AheadOfAppend ==
  ASSUME NEW S, NEW st \in Seq(S), NEW w \in S, NEW r, NEW p
  PROVE  Ahead(Append(st, w), r, p)
           <=> Ahead(st, r, p) \/ \E e \in w.rest : OnTheWay(e, r, p)
  <1>1. PICK n \in Nat : n = Len(st)
    BY LenProperties
  <1>2. PICK t : t = Append(st, w)
    OBVIOUS
  <1>3. Len(t) = n + 1 /\ t[n + 1] = w /\ \A i \in 1 .. n : t[i] = st[i]
    BY <1>1, <1>2, AppendProperties
  <1>4. Ahead(st, r, p) => Ahead(t, r, p)
    <2> SUFFICES ASSUME NEW i \in 1 .. n, NEW e \in st[i].rest, OnTheWay(e, r, p)
                 PROVE  Ahead(t, r, p)
      BY <1>1 DEF Ahead
    <2>1. i \in 1 .. n + 1 /\ e \in t[i].rest
      BY <1>3
    <2> QED
      BY <1>3, <2>1 DEF Ahead
  <1>5. ASSUME NEW e \in w.rest, OnTheWay(e, r, p)
        PROVE  Ahead(t, r, p)
    <2>1. n + 1 \in 1 .. n + 1 /\ e \in t[n + 1].rest
      BY <1>3
    <2> QED
      BY <1>3, <1>5, <2>1 DEF Ahead
  <1>6. ASSUME Ahead(t, r, p)
        PROVE  Ahead(st, r, p) \/ \E e \in w.rest : OnTheWay(e, r, p)
    <2>1. PICK i \in 1 .. n + 1 : \E e \in t[i].rest : OnTheWay(e, r, p)
      BY <1>3, <1>6 DEF Ahead
    <2>2. CASE i = n + 1
      BY <1>3, <2>1, <2>2
    <2>3. CASE i # n + 1
      <3>1. i \in 1 .. n
        BY <2>3
      <3> QED
        BY <1>1, <1>3, <2>1, <3>1 DEF Ahead
    <2> QED
      BY <2>2, <2>3
  <1> QED
    BY <1>2, <1>4, <1>5, <1>6

LEMMA ReachesEarlier ==
  ASSUME UNCHANGED <<disk, enabled>>, unread \subseteq unread', missed \subseteq missed',
         NEW r, NEW p, Reaches(r, p)'
  PROVE  Reaches(r, p)
  BY DEF Reaches

\* A folder that is walked has the next entry on the way among its own.
LEMMA WalkGoesOn ==
  ASSUME ScanInv, UNCHANGED <<disk, enabled>>,
         NEW d \in Seq(Names), Walked(d), NEW below \in Seq(Frames), Walk(d, below),
         NEW r \in SearchRoots, NEW p \in Paths, Reaches(r, p)',
         IsPrefix(d, p), d # p, Len(d) >= Len(r)
  PROVE  Ahead(stack', r, p)
  <1>1. WellFormed(disk) /\ p \in NonEmptyPaths /\ p \in Seq(Names)
        /\ Located(disk, p) \in Entries(disk)
    BY PathsAreEntries DEF ScanInv, NonEmptyPaths
  <1>2. PICK m \in Nat : m = Len(r)
    BY <1>1, RootsAreDirs, LenProperties DEF NonEmptyPaths
  <1>3. /\ Len(d) \in Nat /\ Len(p) \in Nat /\ Len(d) < Len(p) /\ SubSeq(p, 1, Len(d)) = d
        /\ \E e \in Seq(Names) :
              /\ e = SubSeq(p, 1, Len(e)) /\ Len(e) = Len(d) + 1
              /\ e # <<>> /\ IsPrefix(e, p) /\ Front(e) = d
    BY <1>1, OneNameOn
  <1>4. PICK e \in Seq(Names) :
              /\ e = SubSeq(p, 1, Len(e)) /\ Len(e) = Len(d) + 1
              /\ e # <<>> /\ IsPrefix(e, p) /\ Front(e) = d
    BY <1>3
  <1>5. /\ \A i \in m..Len(p) - 1 : /\ KindOf(disk, SubSeq(p, 1, i)) = "dir"
                                    /\ SubSeq(p, 1, i) \notin unread'
    BY <1>2 DEF Reaches
  <1>6. d \notin unread'
    <2>1. Len(d) \in m .. Len(p) - 1
      BY <1>2, <1>3
    <2> QED
      BY <1>3, <1>5, <2>1
  <1>7. e \in NonEmptyPaths
    BY <1>4 DEF NonEmptyPaths
  <1>8. Located(disk, e) \in Entries(disk)
    <2>1. CASE Len(e) = Len(p)
      <3>1. e = p
        BY <1>1, <1>4, <2>1, SubSeqFull
      <3> QED
        BY <1>1, <3>1
    <2>2. CASE Len(e) # Len(p)
      <3>1. Len(e) \in m .. Len(p) - 1
        BY <1>2, <1>3, <1>4, <2>2
      <3>2. KindOf(disk, e) = "dir"
        BY <1>4, <1>5, <3>1
      <3> QED
        BY <1>1, <1>7, <3>2, DirIsCanonical DEF Entries
    <2> QED
      BY <2>1, <2>2
  <1>9. e \in Listing(disk, d)
    BY <1>1, <1>4, <1>7, <1>8, ListedInFront
  <1>10. PICK w : w = [dir |-> d, rest |-> Listing(disk, d)]
    OBVIOUS
  <1>11. w \in Frames
    <2>1. \A q \in Listing(disk, d) : q \in Seq(Names)
      BY EntryHeld DEF ScanInv, Held, NonEmptyPaths
    <2> QED
      BY <1>10, <2>1 DEF Frames
  <1>12. stack' = Append(below, w)
    BY <1>6, <1>10 DEF Walk, NotRead
  <1>13. OnTheWay(e, r, p) /\ e \in w.rest
    BY <1>2, <1>3, <1>4, <1>9, <1>10 DEF OnTheWay
  <1> QED
    BY <1>11, <1>12, <1>13, AheadOfAppend

LEMMA WalkLeaves ==
  ASSUME ScanInv, NEW d, Walked(d), NEW below \in Seq(Frames), Walk(d, below),
         NEW r, NEW p, Ahead(below, r, p)
  PROVE  Ahead(stack', r, p)
  <1>1. PICK w : w = [dir |-> d, rest |-> Listing(disk, d)]
    OBVIOUS
  <1>2. w \in Frames
    <2>1. \A q \in Listing(disk, d) : q \in Seq(Names)
      BY EntryHeld DEF ScanInv, Held, NonEmptyPaths
    <2>2. d \in Seq(Names)
      BY DEF Walked
    <2> QED
      BY <1>1, <2>1, <2>2 DEF Frames
  <1>3. stack' = Append(below, w) \/ stack' = below
    BY <1>1 DEF Walk, NotRead
  <1> QED
    BY <1>2, <1>3, AheadOfAppend

\* Visiting an entry, and leaving a folder that has none left.
LEMMA TopOnTheWay ==
  ASSUME ScanInv, stack # <<>>, NEW r, NEW p, Ahead(stack, r, p)
  PROVE  /\ \A e : Ahead(After(e), r, p) \/ (e \in Rest /\ OnTheWay(e, r, p))
         /\ Rest = {} => Ahead(Front(stack), r, p)
  <1>1. /\ Front(stack) \in Seq(Frames) /\ Last(stack) \in Frames
        /\ stack = Append(Front(stack), Last(stack))
    BY SplitAtLast DEF ScanInv
  <1>2. PICK f \in Seq(Frames) : f = Front(stack)
    BY <1>1
  <1>3. PICK w \in Frames : w = Last(stack)
    BY <1>1
  <1>4. Ahead(f, r, p) \/ \E e \in w.rest : OnTheWay(e, r, p)
    <2>1. Ahead(Append(f, w), r, p)
      BY <1>1, <1>2, <1>3
    <2>2. Ahead(Append(f, w), r, p)
            <=> Ahead(f, r, p) \/ \E e \in w.rest : OnTheWay(e, r, p)
      BY AheadOfAppend
    <2> QED
      BY <2>1, <2>2
  <1>5. ASSUME NEW e
        PROVE  Ahead(After(e), r, p) \/ (e \in Rest /\ OnTheWay(e, r, p))
    <2>1. PICK o : o = [w EXCEPT !.rest = @ \ {e}]
      OBVIOUS
    <2>2. /\ w \in [dir : Seq(Names), rest : SUBSET Seq(Names)]
          /\ Walked(w.dir) /\ w.rest \subseteq Listing(disk, w.dir)
      BY DEF Frames
    <2>3. /\ o \in [dir : Seq(Names), rest : SUBSET Seq(Names)]
          /\ o.dir = w.dir /\ o.rest = w.rest \ {e}
      BY <2>1, <2>2
    <2>4. o \in Frames
      BY <2>2, <2>3 DEF Frames
    <2>5. After(e) = Append(f, o)
      BY <1>2, <1>3, <2>1 DEF After
    <2>6. Ahead(f, r, p) \/ (\E q \in o.rest : OnTheWay(q, r, p)) => Ahead(Append(f, o), r, p)
      BY <2>4, AheadOfAppend
    <2> QED
      BY <1>3, <1>4, <2>3, <2>5, <2>6 DEF Rest
  <1>6. Rest = {} => Ahead(f, r, p)
    BY <1>3, <1>4 DEF Rest
  <1> QED
    BY <1>2, <1>5, <1>6

\* Every key that goes into the collapse lies in one that comes out of it.
LEMMA CollapseCovers ==
  ASSUME WellFormed(disk), NEW F \in SUBSET Seq(Names), IsFiniteSet(F), NEW q \in F
  PROVE  \E k \in CollapseNestedCandidates(F) : IsPrefix(Canonical(disk, k), Canonical(disk, q))
  <1> DEFINE n == Cardinality(F)
             Is(f) == f = [s \in SUBSET F |-> Kept(f, s)]
             iter == CHOOSE f : Is(f)
             Covers(g, s) == \A x \in s : \E k \in g :
                               IsPrefix(Canonical(disk, k), Canonical(disk, x))
             A == {k \in 0 .. n : \A s \in UpTo(F, k) : Covers(iter[s], s)}
  <1>1. n \in Nat /\ \A s \in SUBSET F : IsFiniteSet(s) /\ Cardinality(s) \in Nat
    BY FS_CardinalityType, FS_Subset
  <1>2. UpTo(F, n) = SUBSET F
    <2>1. \A s \in SUBSET F : Cardinality(s) <= n
      BY FS_Subset
    <2> QED
      BY <2>1 DEF UpTo
  <1>3. PICK f : Follows(f, F, n)
    BY CollapseHasSolution
  <1>4. Is(f)
    BY <1>2, <1>3 DEF Follows
  <1>5. Is(iter)
    <2> HIDE DEF Is
    <2> QED
      BY <1>4
  <1>6. CollapseNestedCandidates(F) = iter[F]
    BY DEF CollapseNestedCandidates, MapThenFoldSet, Kept
  <1> HIDE DEF iter
  <1>7. \A s \in SUBSET F : iter[s] = Kept(iter, s)
    BY <1>5
  <1>8. 0 \in A
    <2>1. \A s \in UpTo(F, 0) : s = {}
      BY <1>1, FS_EmptySet DEF UpTo
    <2>2. \A s \in UpTo(F, 0) : Covers(iter[s], s)
      BY <2>1
    <2>3. 0 \in 0 .. n
      BY <1>1
    <2> HIDE DEF n, Covers
    <2> QED
      BY <2>2, <2>3
  <1>9. ASSUME NEW k \in 1 .. n, k - 1 \in A
        PROVE  k \in A
    <2>1. ASSUME NEW s \in UpTo(F, k), s # {}
          PROVE  Covers(iter[s], s)
      <3>1. s \in SUBSET F /\ Cardinality(s) <= k
        BY DEF UpTo
      <3>2. /\ s \ {Longest(s)} \in SUBSET F
            /\ Cardinality(s) \in Nat
            /\ Cardinality(s \ {Longest(s)}) = Cardinality(s) - 1
        BY <2>1, <3>1, OneKept
      <3>3. Cardinality(s \ {Longest(s)}) <= k - 1
        BY <3>1, <3>2
      <3>4. s \ {Longest(s)} \in UpTo(F, k - 1)
        BY <3>2, <3>3 DEF UpTo
      <3>5. PICK l : l = Longest(s)
        OBVIOUS
      <3>6. PICK g : g = iter[s \ {l}]
        OBVIOUS
      <3>7. Covers(g, s \ {l})
        <4> HIDE DEF Covers
        <4> QED
          BY <1>9, <3>4, <3>5, <3>6
      <3>8. iter[s] = KeepUnlessNested(l, g)
        BY <1>7, <2>1, <3>1, <3>5, <3>6 DEF Kept
      <3>9. iter[s] = g \/ iter[s] = g \cup {l}
        BY <3>8 DEF KeepUnlessNested
      <3>10. \A x \in s \ {l} : \E j \in iter[s] :
               IsPrefix(Canonical(disk, j), Canonical(disk, x))
        BY <3>7, <3>9
      <3>11. \E j \in iter[s] : IsPrefix(Canonical(disk, j), Canonical(disk, l))
        <4>1. CASE \E j \in g : IsPrefix(Canonical(disk, j), Canonical(disk, l))
          BY <3>9, <4>1
        <4>2. CASE ~\E j \in g : IsPrefix(Canonical(disk, j), Canonical(disk, l))
          <5>1. l \in iter[s]
            BY <3>8, <4>2 DEF KeepUnlessNested, KeyIsParentOfOrEqual
          <5>2. l \in s
            <6>1. IsFiniteSet(s) /\ s \in SUBSET Seq(Names)
              BY <1>1, <3>1
            <6> QED
              BY <2>1, <3>5, <6>1, LongestIsIn
          <5>3. l \in Seq(Names)
            BY <3>1, <5>2
          <5>4. IsPrefix(Canonical(disk, l), Canonical(disk, l))
            <6>1. Len(Canonical(disk, l)) \in Nat
              BY <5>3, CanonicalType, LenProperties
            <6> QED
              BY <6>1 DEF IsPrefix
          <5> QED
            BY <5>1, <5>4
        <4> QED
          BY <4>1, <4>2
      <3> QED
        BY <3>10, <3>11
    <2>2. Covers(iter[{}], {})
      OBVIOUS
    <2>3. \A s \in UpTo(F, k) : Covers(iter[s], s)
      <3> HIDE DEF Covers
      <3> QED
        BY <2>1, <2>2
    <2>4. k \in 0 .. n
      BY <1>1
    <2> HIDE DEF Covers, n
    <2> QED
      BY <2>3, <2>4
  <1>10. n \in A
    <2> HIDE DEF A
    <2>1. \A k \in 0 .. n : k \in A
      BY <1>1, <1>8, <1>9, CountUp
    <2> QED
      BY <1>1, <2>1
  <1>11. Covers(iter[F], F)
    <2> HIDE DEF Covers
    <2> QED
      BY <1>2, <1>10
  <1> QED
    BY <1>6, <1>11

(***************************************************************************)
(* No path is lost: an invariant that is inductive.                        *)
(***************************************************************************)
\* A path that is to be taken and lies below the root r.
Due(r, p) == Reaches(r, p) /\ Matches(p, enabled)
\* It is taken, or its root or an entry on the way to it is still to come.
NotLost(r, p) ==
  \/ r \in roots
  \/ Canonical(disk, p) \in Seen
  \/ Ahead(stack, r, p)
KeyGoes(p) == \E k \in found : IsPrefix(Canonical(disk, k), Canonical(disk, p))

WholeInv ==
  /\ dpc = "off" \/ place \in {"scan", "exited"}
  /\ ~aborted /\ dpc = "scan" =>
       \A r \in SearchRoots, p \in Paths : Due(r, p) => NotLost(r, p)
  /\ ~aborted /\ dpc = "done" =>
       \A r \in SearchRoots, p \in Paths : Due(r, p) => KeyGoes(p)

LEMMA DueEarlier ==
  ASSUME UNCHANGED <<disk, enabled>>, unread \subseteq unread', missed \subseteq missed',
         NEW r, NEW p, Due(r, p)'
  PROVE  Due(r, p)
  BY ReachesEarlier DEF Due

LEMMA VisitTakes ==
  ASSUME UNCHANGED <<disk, enabled>>, NEW p, Visit(p)
  PROVE  /\ Seen \subseteq Seen'
         /\ Matches(p, enabled) => Canonical(disk, p) \in Seen'
  BY DEF Visit, Seen

\* A step of the walk that loses nothing.
LEMMA WalkStepWhole ==
  ASSUME ScanInv, WholeInv, UNCHANGED <<disk, enabled>>,
         place' \in {"scan", "exited"}, dpc' = "scan",
         unread \subseteq unread', missed \subseteq missed',
         ~aborted' =>
           \A r \in SearchRoots, p \in Paths :
             Due(r, p)' /\ Due(r, p) => NotLost(r, p)'
  PROVE  WholeInv'
  <1>1. SearchRoots' = SearchRoots /\ Paths' = Paths
    BY SameDisk
  <1>2. ASSUME ~aborted', NEW r \in SearchRoots, NEW p \in Paths, Due(r, p)'
        PROVE  NotLost(r, p)'
    <2>1. Due(r, p)
      BY <1>2, DueEarlier
    <2> QED
      BY <1>2, <2>1
  <1> QED
    BY <1>1, <1>2 DEF WholeInv

LEMMA EnterRootWhole ==
  ASSUME ScanInv, WholeInv, UNCHANGED <<disk, enabled>>, place' \in {"scan", "exited"},
         NEW q \in roots, EnterRoot(q)
  PROVE  WholeInv'
  <1>1. /\ dpc = "scan" /\ dpc' = "scan" /\ aborted' = aborted /\ stack = <<>>
        /\ roots' = roots \ {q} /\ Visit(q)
        /\ Walk(q, stack) \/ NotRead(q, stack)
    BY DEF EnterRoot
  <1>2. unread \subseteq unread' /\ missed \subseteq missed'
    BY DEF EnterRoot, Walk, NotRead
  <1>3. WellFormed(disk) /\ roots \subseteq SearchRoots /\ stack \in Seq(Frames)
    BY DEF ScanInv
  <1>4. q \in Seq(Names) /\ Walked(q)
    BY <1>3, RootHeld DEF Walked
  <1>5. ASSUME ~aborted', NEW r \in SearchRoots, NEW p \in Paths, Due(r, p)', Due(r, p)
        PROVE  NotLost(r, p)'
    <2>1. r \in roots \/ Canonical(disk, p) \in Seen
      <3>1. NotLost(r, p)
        BY <1>1, <1>5 DEF WholeInv
      <3>2. ~Ahead(stack, r, p)
        BY <1>1 DEF Ahead
      <3> QED
        BY <3>1, <3>2 DEF NotLost
    <2>2. CASE Canonical(disk, p) \in Seen
      BY <1>1, <2>2, VisitTakes DEF NotLost
    <2>3. CASE r \in roots /\ r # q
      BY <1>1, <2>3 DEF NotLost
    <2>4. CASE r = q /\ p = q
      BY <1>1, <1>5, <2>4, VisitTakes DEF NotLost, Due
    <2>5. CASE r = q /\ p # q
      <3>1. IsPrefix(q, p) /\ Reaches(r, p)'
        BY <1>5, <2>5 DEF Due, Reaches
      <3>2. Len(q) >= Len(r)
        BY <1>4, <2>5, LenProperties
      <3>3. Walk(q, stack)
        <4>1. q \notin unread'
          <5>1. p \in Seq(Names)
            BY <1>3, PathsAreEntries DEF NonEmptyPaths
          <5>2. Len(q) \in Nat /\ Len(p) \in Nat /\ Len(q) < Len(p) /\ SubSeq(p, 1, Len(q)) = q
            BY <1>4, <2>5, <3>1, <5>1, OneNameOn
          <5>3. Len(q) \in Len(r) .. Len(p) - 1
            BY <2>5, <5>2
          <5> QED
            BY <3>1, <5>2, <5>3 DEF Reaches
        <4> QED
          BY <1>1, <4>1 DEF NotRead
      <3>4. Ahead(stack', r, p)
        BY <1>3, <1>4, <2>5, <3>1, <3>2, <3>3, WalkGoesOn
      <3> QED
        BY <3>4 DEF NotLost, Ahead
    <2> QED
      BY <2>1, <2>2, <2>3, <2>4, <2>5
  <1> QED
    BY <1>1, <1>2, <1>5, WalkStepWhole

LEMMA EnterEntryWhole ==
  ASSUME ScanInv, WholeInv, UNCHANGED <<disk, enabled>>, place' \in {"scan", "exited"},
         stack # <<>>, NEW e \in Rest, EnterEntry(e)
  PROVE  WholeInv'
  <1>1. /\ dpc = "scan" /\ dpc' = "scan" /\ aborted' = aborted
        /\ roots' = roots
    BY DEF EnterEntry
  <1>2. unread \subseteq unread' /\ missed \subseteq missed'
    BY DEF EnterEntry, Walk, NotRead
  <1>3. /\ After(e) \in Seq(Frames) /\ Held(e)
        /\ KindOf(disk, e) = "dir" => Walked(e)
    BY TopOfStack
  <1>4. ASSUME ~aborted', NEW r \in SearchRoots, NEW p \in Paths, Due(r, p)', Due(r, p)
        PROVE  NotLost(r, p)'
    <2>1. NotLost(r, p)
      BY <1>1, <1>4 DEF WholeInv
    <2>2. Seen \subseteq Seen'
      BY VisitTakes DEF EnterEntry, Seen
    <2>3. CASE r \in roots \/ Canonical(disk, p) \in Seen
      BY <1>1, <2>2, <2>3 DEF NotLost
    <2>4. CASE Ahead(After(e), r, p)
      <3>1. stack' = After(e) \/ (KindOf(disk, e) = "dir" /\ Walk(e, After(e)))
        BY DEF EnterEntry
      <3>2. Ahead(stack', r, p)
        BY <1>3, <2>4, <3>1, WalkLeaves
      <3> QED
        BY <3>2 DEF NotLost, Ahead
    <2>5. CASE OnTheWay(e, r, p)
      <3>1. /\ p \in Seq(Names) /\ r \in Seq(Names) /\ e \in Seq(Names)
            /\ Len(p) \in Nat /\ Len(r) \in Nat /\ Len(e) \in Nat
        BY <1>3, PathsAreEntries, RootsAreDirs, LenProperties DEF ScanInv, NonEmptyPaths, Held
      <3>2. /\ IsPrefix(e, p) /\ Len(e) > Len(r) /\ Len(e) <= Len(p)
            /\ SubSeq(p, 1, Len(e)) = e
        BY <2>5, <3>1, SubSeqFull DEF OnTheWay, IsPrefix
      <3>3. KindOf(disk, e) = "link" \/ ~ShouldPruneTraversal(e, enabled)
        <4>1. Len(e) \in Len(r) + 1 .. Len(p)
          BY <3>1, <3>2
        <4> QED
          BY <1>4, <3>2, <4>1 DEF Due, Reaches
      <3>4. Visit(e) /\ (KindOf(disk, e) = "dir" => Walk(e, After(e)))
        BY <3>3 DEF EnterEntry
      <3>5. CASE e = p
        BY <1>4, <3>4, <3>5, VisitTakes DEF NotLost, Due
      <3>6. CASE e # p
        <4>1. Len(e) < Len(p)
          BY <3>1, <3>2, <3>6, OneNameOn
        <4>2. Len(e) \in Len(r) .. Len(p) - 1
          BY <3>1, <3>2, <4>1
        <4>3. KindOf(disk, e) = "dir"
          BY <1>4, <3>2, <4>2 DEF Due, Reaches
        <4>4. Walked(e) /\ Walk(e, After(e)) /\ Reaches(r, p)' /\ Len(e) >= Len(r)
          BY <1>3, <1>4, <3>1, <3>2, <3>4, <4>3 DEF Due
        <4>5. Ahead(stack', r, p)
          BY <1>3, <3>1, <3>2, <3>6, <4>4, WalkGoesOn
        <4> QED
          BY <4>5 DEF NotLost, Ahead
      <3> QED
        BY <3>5, <3>6
    <2> QED
      BY <2>1, <2>3, <2>4, <2>5, TopOnTheWay DEF NotLost
  <1> QED
    BY <1>1, <1>2, <1>4, WalkStepWhole

\* An entry left out takes with it only what is no longer due.
LEMMA EntryLostWhole ==
  ASSUME ScanInv, WholeInv, UNCHANGED <<disk, enabled>>, place' \in {"scan", "exited"},
         stack # <<>>, NEW e \in Rest, EntryLost(e)
  PROVE  WholeInv'
  <1>1. /\ dpc = "scan" /\ dpc' = "scan" /\ stack' = After(e)
        /\ unread \subseteq unread' /\ missed \subseteq missed' /\ e \in missed'
        /\ UNCHANGED <<roots, found, aborted>>
    BY DEF EntryLost
  <1>2. Held(e)
    BY TopOfStack
  <1>3. ASSUME ~aborted', NEW r \in SearchRoots, NEW p \in Paths, Due(r, p)', Due(r, p)
        PROVE  NotLost(r, p)'
    <2>1. NotLost(r, p)
      BY <1>1, <1>3 DEF WholeInv
    <2>2. Seen' = Seen
      BY <1>1 DEF Seen
    <2>3. CASE r \in roots \/ Canonical(disk, p) \in Seen
      BY <1>1, <2>2, <2>3 DEF NotLost
    <2>4. CASE Ahead(After(e), r, p)
      <3>1. Ahead(stack', r, p)
        BY <1>1, <2>4
      <3> QED
        BY <3>1 DEF NotLost, Ahead
    <2>5. CASE OnTheWay(e, r, p)
      <3>1. /\ p \in Seq(Names) /\ e \in Seq(Names)
            /\ Len(p) \in Nat /\ Len(r) \in Nat /\ Len(e) \in Nat
        BY <1>2, PathsAreEntries, RootsAreDirs, LenProperties DEF ScanInv, NonEmptyPaths, Held
      <3>2. /\ Len(e) > Len(r) /\ Len(e) <= Len(p)
            /\ SubSeq(p, 1, Len(e)) = e
        BY <2>5, <3>1, SubSeqFull DEF OnTheWay, IsPrefix
      <3>3. Len(e) \in Len(r) .. Len(p)
        BY <3>1, <3>2
      <3> QED
        BY <1>1, <1>3, <3>2, <3>3 DEF Due, Reaches
    <2> QED
      BY <2>1, <2>3, <2>4, <2>5, TopOnTheWay DEF NotLost
  <1> QED
    BY <1>1, <1>3, WalkStepWhole

LEMMA ScanStepWhole ==
  ASSUME ScanInv, WholeInv, Scan
  PROVE  WholeInv'
  <1>1. /\ ScanStep /\ UNCHANGED <<disk, enabled>> /\ place = "scan"
        /\ place' \in {"scan", "exited"}
    BY DEF Scan
  <1>2. /\ WellFormed(disk) /\ stack \in Seq(Frames) /\ IsFiniteSet(found)
        /\ \A p \in found : Held(p)
    BY DEF ScanInv
  <1>3. ASSUME NEW r \in roots, EnterRoot(r)
        PROVE  WholeInv'
    BY <1>1, <1>3, EnterRootWhole
  <1>4. CASE RootsAbort \/ WalkAborts
    <2>1. aborted' /\ dpc' = "scan"
      BY <1>4 DEF RootsAbort, WalkAborts
    <2> QED
      BY <1>1, <2>1 DEF WholeInv
  <1>5. ASSUME stack # <<>>, NEW e \in Rest, EnterEntry(e)
        PROVE  WholeInv'
    BY <1>1, <1>5, EnterEntryWhole
  <1>6. CASE LeaveFolder
    <2>1. /\ dpc = "scan" /\ dpc' = "scan" /\ stack # <<>> /\ Rest = {}
          /\ stack' = Front(stack) /\ UNCHANGED <<roots, found, unread, missed, aborted>>
      BY <1>6 DEF LeaveFolder
    <2>2. ASSUME ~aborted', NEW r \in SearchRoots, NEW p \in Paths, Due(r, p)', Due(r, p)
          PROVE  NotLost(r, p)'
      <3>1. NotLost(r, p)
        BY <2>1, <2>2 DEF WholeInv
      <3>2. Ahead(stack, r, p) => Ahead(stack', r, p)
        BY <2>1, TopOnTheWay
      <3>3. Seen' = Seen
        BY <1>1, <2>1 DEF Seen
      <3> QED
        BY <1>1, <2>1, <3>1, <3>2, <3>3 DEF NotLost, Ahead
    <2> QED
      BY <1>1, <2>1, <2>2, WalkStepWhole
  <1>7. CASE Collapse
    <2>1. /\ dpc = "scan" /\ dpc' = "done" /\ stack = <<>> /\ roots = {}
          /\ found' = CollapseNestedCandidates(found) /\ UNCHANGED <<unread, missed, aborted>>
      BY <1>7 DEF Collapse
    <2>2. SearchRoots' = SearchRoots /\ Paths' = Paths
      BY <1>1, SameDisk
    <2>3. ASSUME ~aborted', NEW r \in SearchRoots, NEW p \in Paths, Due(r, p)'
          PROVE  KeyGoes(p)'
      <3>1. Due(r, p)
        BY <1>1, <2>1, <2>3, DueEarlier
      <3>2. NotLost(r, p)
        BY <2>1, <2>3, <3>1 DEF WholeInv
      <3>3. ~Ahead(stack, r, p)
        BY <2>1 DEF Ahead
      <3>4. PICK q \in found : Canonical(disk, q) = Canonical(disk, p)
        BY <2>1, <3>2, <3>3 DEF NotLost, Seen
      <3>5. found \in SUBSET Seq(Names)
        BY <1>2 DEF Held, NonEmptyPaths
      <3>6. PICK k \in CollapseNestedCandidates(found) :
              IsPrefix(Canonical(disk, k), Canonical(disk, q))
        BY <1>2, <3>5, CollapseCovers
      <3> QED
        BY <1>1, <2>1, <3>4, <3>6 DEF KeyGoes
    <2> QED
      BY <1>1, <2>1, <2>2, <2>3 DEF WholeInv
  <1>8. CASE RequestAbort
    <2>1. /\ dpc = "scan" /\ dpc' = "scan"
          /\ UNCHANGED <<roots, stack, found, unread, missed, aborted>>
      BY <1>8 DEF RequestAbort
    <2>2. ASSUME ~aborted', NEW r \in SearchRoots, NEW p \in Paths, Due(r, p)', Due(r, p)
          PROVE  NotLost(r, p)'
      <3>1. NotLost(r, p)
        BY <2>1, <2>2 DEF WholeInv
      <3>2. Seen' = Seen
        BY <1>1, <2>1 DEF Seen
      <3> QED
        BY <1>1, <2>1, <3>1, <3>2 DEF NotLost, Ahead
    <2> QED
      BY <1>1, <2>1, <2>2, WalkStepWhole
  <1>9. ASSUME stack # <<>>, NEW e \in Rest, EntryLost(e)
        PROVE  WholeInv'
    BY <1>1, <1>9, EntryLostWhole
  <1> QED
    BY <1>1, <1>3, <1>4, <1>5, <1>6, <1>7, <1>8, <1>9 DEF ScanStep

LEMMA NextKeepsWhole ==
  ASSUME ScanInv, WholeInv, [Next]_vars
  PROVE  WholeInv'
  <1>1. CASE UNCHANGED <<scanVars, disk, enabled, place>>
    <2>1. SearchRoots' = SearchRoots /\ Paths' = Paths
      BY <1>1, SameDisk
    <2>2. \A r, p : /\ Due(r, p)' <=> Due(r, p)
                    /\ NotLost(r, p)' <=> NotLost(r, p)
                    /\ KeyGoes(p)' <=> KeyGoes(p)
      BY <1>1 DEF scanVars, Due, Reaches, NotLost, Seen, Ahead, KeyGoes
    <2> QED
      BY <1>1, <2>1, <2>2 DEF scanVars, WholeInv
  <1>2. ASSUME place \notin {"scan", "exited"}, UNCHANGED scanVars
        PROVE  WholeInv'
    BY <1>2 DEF scanVars, WholeInv
  <1>3. CASE BeginScan
    <2>1. /\ dpc' = "scan" /\ missed' = SearchRoots \ roots' /\ place' = "scan"
          /\ UNCHANGED disk
      BY <1>3 DEF BeginScan, StartScan
    <2>2. SearchRoots' = SearchRoots /\ Paths' = Paths
      BY <2>1, SameDisk
    <2>3. ASSUME NEW r \in SearchRoots, NEW p \in Paths, Due(r, p)'
          PROVE  NotLost(r, p)'
      <3>1. r \notin missed'
        <4>1. /\ r \in Seq(Names) /\ p \in Seq(Names)
              /\ Len(r) \in Nat /\ Len(p) \in Nat
          BY PathsAreEntries, RootsAreDirs, LenProperties DEF ScanInv, NonEmptyPaths
        <4>2. Len(r) \in Len(r) .. Len(p) /\ SubSeq(p, 1, Len(r)) = r
          BY <2>3, <4>1, SubSeqFull DEF Due, Reaches, IsPrefix
        <4> QED
          BY <2>3, <4>2 DEF Due, Reaches
      <3> QED
        BY <2>1, <3>1 DEF NotLost
    <2> QED
      BY <2>1, <2>2, <2>3 DEF WholeInv
  <1>4. CASE Scan
    BY <1>4, ScanStepWhole
  <1>5. CASE ReadCommandLine
    BY <1>2, <1>5 DEF ReadCommandLine, Unchanged
  <1>6. CASE \E o \in MenuOptions : ToggleOption(o)
    BY <1>2, <1>6 DEF ToggleOption, Unchanged
  <1>7. CASE \E c \in Components : ToggleComponent(c)
    BY <1>2, <1>7 DEF ToggleComponent, Unchanged
  <1>8. CASE Quit \/ Start \/ CheckArgs
    BY <1>2, <1>8 DEF Quit, Start, CheckArgs, Unchanged
  <1>9. CASE Elevate \/ GoOnAsIs \/ StartWorker \/ NoWorker
    BY <1>2, <1>9 DEF Elevate, GoOnAsIs, StartWorker, NoWorker, Unchanged
  <1>10. CASE UNCHANGED vars
    BY <1>1, <1>10 DEF vars, runVars
  <1> QED
    BY <1>3, <1>4, <1>5, <1>6, <1>7, <1>8, <1>9, <1>10 DEF Next

\* walk and process_path: whatever is still to be reached lies ahead of the
\* walk, and whatever was passed is among the candidates or below one.
THEOREM WholeInvariant == Spec => []WholeInv
  <1>1. Init => WholeInv
    BY DEF Init, DiscoveryInit, WholeInv
  <1> QED
    BY <1>1, ScanInvariant, NextKeepsWhole, PTL DEF Spec

\* A path is its own key, unless its last name is that of a reparse point.
LEMMA KeyOfEntry ==
  ASSUME WellFormed(disk), NEW p \in Paths, KindOf(disk, p) # "link"
  PROVE  /\ Canonical(disk, p) = Located(disk, p)
         /\ Located(disk, p) \in disk.dirs \cup disk.files
         /\ Located(disk, p) \in disk.dirs <=> KindOf(disk, p) = "dir"
  <1>1. p \in NonEmptyPaths /\ Located(disk, p) \in Entries(disk)
    BY PathsAreEntries
  <1>2. /\ Located(disk, p) \in disk.dirs \cup disk.files
        /\ Located(disk, p) \notin Links(disk)
        /\ Located(disk, p) \in disk.dirs <=> KindOf(disk, p) = "dir"
    BY <1>1 DEF KindOf, Entries, WellFormed
  <1>3. /\ Front(p) \in Seq(Names) /\ Last(p) \in Names
        /\ p = Append(Front(p), Last(p))
    BY <1>1, SplitAtLast DEF NonEmptyPaths
  <1>4. Located(disk, p) = Append(Canonical(disk, Front(p)), Last(p))
    BY DEF Located
  <1>5. Via(disk, Front(p)) # {} \/ Append(Front(p), Last(p)) \notin Links(disk)
    <2> SUFFICES ASSUME Via(disk, Front(p)) = {}
                 PROVE  Append(Front(p), Last(p)) \notin Links(disk)
      OBVIOUS
    <2>1. Canonical(disk, Front(p)) = Front(p)
      BY CanonicalForm
    <2> QED
      BY <1>2, <1>4, <2>1
  <1>6. Canonical(disk, Append(Front(p), Last(p))) = Append(Canonical(disk, Front(p)), Last(p))
    BY <1>3, <1>5, CanonicalOfAppend
  <1> QED
    BY <1>2, <1>3, <1>4, <1>6

\* walk, process_path and collapse_nested_candidates: on every disk, with any
\* folder unreadable and any root and any entry left out without a word, what a
\* scan that was not aborted could still reach and what matches goes with a
\* candidate that is left, unless a link hides it (LinkHidesIt).
THEOREM NothingIsLost == Spec => []ScanIsWhole
  <1>1. ASSUME ScanInv, WholeInv
        PROVE  ScanIsWhole
    <2> SUFFICES ASSUME dpc = "done", ~aborted, NEW p \in Wanted, ~LinkHidesIt(p)
                 PROVE  Located(disk, p) \in Goes(found)
      BY DEF ScanIsWhole
    <2>1. p \in Paths /\ Reachable(p) /\ Matches(p, enabled)
      BY DEF Wanted
    <2>2. PICK r \in SearchRoots : Due(r, p)
      BY <2>1 DEF Reachable, Due, Reaches
    <2>3. PICK k \in found : IsPrefix(Canonical(disk, k), Canonical(disk, p))
      BY <1>1, <2>1, <2>2 DEF WholeInv, KeyGoes
    <2>4. WellFormed(disk) /\ Held(k) /\ k \in Paths
      BY <1>1 DEF ScanInv, Held
    <2>5. Located(disk, p) \in Entries(disk)
      BY <2>1, <2>4, PathsAreEntries
    <2>6. CASE k = p
      BY <2>5, <2>6 DEF Goes
    <2>7. CASE k # p
      <3>1. KindOf(disk, p) # "link" /\ KindOf(disk, k) # "link"
        BY <2>3, <2>7 DEF LinkHidesIt
      <3>2. /\ Canonical(disk, p) = Located(disk, p)
            /\ Canonical(disk, k) = Located(disk, k)
            /\ Located(disk, k) \in disk.dirs \cup disk.files
            /\ Located(disk, k) \in disk.dirs <=> KindOf(disk, k) = "dir"
        BY <2>1, <2>4, <3>1, KeyOfEntry
      <3>3. IsPrefix(Located(disk, k), Located(disk, p))
        BY <2>3, <3>2
      <3>4. CASE KindOf(disk, k) = "dir"
        BY <2>5, <3>3, <3>4 DEF Goes
      <3>5. CASE KindOf(disk, k) # "dir"
        <4>1. PICK f \in Seq(Names) : f = Located(disk, k)
          BY <2>4 DEF Held
        <4>2. PICK e \in Entries(disk) : e = Located(disk, p)
          BY <2>5
        <4>3. e \in Seq(Names) /\ f \in disk.files /\ IsPrefix(f, e)
          BY <2>4, <3>2, <3>3, <3>5, <4>1, <4>2 DEF WellFormed, NonEmptyPaths
        <4>4. f # <<>>
          BY <2>4, <4>3 DEF WellFormed, NonEmptyPaths, Entries
        <4>5. f = e
          <5> SUFFICES ASSUME f # e
                       PROVE  FALSE
            OBVIOUS
          <5>1. /\ Len(f) \in Nat /\ Len(e) \in Nat /\ Len(f) < Len(e)
                /\ SubSeq(e, 1, Len(f)) = f
            BY <4>3, OneNameOn
          <5>2. Len(f) # 0
            BY <4>4, EmptySeq
          <5>3. Len(f) \in 1 .. Len(e) - 1
            BY <5>1, <5>2
          <5> QED
            BY <2>4, <4>3, <5>1, <5>3 DEF WellFormed
        <4> QED
          BY <2>5, <4>1, <4>2, <4>5 DEF Goes
      <3> QED
        BY <3>4, <3>5
    <2> QED
      BY <2>6, <2>7
  <1> QED
    BY <1>1, ScanInvariant, WholeInvariant, PTL
===============================================================================
