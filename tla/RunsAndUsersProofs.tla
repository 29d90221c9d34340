------------------------- MODULE RunsAndUsersProofs -------------------------
(***************************************************************************)
(* Proofs about the production runs and about the users and their          *)
(* sessions, for any number of ids, lines and requests.                    *)
(*                                                                         *)
(* Runs: every run keeps its header, its row and its value equal to what   *)
(* its lines and its status call for (RunOK); that sums by lines and sums  *)
(* by products agree does the rest.                                        *)
(*                                                                         *)
(* Users: what an open request was told at its start is still enough for   *)
(* its write, and the counter of a row is the history of its failures      *)
(* (UsersInv).                                                             *)
(***************************************************************************)
EXTENDS ProductionReports, Accounts, SumTheorems, SequenceTheorems, TLAPS

-----------------------------------------------------------------------------
(* Production runs. *)

LEMMA RunsFinite ==
    IsFiniteSet(Run)
BY RunAssumption

-----------------------------------------------------------------------------
(* The lists of lines.                                                     *)

LEMMA LinesAre ==
    ASSUME NEW S, NEW s
    PROVE  s \in Lines(S) <=>
             \E n \in Nat : n <= MaxLines /\ s \in [1 .. n -> S] /\ s \in Seq(S) /\ Len(s) = n
BY MaxLinesAssumption DEF Lines

LEMMA LinesAppend ==
    ASSUME NEW S, NEW s \in Lines(S), Len(s) < MaxLines, NEW x \in S
    PROVE  /\ Append(s, x) \in Lines(S)
           /\ DOMAIN Append(s, x) = 1 .. Len(s) + 1
           /\ \A i \in DOMAIN s : Append(s, x)[i] = s[i]
           /\ Append(s, x)[Len(s) + 1] = x
<1>1. PICK n \in Nat : n <= MaxLines /\ s \in [1 .. n -> S] /\ s \in Seq(S) /\ Len(s) = n
    BY LinesAre
<1>2. Append(s, x) \in Seq(S) /\ Len(Append(s, x)) = n + 1
    BY <1>1, AppendProperties
<1>5. Append(s, x) \in [1 .. n + 1 -> S]
    <2>1. PICK t : t = Append(s, x)
        OBVIOUS
    <2>2. t \in [1 .. Len(t) -> S] /\ Len(t) = n + 1
        BY <1>2, <2>1, LenProperties
    <2> QED BY <2>1, <2>2
<1>3. n + 1 \in Nat /\ n + 1 <= MaxLines
    BY <1>1, MaxLinesAssumption
<1>4. Append(s, x) \in Lines(S)
    BY <1>2, <1>3, <1>5, LinesAre
<1> QED BY <1>1, <1>2, <1>4, AppendProperties

LEMMA LinesReplace ==
    ASSUME NEW S, NEW s \in Lines(S), NEW i \in DOMAIN s, NEW x \in S
    PROVE  [s EXCEPT ![i] = x] \in Lines(S)
<1>1. PICK n \in Nat : n <= MaxLines /\ s \in [1 .. n -> S] /\ s \in Seq(S) /\ Len(s) = n
    BY LinesAre
<1>2. [s EXCEPT ![i] = x] \in [1 .. n -> S]
    BY <1>1
<1>3. [s EXCEPT ![i] = x] \in Seq(S) /\ Len([s EXCEPT ![i] = x]) = n
    BY <1>1, <1>2
<1> QED BY <1>1, <1>2, <1>3, LinesAre

LEMMA LinesRemove ==
    ASSUME NEW S, NEW s \in Lines(S), NEW i \in DOMAIN s
    PROVE  /\ RemoveAt(s, i) \in Lines(S)
           /\ DOMAIN RemoveAt(s, i) = 1 .. Len(s) - 1
           /\ \A j \in 1 .. Len(s) - 1 : RemoveAt(s, i)[j] = IF j < i THEN s[j] ELSE s[j + 1]
<1>1. PICK n \in Nat : n <= MaxLines /\ s \in [1 .. n -> S] /\ s \in Seq(S) /\ Len(s) = n
    BY LinesAre
<1>2. i \in 1 .. n /\ n - 1 \in Nat
    BY <1>1
<1>3. PICK a : a = SubSeq(s, 1, i - 1)
    OBVIOUS
<1>4. PICK b : b = SubSeq(s, i + 1, n)
    OBVIOUS
<1>5. a \in Seq(S) /\ Len(a) = i - 1 /\ \A j \in 1 .. i - 1 : a[j] = s[j]
    BY <1>1, <1>2, <1>3
<1>6. b \in Seq(S) /\ Len(b) = n - i /\ \A j \in 1 .. n - i : b[j] = s[j + i]
    BY <1>1, <1>2, <1>4
<1>7. RemoveAt(s, i) = a \o b
    BY <1>1, <1>3, <1>4 DEF RemoveAt
<1>8. a \o b \in Seq(S) /\ Len(a \o b) = n - 1
    <2>1. a \o b \in Seq(S) /\ Len(a \o b) = Len(a) + Len(b)
        BY <1>5, <1>6, ConcatProperties
    <2> QED BY <1>1, <1>2, <1>5, <1>6, <2>1
<1>9. \A j \in 1 .. n - 1 : (a \o b)[j] = IF j < i THEN s[j] ELSE s[j + 1]
    <2>1. \A j \in 1 .. Len(a) + Len(b) :
              (a \o b)[j] = IF j <= Len(a) THEN a[j] ELSE b[j - Len(a)]
        BY <1>5, <1>6, ConcatProperties
    <2>2. ASSUME NEW j \in 1 .. n - 1, j < i
          PROVE  (a \o b)[j] = s[j]
        BY <1>1, <1>2, <1>5, <1>6, <2>1, <2>2
    <2>3. ASSUME NEW j \in 1 .. n - 1, ~(j < i)
          PROVE  (a \o b)[j] = s[j + 1]
        <3>0. j \in Int /\ ~(j <= Len(a)) /\ j \in 1 .. Len(a) + Len(b)
            BY <1>1, <1>2, <1>5, <1>6, <2>3
        <3>1. (a \o b)[j] = b[j - (i - 1)] /\ j - (i - 1) \in 1 .. n - i
            <4>1. (a \o b)[j] = b[j - Len(a)]
                BY <2>1, <3>0
            <4> QED BY <1>1, <1>2, <1>5, <2>3, <4>1
        <3>2. b[j - (i - 1)] = s[j - (i - 1) + i]
            BY <1>6, <3>1
        <3>3. j - (i - 1) + i = j + 1
            BY <1>2
        <3> QED BY <3>1, <3>2, <3>3
    <2> QED BY <2>2, <2>3
<1>10. a \o b \in [1 .. n - 1 -> S] /\ DOMAIN (a \o b) = 1 .. n - 1
    <2>1. PICK t : t = a \o b
        OBVIOUS
    <2>2. t \in [1 .. Len(t) -> S] /\ Len(t) = n - 1
        BY <1>8, <2>1, LenProperties
    <2> QED BY <2>1, <2>2
<1>11. a \o b \in Lines(S)
    <2>1. n - 1 \in Nat /\ n - 1 <= MaxLines
        BY <1>1, <1>2, MaxLinesAssumption
    <2> QED BY <1>8, <1>10, <2>1, LinesAre
<1> QED BY <1>1, <1>7, <1>9, <1>10, <1>11

LEMMA LinesFinite ==
    ASSUME NEW S, NEW s \in Lines(S)
    PROVE  IsFiniteSet(DOMAIN s) /\ s \in [DOMAIN s -> S]
<1>1. PICK n \in Nat : s \in [1 .. n -> S]
    BY LinesAre
<1> QED BY <1>1, FS_Interval

-----------------------------------------------------------------------------
(* The costs of a run.                                                     *)

LEMMA LineCosts ==
    ASSUME NEW l \in InputLine
    PROVE  LineCost(l) \in Int /\ l.qty \in Nat
<1>1. l.qty \in Nat /\ l.unit \in Nat
    BY QuantityAssumption, BasisAssumption DEF InputLine
<1>2. PICK a \in Int : a = l.qty * l.unit
    BY <1>1
<1> QED BY <1>1, <1>2 DEF LineCost, Rounded

LEMMA CostsOfRun ==
    ASSUME NEW s \in Lines(InputLine), NEW c \in Lines(CostLine)
    PROVE  RawCost(s) \in Int /\ Overhead(c) \in Nat /\ CashOverhead(c) \in Nat
<1> DEFINE raw == [i \in DOMAIN s |-> LineCost(s[i])]
           over == [i \in DOMAIN c |-> c[i].amount]
           cash == [i \in DOMAIN c |-> IF c[i].cash THEN c[i].amount ELSE 0]
<1>1. raw \in [DOMAIN s -> Int]
    BY LineCosts, LinesFinite
<1>2. over \in [DOMAIN c -> Nat] /\ cash \in [DOMAIN c -> Nat]
    <2>1. ASSUME NEW i \in DOMAIN c
          PROVE  c[i].amount \in Nat
        <3>1. c[i] \in CostLine
            BY LinesFinite
        <3>2. c[i].amount \in Amount
            BY <3>1 DEF CostLine
        <3> QED BY <3>2, AmountAssumption
    <2>2. ASSUME NEW i \in DOMAIN c
          PROVE  (IF c[i].cash THEN c[i].amount ELSE 0) \in Nat
        <3>1. (IF c[i].cash THEN c[i].amount ELSE 0) = c[i].amount
              \/ (IF c[i].cash THEN c[i].amount ELSE 0) = 0
            BY Zenon
        <3> QED BY <2>1, <3>1
    <2> QED BY <2>1, <2>2
<1>3. /\ RawCost(s) = SumFunction(raw)
      /\ Overhead(c) = SumFunction(over)
      /\ CashOverhead(c) = SumFunction(cash)
    BY DEF RawCost, Overhead, CashOverhead
<1> HIDE DEF raw, over, cash
<1>4. SumFunction(raw) \in Int
    BY <1>1, LinesFinite, SumFunInt
<1>5. SumFunction(over) \in Nat /\ SumFunction(cash) \in Nat
    BY <1>2, LinesFinite, SumFunNat
<1> QED BY <1>3, <1>4, <1>5

(* No product is on two lines.                                             *)
Distinct(s) == \A i, j \in DOMAIN s : s[i].product = s[j].product => i = j

LEMMA ConsumedOnce ==
    ASSUME NEW s \in Lines(InputLine), Distinct(s), NEW p
    PROVE  /\ \A i \in DOMAIN s : s[i].product = p => Consumed(s, p) = s[i].qty
           /\ (\A i \in DOMAIN s : s[i].product # p) => Consumed(s, p) = 0
           /\ Consumed(s, p) \in Nat
<1> DEFINE f == [i \in DOMAIN s |-> IF s[i].product = p THEN s[i].qty ELSE 0]
           z == [i \in DOMAIN s |-> 0]
<1>1. f \in [DOMAIN s -> Nat] /\ f \in [DOMAIN s -> Int]
    BY LineCosts, LinesFinite
<1>2. Consumed(s, p) = SumFunction(f)
    BY DEF Consumed
<1>3. z \in [DOMAIN s -> Int] /\ \A i \in DOMAIN s : z[i] = 0
    OBVIOUS
<1>4. ASSUME NEW i \in DOMAIN s, s[i].product = p
      PROVE  f[i] = s[i].qty /\ \A j \in DOMAIN s \ {i} : f[j] = z[j]
    BY <1>4 DEF Distinct
<1>5. ASSUME \A i \in DOMAIN s : s[i].product # p
      PROVE  \A i \in DOMAIN s : f[i] = 0
    BY <1>5
<1> HIDE DEF f, z
<1>6. IsFiniteSet(DOMAIN s)
    BY LinesFinite
<1>7. SumFunction(z) = 0
    BY <1>3, <1>6, SumFunZero
<1>8. ASSUME NEW i \in DOMAIN s, s[i].product = p
      PROVE  SumFunction(f) = s[i].qty
    <2>1. SumFunction(f) = SumFunction(z) - z[i] + f[i]
        BY <1>1, <1>3, <1>4, <1>6, <1>8, SumFunChange
    <2>2. s[i].qty \in Nat
        BY LineCosts, LinesFinite
    <2> QED BY <1>3, <1>4, <1>7, <1>8, <2>1, <2>2
<1>9. (\A i \in DOMAIN s : s[i].product # p) => SumFunction(f) = 0
    BY <1>1, <1>5, <1>6, SumFunZero
<1>10. SumFunction(f) \in Nat
    BY <1>1, <1>6, SumFunNat
<1> QED BY <1>2, <1>8, <1>9, <1>10

-----------------------------------------------------------------------------
(* The state of one run: the totals are those of its lines, and the        *)
(* ledgers hold what its status says.                                      *)
RunOK(r) ==
    /\ Distinct(input[r])
    /\ status[r] # "none" =>
        /\ output[r] \in OutputChoice
        /\ header[r] = Header(input[r], overhead[r], output[r].qty)
        /\ outputRow[r] = Row(input[r], overhead[r], output[r])
    /\ status[r] \in {"none", "draft"} => paid[r] = 0
    /\ status[r] # "posted" => moved[r] = NoMovement /\ value[r] = 0
    /\ status[r] = "posted" => value[r] = header[r].overhead
    /\ status[r] \in {"posted", "cancelled"} => paid[r] = CashOverhead(overhead[r])

RunsTyped ==
    /\ status \in [Run -> {"none", "draft", "posted", "cancelled"}]
    /\ output = [r \in Run |-> output[r]]
    /\ header = [r \in Run |-> header[r]]
    /\ outputRow = [r \in Run |-> outputRow[r]]
    /\ input \in [Run -> Lines(InputLine)]
    /\ overhead \in [Run -> Lines(CostLine)]
    /\ moved \in [Run -> [Product -> Int]]
    /\ value \in [Run -> Int]
    /\ paid \in [Run -> Nat]

RunsInv == RunsTyped /\ \A r \in Run : RunOK(r)

(* A draft is written, by its creation or by an edit.                      *)
Written(r, o, s, c) ==
    /\ status[r] \in {"none", "draft"}
    /\ Distinct(s)
    /\ status' = [status EXCEPT ![r] = "draft"]
    /\ output' = [output EXCEPT ![r] = o]
    /\ input' = [input EXCEPT ![r] = s]
    /\ overhead' = [overhead EXCEPT ![r] = c]
    /\ header' = [header EXCEPT ![r] = Header(s, c, o.qty)]
    /\ outputRow' = [outputRow EXCEPT ![r] = Row(s, c, o)]
    /\ UNCHANGED <<moved, value, paid>>

LEMMA RunCreated ==
    ASSUME NEW r, NEW o, NEW s \in Lines(InputLine), NEW c, CreateDraft(r, o, s, c)
    PROVE  Written(r, o, s, c)
<1>1. Distinct(s)
    BY DEF CreateDraft, MayUse, Distinct
<1> QED BY <1>1 DEF CreateDraft, Recompute, Written

(* The inputs of a draft are replaced.                                     *)
LEMMA RunInputs ==
    ASSUME RunsInv, NEW r \in Run, NEW s, SetInputs(r, s), Distinct(s)
    PROVE  Written(r, output[r], s, overhead[r])
BY DEF RunsInv, RunsTyped, SetInputs, Recompute, Written

LEMMA RunOverhead ==
    ASSUME RunsInv, NEW r \in Run, NEW c, SetOverhead(r, c)
    PROVE  Written(r, output[r], input[r], c)
BY DEF RunsInv, RunsTyped, RunOK, SetOverhead, Recompute, Written

LEMMA RunEdited ==
    ASSUME RunsInv, NEW r \in Run, Edit(r)
    PROVE  \E o \in OutputChoice, s \in Lines(InputLine),
              c \in Lines(CostLine) : Written(r, o, s, c)
<1> DEFINE Goal == \E o \in OutputChoice, s \in Lines(InputLine),
                      c \in Lines(CostLine) : Written(r, o, s, c)
<1>1. /\ input[r] \in Lines(InputLine) /\ overhead[r] \in Lines(CostLine)
      /\ Distinct(input[r])
      /\ status[r] = "draft" => output[r] \in OutputChoice
    BY DEF RunsInv, RunsTyped, RunOK
<1>2. ASSUME NEW s \in Lines(InputLine), Distinct(s), SetInputs(r, s)
      PROVE  Goal
    BY <1>1, <1>2, RunInputs DEF SetInputs
<1>3. ASSUME NEW c \in Lines(CostLine), SetOverhead(r, c)
      PROVE  Goal
    BY <1>1, <1>3, RunOverhead DEF SetOverhead
<1> HIDE DEF Goal
<1>4. PICK n \in Nat : /\ n <= MaxLines /\ input[r] \in [1 .. n -> InputLine]
                       /\ Len(input[r]) = n
    BY <1>1, LinesAre
<1>5. ASSUME NEW o \in OutputChoice, UpdateDraft(r, o)
      PROVE  Goal
    <2>1. Written(r, o, input[r], overhead[r])
        BY <1>1, <1>5 DEF RunsInv, RunsTyped, UpdateDraft, Recompute, Written
    <2> QED BY <1>1, <2>1 DEF Goal
<1>6. ASSUME NEW l \in InputLine, AddInput(r, l)
      PROVE  Goal
    <2>1. /\ Len(input[r]) < MaxLines
          /\ SetInputs(r, Append(input[r], l))
          /\ \A j \in DOMAIN input[r] : j # 0 => input[r][j].product # l.product
        BY <1>6 DEF AddInput, MayUse
    <2>2. PICK s : s = Append(input[r], l)
        OBVIOUS
    <2>3. /\ s \in Lines(InputLine) /\ DOMAIN s = 1 .. n + 1
          /\ \A i \in 1 .. n : s[i] = input[r][i]
          /\ s[n + 1] = l
        BY <1>1, <1>4, <2>1, <2>2, LinesAppend
    <2>4. \A j \in 1 .. n : input[r][j].product # l.product
        BY <1>4, <2>1
    <2>5. \A i, j \in 1 .. n : input[r][i].product = input[r][j].product => i = j
        BY <1>1, <1>4 DEF Distinct
    <2>6. \A i \in 1 .. n + 1 : i \in 1 .. n \/ i = n + 1
        BY <1>4
    <2>7. Distinct(s)
        BY <2>3, <2>4, <2>5, <2>6 DEF Distinct
    <2> QED BY <1>2, <2>1, <2>2, <2>3, <2>7
<1>7. ASSUME NEW i \in DOMAIN input[r], NEW l \in InputLine, UpdateInput(r, i, l)
      PROVE  Goal
    <2>1. PICK s : s = [input[r] EXCEPT ![i] = l]
        OBVIOUS
    <2>2. s \in Lines(InputLine)
        BY <1>1, <2>1, LinesReplace
    <2>3. Distinct(s)
        BY <1>1, <1>7, <2>1 DEF Distinct, UpdateInput, MayUse
    <2>4. SetInputs(r, s)
        BY <1>7, <2>1 DEF UpdateInput
    <2> QED BY <1>2, <2>2, <2>3, <2>4
<1>8. ASSUME NEW i \in DOMAIN input[r], DeleteInput(r, i)
      PROVE  Goal
    <2>1. PICK s : s = RemoveAt(input[r], i)
        OBVIOUS
    <2>2. /\ s \in Lines(InputLine) /\ DOMAIN s = 1 .. n - 1
          /\ \A j \in 1 .. n - 1 : s[j] = IF j < i THEN input[r][j] ELSE input[r][j + 1]
        BY <1>1, <1>4, <2>1, LinesRemove
    <2>3. \A j, k \in 1 .. n : input[r][j].product = input[r][k].product => j = k
        BY <1>1, <1>4 DEF Distinct
    <2>4. PICK at \in [1 .. n - 1 -> 1 .. n] :
              \A j \in 1 .. n - 1 : at[j] = IF j < i THEN j ELSE j + 1
        <3>1. \A j \in 1 .. n - 1 : (IF j < i THEN j ELSE j + 1) \in 1 .. n
            BY <1>4
        <3>2. [j \in 1 .. n - 1 |-> IF j < i THEN j ELSE j + 1] \in [1 .. n - 1 -> 1 .. n]
            BY <3>1
        <3> QED BY <3>2
    <2>5. \A j \in 1 .. n - 1 : s[j] = input[r][at[j]]
        BY <2>2, <2>4
    <2>6. \A j, k \in 1 .. n - 1 : at[j] = at[k] => j = k
        BY <1>4, <2>4
    <2>7. Distinct(s)
        <3> SUFFICES ASSUME NEW j \in 1 .. n - 1, NEW k \in 1 .. n - 1,
                            s[j].product = s[k].product
                     PROVE  j = k
            BY <2>2 DEF Distinct
        <3>1. at[j] \in 1 .. n /\ at[k] \in 1 .. n
            BY <2>4
        <3>2. input[r][at[j]].product = input[r][at[k]].product
            BY <2>5
        <3> QED BY <2>3, <2>6, <3>1, <3>2
    <2>8. SetInputs(r, s)
        BY <1>8, <2>1 DEF DeleteInput
    <2> QED BY <1>2, <2>2, <2>7, <2>8
<1>9. ASSUME NEW c \in CostLine, AddCostLine(r, c)
      PROVE  Goal
    BY <1>1, <1>3, <1>9, LinesAppend DEF AddCostLine
<1>10. ASSUME NEW i \in DOMAIN overhead[r], NEW c \in CostLine, UpdateCostLine(r, i, c)
       PROVE  Goal
    BY <1>1, <1>3, <1>10, LinesReplace DEF UpdateCostLine
<1>11. ASSUME NEW i \in DOMAIN overhead[r], DeleteCostLine(r, i)
       PROVE  Goal
    BY <1>1, <1>3, <1>11, LinesRemove DEF DeleteCostLine
<1> QED BY <1>5, <1>6, <1>7, <1>8, <1>9, <1>10, <1>11 DEF Edit, Goal

LEMMA RunWritten ==
    ASSUME RunsInv, NEW r \in Run, NEW o \in OutputChoice,
           NEW s \in Lines(InputLine), NEW c \in Lines(CostLine),
           Written(r, o, s, c)
    PROVE  RunsInv'
<1>1. RunsTyped'
    BY DEF RunsInv, RunsTyped, Written
<1>2. RunOK(r)'
    <2>1. /\ status'[r] = "draft" /\ output'[r] = o /\ input'[r] = s /\ overhead'[r] = c
          /\ header'[r] = Header(s, c, o.qty) /\ outputRow'[r] = Row(s, c, o)
          /\ Distinct(s)
          /\ moved'[r] = moved[r] /\ value'[r] = value[r] /\ paid'[r] = paid[r]
        BY DEF RunsInv, RunsTyped, Written
    <2>2. moved[r] = NoMovement /\ value[r] = 0 /\ paid[r] = 0
        BY DEF RunsInv, RunOK, Written
    <2> QED BY <2>1, <2>2 DEF RunOK
<1>3. ASSUME NEW q \in Run, q # r
      PROVE  RunOK(q)'
    <2>1. /\ status'[q] = status[q] /\ output'[q] = output[q] /\ input'[q] = input[q]
          /\ overhead'[q] = overhead[q] /\ header'[q] = header[q] /\ outputRow'[q] = outputRow[q]
          /\ moved'[q] = moved[q] /\ value'[q] = value[q] /\ paid'[q] = paid[q]
        BY <1>3 DEF RunsInv, RunsTyped, Written
    <2>2. RunOK(q)
        BY DEF RunsInv
    <2> QED BY <2>1, <2>2 DEF RunOK
<1> QED BY <1>1, <1>2, <1>3 DEF RunsInv

(* A post moves what the run consumed and made, and its value is the       *)
(* overhead.                                                               *)
LEMMA RunPosted ==
    ASSUME RunsInv, NEW r \in Run, Post(r)
    PROVE  RunsInv'
<1> DEFINE s == input[r]
           o == output[r]
           c == overhead[r]
           total == RawCost(s) + Overhead(c)
           sold == [p \in Product |-> (IF p = o.product THEN o.qty ELSE 0) - Consumed(s, p)]
<1>1. status[r] = "draft" /\ RunOK(r) /\ total > 0
    BY DEF RunsInv, Post, CanPost
<1>2. o \in OutputChoice /\ Distinct(s)
    BY <1>1 DEF RunOK
<1>3. s \in Lines(InputLine) /\ c \in Lines(CostLine)
    BY DEF RunsInv, RunsTyped
<1>4. RawCost(s) \in Int /\ Overhead(c) \in Nat /\ CashOverhead(c) \in Nat
    BY <1>3, CostsOfRun
<1>5. sold \in [Product -> Int]
    <2>1. \A p \in Product : Consumed(s, p) \in Nat
        BY <1>2, <1>3, ConsumedOnce
    <2>2. o.qty \in Nat
        BY <1>2, QuantityAssumption DEF OutputChoice
    <2> QED BY <2>1, <2>2
<1>6. OutputCost(total, o.qty) - RawCost(s) = Overhead(c)
    BY <1>1, <1>4 DEF OutputCost
<1>7. /\ moved' = [moved EXCEPT ![r] = sold]
      /\ value' = [value EXCEPT ![r] = Overhead(c)]
      /\ paid' = [paid EXCEPT ![r] = CashOverhead(c)]
      /\ header' = [header EXCEPT ![r] = Header(s, c, o.qty)]
      /\ status' = [status EXCEPT ![r] = "posted"]
      /\ UNCHANGED <<output, input, overhead, outputRow>>
    BY <1>6 DEF Post
<1>8. RunsTyped'
    <2>1. RunsTyped
        BY DEF RunsInv
    <2> HIDE DEF s, c, o, total, sold
    <2>2. /\ status' \in [Run -> {"none", "draft", "posted", "cancelled"}]
          /\ output' = [q \in Run |-> output'[q]]
          /\ header' = [q \in Run |-> header'[q]]
          /\ outputRow' = [q \in Run |-> outputRow'[q]]
        BY <1>7, <2>1 DEF RunsTyped
    <2>3. /\ input' \in [Run -> Lines(InputLine)]
          /\ overhead' \in [Run -> Lines(CostLine)]
        BY <1>7, <2>1 DEF RunsTyped
    <2>4. moved' \in [Run -> [Product -> Int]]
        BY <1>5, <1>7, <2>1 DEF RunsTyped
    <2>5. value' \in [Run -> Int] /\ paid' \in [Run -> Nat]
        BY <1>4, <1>7, <2>1 DEF RunsTyped
    <2> QED BY <2>2, <2>3, <2>4, <2>5 DEF RunsTyped
<1>9. RunOK(r)'
    <2>1. /\ status'[r] = "posted" /\ value'[r] = Overhead(c)
          /\ paid'[r] = CashOverhead(c) /\ header'[r] = Header(s, c, o.qty)
          /\ output'[r] = output[r] /\ input'[r] = input[r] /\ overhead'[r] = overhead[r]
          /\ outputRow'[r] = outputRow[r]
        BY <1>7 DEF RunsInv, RunsTyped
    <2>2. Header(s, c, o.qty).overhead = Overhead(c)
        BY DEF Header
    <2> QED BY <1>1, <2>1, <2>2 DEF RunOK
<1>10. ASSUME NEW q \in Run, q # r
       PROVE  RunOK(q)'
    <2>1. /\ status'[q] = status[q] /\ output'[q] = output[q] /\ input'[q] = input[q]
          /\ overhead'[q] = overhead[q] /\ header'[q] = header[q] /\ outputRow'[q] = outputRow[q]
          /\ moved'[q] = moved[q] /\ value'[q] = value[q] /\ paid'[q] = paid[q]
        BY <1>7, <1>10 DEF RunsInv, RunsTyped
    <2>2. RunOK(q)
        BY DEF RunsInv
    <2> QED BY <2>1, <2>2 DEF RunOK
<1> QED BY <1>8, <1>9, <1>10 DEF RunsInv

LEMMA RunCancelled ==
    ASSUME RunsInv, NEW r \in Run, Cancel(r)
    PROVE  RunsInv'
<1>1. NoMovement \in [Product -> Int]
    BY DEF NoMovement
<1>2. RunsTyped'
    BY <1>1 DEF RunsInv, RunsTyped, Cancel, AfterReversal
<1>3. RunOK(r)'
    BY DEF RunsInv, RunsTyped, RunOK, Cancel, AfterReversal
<1>4. ASSUME NEW q \in Run, q # r
      PROVE  RunOK(q)'
    <2>1. /\ status'[q] = status[q] /\ output'[q] = output[q] /\ input'[q] = input[q]
          /\ overhead'[q] = overhead[q] /\ header'[q] = header[q] /\ outputRow'[q] = outputRow[q]
          /\ moved'[q] = moved[q] /\ value'[q] = value[q] /\ paid'[q] = paid[q]
        BY <1>4 DEF RunsInv, RunsTyped, Cancel
    <2>2. RunOK(q)
        BY DEF RunsInv
    <2> QED BY <2>1, <2>2 DEF RunOK
<1> QED BY <1>2, <1>3, <1>4 DEF RunsInv

LEMMA RunsStart ==
    ASSUME RunInit
    PROVE  RunsInv
<1>1. <<>> \in Lines(InputLine) /\ <<>> \in Lines(CostLine) /\ Distinct(<<>>)
    <2>1. ASSUME NEW S
          PROVE  <<>> \in Lines(S)
        <3>1. <<>> \in Seq(S) /\ Len(<<>>) = 0
            BY EmptySeq
        <3>2. <<>> \in [1 .. 0 -> S]
            BY <3>1, LenProperties
        <3>3. 0 \in Nat /\ 0 <= MaxLines
            BY MaxLinesAssumption
        <3> QED BY <3>1, <3>2, <3>3, LinesAre
    <2> QED BY <2>1 DEF Distinct
<1>2. NoMovement \in [Product -> Int]
    BY DEF NoMovement
<1>3. RunsTyped
    BY <1>1, <1>2 DEF RunInit, RunsTyped
<1> QED BY <1>1, <1>3 DEF RunInit, RunsInv, RunOK

LEMMA RunsStep ==
    ASSUME RunsInv, [RunNext]_runVars
    PROVE  RunsInv'
<1>1. CASE UNCHANGED runVars
    BY <1>1 DEF runVars, RunsInv, RunsTyped, RunOK
<1>2. ASSUME NEW r \in Run, NEW o \in OutputChoice, NEW s \in Lines(InputLine),
             NEW c \in Lines(CostLine), CreateDraft(r, o, s, c)
      PROVE  RunsInv'
    BY <1>2, RunCreated, RunWritten
<1>3. ASSUME NEW r \in Run, Edit(r)
      PROVE  RunsInv'
    BY <1>3, RunEdited, RunWritten
<1> QED BY <1>1, <1>2, <1>3, RunPosted, RunCancelled DEF RunNext

(* The inductive invariant of the production runs.                         *)
THEOREM RunsInvariant == RunSpec => []RunsInv
<1>1. RunInit => RunsInv
    BY RunsStart
<1>2. RunsInv /\ [RunNext]_runVars => RunsInv'
    BY RunsStep
<1> QED BY <1>1, <1>2, PTL DEF RunSpec

(* The rows of a run have the types of their columns.                      *)
THEOREM RunsTypeOK == RunSpec => []RunTypeOK
<1>1. RunsInv => RunTypeOK
    BY DEF RunsInv, RunsTyped, RunOK, RunTypeOK
<1> QED BY <1>1, RunsInvariant, PTL

(* The header and the row of the output say what the lines say.            *)
THEOREM RunsTotalsAgree == RunSpec => []TotalsAgree
<1>1. RunsInv => TotalsAgree
    BY DEF RunsInv, RunOK, TotalsAgree
<1> QED BY <1>1, RunsInvariant, PTL

(* The movements of every product are those the lines and the status of    *)
(* each run call for.                                                      *)
THEOREM RunsLedgerFollows == RunSpec => []LedgerFollowsRun
<1>1. RunsInv => LedgerFollowsRun
    BY DEF RunsInv, RunOK, LedgerFollowsRun
<1> QED BY <1>1, RunsInvariant, PTL

LEMMA RunSettled ==
    ASSUME RunsInv, RunNext, NEW q \in Run, Settled(q)
    PROVE  Settled(q)' /\ header'[q] = header[q]
<1>1. ASSUME NEW r \in Run, NEW o, NEW s, NEW c, Written(r, o, s, c)
      PROVE  status'[q] = status[q] /\ header'[q] = header[q]
    <2>1. q # r
        BY <1>1 DEF Written, Settled
    <2> QED BY <1>1, <2>1 DEF Written, RunsInv, RunsTyped
<1>2. ASSUME NEW r \in Run, Post(r)
      PROVE  status'[q] = status[q] /\ header'[q] = header[q]
    <2>1. q # r
        BY <1>2 DEF Post, CanPost, Settled
    <2>2. /\ \E h : header' = [header EXCEPT ![r] = h]
          /\ status' = [status EXCEPT ![r] = "posted"]
        BY <1>2 DEF Post
    <2> QED BY <2>1, <2>2 DEF RunsInv, RunsTyped
<1>3. ASSUME NEW r \in Run, Cancel(r)
      PROVE  Settled(q)' /\ header'[q] = header[q]
    BY <1>3 DEF Cancel, Settled, RunsInv, RunsTyped
<1>4. ASSUME NEW r \in Run, Edit(r)
      PROVE  status'[q] = status[q] /\ header'[q] = header[q]
    BY <1>1, <1>4, RunEdited
<1>5. ASSUME NEW r \in Run, NEW o \in OutputChoice, NEW s \in Lines(InputLine),
             NEW c \in Lines(CostLine), CreateDraft(r, o, s, c)
      PROVE  status'[q] = status[q] /\ header'[q] = header[q]
    BY <1>1, <1>5, RunCreated
<1> QED BY <1>2, <1>3, <1>4, <1>5 DEF RunNext, Settled

(* The costs of a run that was posted do not change any more.              *)
THEOREM RunsSettledCostsStand == RunSpec => SettledCostsStand
<1>1. RunsInv /\ [RunNext]_runVars =>
        [\A r \in Run : Settled(r) => Settled(r)' /\ RunCost(r)' = RunCost(r)]_runVars
    BY RunSettled DEF RunCost
<1> QED BY <1>1, RunsInvariant, PTL DEF SettledCostsStand, RunSpec

(* What a post takes of a product is on hand.                              *)
LEMMA RunPostCovered ==
    ASSUME RunsInv, NEW r \in Run, Post(r), NEW p \in Product,
           p \notin NegativeOK, Stock(p)' < Stock(p)
    PROVE  Stock(p)' >= 0
<1> DEFINE s == input[r]
           made == IF p = output[r].product THEN output[r].qty ELSE 0
           before == [q \in Run |-> moved[q][p]]
           after == [q \in Run |-> moved'[q][p]]
<1>1. /\ status[r] = "draft" /\ RunOK(r)
      /\ s \in Lines(InputLine) /\ Distinct(s)
    BY DEF RunsInv, RunsTyped, RunOK, Post, CanPost
<1>2. moved[r] = NoMovement /\ output[r] \in OutputChoice
    BY <1>1 DEF RunOK
<1>3. RunsTyped /\ RunsTyped'
    BY RunPosted DEF RunsInv
<1>4. before \in [Run -> Int] /\ after \in [Run -> Int] /\ \A q \in Run \ {r} : after[q] = before[q]
    BY <1>3 DEF RunsTyped, Post
<1>5. /\ Stock(p) = OnHand[p] + SumFunction(before)
      /\ Stock(p)' = OnHand[p] + SumFunction(after)
    BY DEF Stock
<1>6. before[r] = 0
    BY <1>2 DEF NoMovement
<1>7. after[r] = made - Consumed(s, p)
    BY <1>3 DEF Post, RunsTyped
<1>8. made \in Nat
    BY <1>2, QuantityAssumption DEF OutputChoice
<1>9. OnHand[p] \in Int
    BY OnHandAssumption
<1>10. Consumed(s, p) \in Nat
    BY <1>1, ConsumedOnce
<1>11. ASSUME NEW i \in DOMAIN s, s[i].product = p
       PROVE  Stock(p) >= Consumed(s, p)
    <2>1. Consumed(s, p) = s[i].qty
        BY <1>1, <1>11, ConsumedOnce
    <2>2. \A j \in 1 .. i - 1 : s[j].product # p
        <3>1. PICK n \in Nat : s \in [1 .. n -> InputLine]
            BY <1>1, LinesAre
        <3>2. i \in 1 .. n /\ \A j \in 1 .. i - 1 : j \in DOMAIN s /\ j # i
            BY <3>1
        <3> QED BY <1>1, <1>11, <3>2 DEF Distinct
    <2>3. Suffices(s, i)
        BY DEF Post, CanPost
    <2> QED BY <1>11, <2>1, <2>2, <2>3 DEF Suffices
<1>12. (\A i \in DOMAIN s : s[i].product # p) => Consumed(s, p) = 0
    BY <1>1, ConsumedOnce
<1> HIDE DEF s, made, before, after
<1>13. SumFunction(after) = SumFunction(before) - before[r] + after[r] /\ SumFunction(before) \in Int
    BY <1>4, RunsFinite, SumFunChange, SumFunInt
<1>14. Stock(p)' = Stock(p) + made - Consumed(s, p) /\ Stock(p) \in Int
    BY <1>5, <1>6, <1>7, <1>8, <1>9, <1>10, <1>13
<1>15. Consumed(s, p) # 0
    BY <1>8, <1>10, <1>14
<1> QED BY <1>8, <1>10, <1>11, <1>12, <1>14, <1>15

(* A post consumes no more of a product than is in stock.                  *)
THEOREM RunsPostNeverOverdraws == RunSpec => PostNeverOverdraws
<1>1. RunsInv /\ [RunNext]_runVars =>
        [\A r \in Run : status[r] = "draft" /\ status'[r] = "posted" =>
          \A p \in Product \ NegativeOK : Stock(p)' < Stock(p) => Stock(p)' >= 0]_runVars
    <2> SUFFICES ASSUME RunsInv, RunNext, NEW r \in Run, status[r] = "draft",
                        status'[r] = "posted"
                 PROVE  Post(r)
        BY RunPostCovered
    <2>1. status \in [Run -> {"none", "draft", "posted", "cancelled"}]
        BY DEF RunsInv, RunsTyped
    <2>2. ASSUME NEW q \in Run, NEW st, status' = [status EXCEPT ![q] = st], st # "posted"
          PROVE  FALSE
        BY <2>1, <2>2
    <2>3. ASSUME NEW q \in Run, Edit(q)
          PROVE  FALSE
        <3>1. PICK o \in OutputChoice, s \in Lines(InputLine), c \in Lines(CostLine) :
                  Written(q, o, s, c)
            BY <2>3, RunEdited
        <3>2. status' = [status EXCEPT ![q] = "draft"]
            BY <3>1 DEF Written
        <3> QED BY <2>2, <3>2, Zenon
    <2>4. ASSUME NEW q \in Run, NEW o, NEW s, NEW c, CreateDraft(q, o, s, c)
          PROVE  FALSE
        <3>1. status' = [status EXCEPT ![q] = "draft"]
            BY <2>4 DEF CreateDraft
        <3> QED BY <2>2, <3>1, Zenon
    <2>5. ASSUME NEW q \in Run, Cancel(q)
          PROVE  FALSE
        <3>1. status' = [status EXCEPT ![q] = "cancelled"]
            BY <2>5 DEF Cancel
        <3> QED BY <2>2, <3>1, Zenon
    <2>6. ASSUME NEW q \in Run, Post(q)
          PROVE  q = r
        BY <2>1, <2>6 DEF Post
    <2> QED BY <2>3, <2>4, <2>5, <2>6 DEF RunNext
<1> QED BY <1>1, RunsInvariant, PTL DEF PostNeverOverdraws, RunSpec

-----------------------------------------------------------------------------
(* Users, roles and sessions. *)

(* The users: the counter of a row is the history of its failures.         *)
UsersPart ==
    /\ users \in [User -> UserRow \cup {Unused}]
    /\ misses \in [User -> Nat]
    /\ roles \subseteq Role /\ SystemRole \subseteq roles
    /\ \A u \in User : IsUser(u) =>
          /\ users[u] \in UserRow
          /\ users[u].role \in roles
          /\ users[u].failed = misses[u]
    /\ \A u \in User : ~IsUser(u) => misses[u] = 0

SessionsPart ==
    /\ pairs \in Nat
    /\ sessions \in [Session -> SessionRow \cup {Unused}]
    /\ \A s \in Session : IsSession(s) =>
          sessions[s] \in SessionRow /\ sessions[s].pair \in 1 .. pairs

RightsPart ==
    /\ caps \in [Role -> [set : SUBSET Capability, puts : Nat]]
    /\ override \in [User -> [granted : SUBSET Capability, revoked : SUBSET Capability]]

(* What an open request may still write: it names rows that exist, and no  *)
(* deletion of a role is open for a role of the system.                    *)
OfUser == {"success", "failure", "session", "edit_user", "deactivate", "reset", "unlock",
           "grant", "revoke"}
OfSession == {"refresh", "logout", "logout_all"}
OfRole == {"create_user", "delete_role", "put"}

TxnOK(t) ==
    /\ t.op \in OfUser => t.user \in User /\ IsUser(t.user)
    /\ t.op = "failure" => t.seen \in UserRow
    /\ t.op = "edit_user" /\ "active" \in DOMAIN t => t.active \in BOOLEAN
    /\ t.op \in OfSession => t.session \in Session /\ IsSession(t.session)
    /\ t.op \in OfRole => t.role \in Role
    /\ t.op = "delete_role" => t.role \notin SystemRole
    /\ t.op \in {"grant", "revoke"} => t.cap \in Capability
    /\ t.op = "put" => t.set \subseteq Capability

TxnsPart ==
    /\ begun \in 0 .. MaxRequests
    /\ txn = [r \in Request |-> txn[r]]
    /\ \A r \in Request : TxnOK(txn[r])

UsersInv == UsersPart /\ SessionsPart /\ RightsPart /\ TxnsPart

(* Rows are not deleted while a step writes another one.                   *)
RowsStay ==
    /\ \A u \in User : IsUser(u) => IsUser(u)'
    /\ \A s \in Session : IsSession(s) => IsSession(s)'

LEMMA TxnsKept ==
    ASSUME TxnsPart, RowsStay, NEW r \in Request, NEW t, TxnOK(t)',
           txn' = [txn EXCEPT ![r] = t], begun' \in 0 .. MaxRequests
    PROVE  TxnsPart'
<1>1. \A o \in Request : txn'[o] = IF o = r THEN t ELSE txn[o]
    BY DEF TxnsPart
<1>2. txn' = [o \in Request |-> txn'[o]]
    BY DEF TxnsPart
<1>3. \A o \in Request : TxnOK(txn[o]) => TxnOK(txn[o])' \/ txn'[o] # txn[o]
    BY DEF RowsStay, TxnOK
<1> QED BY <1>1, <1>2, <1>3 DEF TxnsPart, TxnOK, RowsStay

LEMMA UsersClose ==
    ASSUME UsersInv, RowsStay, NEW r \in Request, Close(r)
    PROVE  TxnsPart'
<1>1. TxnOK(NoTxn)'
    BY DEF TxnOK, NoTxn, OfUser, OfSession, OfRole
<1> QED BY <1>1, TxnsKept DEF Close, UsersInv, TxnsPart

LEMMA UsersBegin ==
    ASSUME UsersInv, NEW r \in Request, NEW t, Begin(r, t), TxnOK(t)
    PROVE  UsersInv'
<1>1. UNCHANGED <<users, sessions, caps, override, roles, pairs, misses>>
    BY DEF Begin, stored
<1>2. RowsStay /\ TxnOK(t)'
    BY <1>1 DEF RowsStay, TxnOK, IsUser, IsSession
<1>3. begun' \in 0 .. MaxRequests
    BY MaxRequestsAssumption DEF Begin, UsersInv, TxnsPart
<1>4. TxnsPart'
    BY <1>2, <1>3, TxnsKept DEF Begin, UsersInv
<1> QED BY <1>1, <1>4 DEF UsersInv, UsersPart, SessionsPart, RightsPart, IsUser, IsSession

(* The row of one user is written.                                         *)
LEMMA UserWritten ==
    ASSUME UsersPart, NEW u \in User, NEW newRow \in UserRow,
           newRow.role \in roles, users' = [users EXCEPT ![u] = newRow],
           misses' = [misses EXCEPT ![u] = newRow.failed], UNCHANGED roles
    PROVE  UsersPart' /\ \A v \in User : IsUser(v) => IsUser(v)'
<1>1. newRow.failed \in Nat /\ newRow # Unused
    BY UnusedAssumption DEF UserRow
<1>2. \A v \in User : /\ users'[v] = IF v = u THEN newRow ELSE users[v]
                      /\ misses'[v] = IF v = u THEN newRow.failed ELSE misses[v]
    BY DEF UsersPart
<1>3. users' \in [User -> UserRow \cup {Unused}] /\ misses' \in [User -> Nat]
    BY <1>1 DEF UsersPart
<1> QED BY <1>1, <1>2, <1>3 DEF UsersPart, IsUser

(* The row of one session is written.                                      *)
LEMMA SessionWritten ==
    ASSUME SessionsPart, NEW s \in Session, NEW newRow \in SessionRow,
           sessions' = [sessions EXCEPT ![s] = newRow], pairs' \in Nat, pairs' >= pairs,
           newRow.pair \in 1 .. pairs'
    PROVE  SessionsPart' /\ \A o \in Session : IsSession(o) => IsSession(o)'
<1>1. newRow # Unused
    BY UnusedAssumption
<1>2. \A o \in Session : sessions'[o] = IF o = s THEN newRow ELSE sessions[o]
    BY DEF SessionsPart
<1>3. sessions' \in [Session -> SessionRow \cup {Unused}]
    BY DEF SessionsPart
<1>4. \A o \in Session : IsSession(o) /\ o # s => sessions[o].pair \in 1 .. pairs'
    BY DEF SessionsPart
<1> QED BY <1>1, <1>2, <1>3, <1>4 DEF SessionsPart, IsSession

(* Sessions of a user are revoked.                                         *)
LEMMA SessionsRevoked ==
    ASSUME SessionsPart, NEW keep, NEW u, sessions' = RevokedAll(keep, u),
           UNCHANGED pairs
    PROVE  SessionsPart' /\ \A o \in Session : IsSession(o) => IsSession(o)'
<1>1. ASSUME NEW s \in Session, IsSession(s)
      PROVE  /\ sessions'[s] \in SessionRow /\ sessions'[s] # Unused
             /\ sessions'[s].pair = sessions[s].pair
    <2>1. sessions[s] \in SessionRow
        BY <1>1 DEF SessionsPart
    <2>2. sessions'[s] \in {sessions[s], [sessions[s] EXCEPT !.revoked = TRUE]}
        BY DEF RevokedAll
    <2>3. /\ [sessions[s] EXCEPT !.revoked = TRUE] \in SessionRow
          /\ [sessions[s] EXCEPT !.revoked = TRUE].pair = sessions[s].pair
        BY <2>1 DEF SessionRow
    <2> QED BY <2>1, <2>2, <2>3, UnusedAssumption
<1>2. \A s \in Session : ~IsSession(s) => sessions'[s] = Unused
    BY DEF RevokedAll, IsSession
<1>3. sessions' = [s \in Session |-> sessions'[s]]
    BY DEF RevokedAll
<1>4. sessions' \in [Session -> SessionRow \cup {Unused}]
    BY <1>1, <1>2, <1>3
<1> QED BY <1>1, <1>2, <1>4 DEF SessionsPart, IsSession

LEMMA UsersStart ==
    ASSUME UsersInv, NEW r \in Request,
           \/ \E u \in User : \/ FetchUser(r, u) \/ StartEditUser(r, u)
                              \/ StartDeactivate(r, u) \/ StartReset(r, u)
                              \/ StartUnlock(r, u)
                              \/ \E c \in Capability : StartGrant(r, u, c) \/ StartRevoke(r, u, c)
           \/ \E s \in Session : StartRefresh(r, s) \/ StartLogout(r, s) \/ StartLogoutAll(r, s)
           \/ \E role \in Role : \/ StartCreateUser(r, role) \/ StartDeleteRole(r, role)
                                 \/ StartPutCapabilities(r, role)
           \/ StartCreateRole(r)
    PROVE  UsersInv'
<1>1. \A u \in User : IsUser(u) => users[u] \in UserRow
    BY DEF UsersInv, UsersPart
<1>2. roles \subseteq Role
    BY DEF UsersInv, UsersPart
<1>3. CASE \E u \in User : FetchUser(r, u)
    <2>1. PICK u \in User, op \in {"success", "failure"} :
              IsUser(u) /\ Begin(r, [op |-> op, user |-> u, seen |-> users[u]])
        BY <1>3 DEF FetchUser
    <2>2. TxnOK([op |-> op, user |-> u, seen |-> users[u]])
        BY <1>1, <2>1 DEF TxnOK, OfUser, OfSession, OfRole
    <2> QED BY <2>1, <2>2, UsersBegin
<1>4. CASE \E u \in User : StartEditUser(r, u)
    <2>1. PICK u \in User : StartEditUser(r, u)
        BY <1>4
    <2>2. CASE \E on \in BOOLEAN :
                   Begin(r, [op |-> "edit_user", user |-> u, active |-> on])
        <3>1. PICK on \in BOOLEAN :
                   Begin(r, [op |-> "edit_user", user |-> u, active |-> on])
            BY <2>2
        <3>2. TxnOK([op |-> "edit_user", user |-> u, active |-> on])
            BY <2>1 DEF TxnOK, OfUser, OfSession, OfRole, StartEditUser
        <3> QED BY <3>1, <3>2, UsersBegin
    <2>3. CASE \E role \in roles :
                   Begin(r, [op |-> "edit_user", user |-> u, role |-> role])
        <3>1. PICK role \in roles :
                   Begin(r, [op |-> "edit_user", user |-> u, role |-> role])
            BY <2>3
        <3>2. TxnOK([op |-> "edit_user", user |-> u, role |-> role])
            BY <2>1 DEF TxnOK, OfUser, OfSession, OfRole, StartEditUser
        <3> QED BY <3>1, <3>2, UsersBegin
    <2> QED BY <2>1, <2>2, <2>3 DEF StartEditUser
<1>5. CASE \E u \in User : StartDeactivate(r, u) \/ StartReset(r, u) \/ StartUnlock(r, u)
    <2>1. PICK u \in User, op \in {"deactivate", "reset", "unlock"} :
              IsUser(u) /\ Begin(r, [op |-> op, user |-> u])
        BY <1>5 DEF StartDeactivate, StartReset, StartUnlock
    <2>2. TxnOK([op |-> op, user |-> u])
        BY <2>1 DEF TxnOK, OfUser, OfSession, OfRole
    <2> QED BY <2>1, <2>2, UsersBegin
<1>6. CASE \E u \in User, c \in Capability : StartGrant(r, u, c) \/ StartRevoke(r, u, c)
    <2>1. PICK u \in User, c \in Capability : StartGrant(r, u, c) \/ StartRevoke(r, u, c)
        BY <1>6
    <2>2. CASE StartGrant(r, u, c)
        <3>1. PICK granted \in BOOLEAN : /\ IsUser(u)
                 /\ Begin(r, [op |-> "grant", user |-> u, cap |-> c, granted |-> granted])
            BY <2>2 DEF StartGrant
        <3>2. TxnOK([op |-> "grant", user |-> u, cap |-> c, granted |-> granted])
            BY <3>1 DEF TxnOK, OfUser, OfSession, OfRole
        <3> QED BY <3>1, <3>2, UsersBegin
    <2>3. CASE StartRevoke(r, u, c)
        <3>1. IsUser(u) /\ Begin(r, [op |-> "revoke", user |-> u, cap |-> c])
            BY <2>3 DEF StartRevoke
        <3>2. TxnOK([op |-> "revoke", user |-> u, cap |-> c])
            BY <3>1 DEF TxnOK, OfUser, OfSession, OfRole
        <3> QED BY <3>1, <3>2, UsersBegin
    <2> QED BY <2>1, <2>2, <2>3
<1>7. CASE \E s \in Session : StartRefresh(r, s)
    <2>1. PICK s \in Session : StartRefresh(r, s)
        BY <1>7
    <2>2. TxnOK([op |-> "refresh", session |-> s, pair |-> sessions[s].pair])
        BY <2>1 DEF TxnOK, OfUser, OfSession, OfRole, StartRefresh
    <2> QED BY <2>1, <2>2, UsersBegin DEF StartRefresh
<1>8. CASE \E s \in Session : StartLogout(r, s) \/ StartLogoutAll(r, s)
    <2>1. PICK s \in Session, op \in {"logout", "logout_all"} :
              Admits(s) /\ Begin(r, [op |-> op, session |-> s])
        BY <1>8 DEF StartLogout, StartLogoutAll
    <2>2. TxnOK([op |-> op, session |-> s])
        BY <2>1 DEF TxnOK, OfUser, OfSession, OfRole, Admits
    <2> QED BY <2>1, <2>2, UsersBegin
<1>9. CASE \E role \in Role : StartCreateUser(r, role) \/ StartDeleteRole(r, role)
    <2>1. PICK role \in Role, op \in {"create_user", "delete_role"} :
              /\ Begin(r, [op |-> op, role |-> role])
              /\ op = "delete_role" => role \notin SystemRole
        BY <1>9 DEF StartCreateUser, StartDeleteRole
    <2>2. TxnOK([op |-> op, role |-> role])
        BY <2>1 DEF TxnOK, OfUser, OfSession, OfRole
    <2> QED BY <2>1, <2>2, UsersBegin
<1>10. CASE \E role \in Role : StartPutCapabilities(r, role)
    <2>1. PICK role \in Role : StartPutCapabilities(r, role)
        BY <1>10
    <2>2. PICK set \in SUBSET Capability :
              Begin(r, [op |-> "put", role |-> role, set |-> set, puts |-> caps[role].puts])
        BY <2>1 DEF StartPutCapabilities
    <2>3. TxnOK([op |-> "put", role |-> role, set |-> set, puts |-> caps[role].puts])
        BY DEF TxnOK, OfUser, OfSession, OfRole
    <2> QED BY <2>2, <2>3, UsersBegin
<1>11. CASE StartCreateRole(r)
    <2>1. TxnOK([op |-> "create_role"])
        BY DEF TxnOK, OfUser, OfSession, OfRole
    <2> QED BY <1>11, <2>1, UsersBegin DEF StartCreateRole
<1> QED BY <1>3, <1>4, <1>5, <1>6, <1>7, <1>8, <1>9, <1>10, <1>11

LEMMA UsersLogin ==
    ASSUME UsersInv, NEW r \in Request,
           RecordFailure(r) \/ RecordSuccess(r) \/ OpenSession(r)
    PROVE  UsersInv'
<1> DEFINE t == txn[r]
<1>1. TxnOK(t) /\ t.op \in OfUser
    BY DEF UsersInv, TxnsPart, OfUser, RecordFailure, RecordSuccess, OpenSession
<1>2. PICK u \in User : u = t.user /\ IsUser(u)
    BY <1>1 DEF TxnOK
<1>3. users[u] \in UserRow /\ users[u].role \in roles /\ users[u].failed = misses[u]
    BY <1>2 DEF UsersInv, UsersPart
<1>4. UsersPart
    BY DEF UsersInv
<1>5. CASE RecordFailure(r)
    <2>1. PICK locked \in BOOLEAN :
              users' = [users EXCEPT ![u].failed = @ + 1, ![u].locked = locked]
        <3>1. users' = [users EXCEPT ![u].failed = @ + 1,
                           ![u].locked = @ \/ t.seen.failed + 1 >= MaxFailed]
            BY <1>2, <1>5 DEF RecordFailure, Counted
        <3>2. PICK locked \in BOOLEAN :
                  locked = (users[u].locked \/ t.seen.failed + 1 >= MaxFailed)
            OBVIOUS
        <3>3. users' = [users EXCEPT ![u].failed = @ + 1, ![u].locked = locked]
            BY <3>1, <3>2
        <3> QED BY <3>3
    <2> DEFINE newRow == [users[u] EXCEPT !.failed = @ + 1, !.locked = locked]
    <2>2. newRow \in UserRow /\ newRow.role = users[u].role /\ newRow.failed = misses[u] + 1
        <3>1. users[u].failed + 1 \in Nat /\ users[u].failed = misses[u]
            BY <1>3 DEF UserRow
        <3> QED BY <1>3, <3>1 DEF UserRow
    <2>3. users' = [users EXCEPT ![u] = newRow]
        BY <2>1, <1>3, <1>4 DEF UsersPart
    <2>4. misses' = [misses EXCEPT ![u] = misses[u] + 1]
        BY <1>2, <1>4, <1>5 DEF RecordFailure, UsersPart
    <2>5. UNCHANGED <<sessions, caps, override, roles, pairs>> /\ Close(r)
        BY <1>5 DEF RecordFailure
    <2> HIDE DEF newRow
    <2>6. UsersPart' /\ \A v \in User : IsUser(v) => IsUser(v)'
        BY <1>3, <1>4, <2>2, <2>3, <2>4, <2>5, UserWritten
    <2>7. RowsStay
        BY <2>5, <2>6 DEF RowsStay, IsSession
    <2> QED BY <2>5, <2>6, <2>7, UsersClose DEF UsersInv, SessionsPart, RightsPart, IsSession
<1>6. CASE RecordSuccess(r) \/ OpenSession(r)
    <2> DEFINE newRow == [users[u] EXCEPT !.failed = 0, !.locked = FALSE]
    <2>1. newRow \in UserRow /\ newRow.role = users[u].role /\ newRow.failed = 0
        BY <1>3 DEF UserRow
    <2>2. users' = [users EXCEPT ![u] = newRow]
        BY <1>2, <1>3, <1>4, <1>6 DEF UsersPart, RecordSuccess, OpenSession, Cleared
    <2>3. misses' = [misses EXCEPT ![u] = 0]
        BY <1>2, <1>6 DEF RecordSuccess, OpenSession
    <2>4. UNCHANGED <<caps, override, roles>>
        BY <1>6 DEF RecordSuccess, OpenSession
    <2> HIDE DEF newRow
    <2>5. UsersPart' /\ \A v \in User : IsUser(v) => IsUser(v)'
        BY <1>3, <1>4, <2>1, <2>2, <2>3, <2>4, UserWritten
    <2>6. CASE RecordSuccess(r)
        <3>1. UNCHANGED <<sessions, pairs, begun>>
            BY <2>6 DEF RecordSuccess
        <3>2. RowsStay
            BY <2>5, <3>1 DEF RowsStay, IsSession
        <3>3. PICK s : s = [t EXCEPT !.op = "session"]
            OBVIOUS
        <3>4. t.op = "success" /\ txn' = [txn EXCEPT ![r] = s]
            BY <2>6, <3>3 DEF RecordSuccess, UsersInv, TxnsPart
        <3>8. s.op = "session" /\ s.user = u
            BY <1>2, <3>3, <3>4 DEF RecordSuccess, UsersInv, TxnsPart
        <3>5. IsUser(u)'
            BY <1>2, <2>5
        <3>6. TxnOK(s)'
            BY <3>5, <3>8 DEF TxnOK, OfUser, OfSession, OfRole
        <3>7. TxnsPart'
            BY <3>1, <3>2, <3>4, <3>6, TxnsKept DEF UsersInv, TxnsPart
        <3> QED BY <2>4, <2>5, <3>1, <3>7 DEF UsersInv, SessionsPart, RightsPart, IsSession
    <2>7. CASE OpenSession(r)
        <3>1. PICK s \in Session : sessions' = [sessions EXCEPT ![s] =
                  [user |-> u, pair |-> pairs + 1, revoked |-> FALSE, age |-> "fresh"]]
            BY <1>2, <2>7 DEF OpenSession
        <3>2. pairs' = pairs + 1 /\ pairs \in Nat
            BY <2>7 DEF OpenSession, UsersInv, SessionsPart
        <3>3. PICK opened : opened = [user |-> u, pair |-> pairs + 1, revoked |-> FALSE, age |-> "fresh"]
            OBVIOUS
        <3>6. opened \in SessionRow /\ sessions' = [sessions EXCEPT ![s] = opened]
            BY <3>1, <3>2, <3>3 DEF SessionRow
        <3>7. pairs' \in Nat /\ pairs' >= pairs /\ opened.pair \in 1 .. pairs'
            BY <3>2, <3>3
        <3>4. SessionsPart' /\ \A o \in Session : IsSession(o) => IsSession(o)'
            BY <3>6, <3>7, SessionWritten DEF UsersInv
        <3>5. TxnsPart'
            BY <2>5, <2>7, <3>4, UsersClose DEF RowsStay, OpenSession
        <3> QED BY <2>4, <2>5, <3>4, <3>5 DEF UsersInv, RightsPart
    <2> QED BY <1>6, <2>6, <2>7
<1> QED BY <1>5, <1>6

LEMMA UsersSession ==
    ASSUME UsersInv, NEW r \in Request,
           CommitRefresh(r) \/ CommitLogout(r) \/ CommitLogoutAll(r)
    PROVE  UsersInv'
<1>1. UNCHANGED <<users, caps, override, roles, misses>> /\ Close(r)
    BY DEF CommitRefresh, CommitLogout, CommitLogoutAll
<1>2. PICK s \in Session : s = txn[r].session /\ IsSession(s)
    BY DEF UsersInv, TxnsPart, TxnOK, OfSession,
           CommitRefresh, CommitLogout, CommitLogoutAll
<1>3. /\ sessions[s] \in SessionRow /\ sessions[s].pair \in 1 .. pairs /\ pairs \in Nat
      /\ SessionsPart
    BY <1>2 DEF UsersInv, SessionsPart
<1>4. SessionsPart' /\ \A o \in Session : IsSession(o) => IsSession(o)'
    <2>1. CASE CommitRefresh(r)
        <3>1. PICK newRow : newRow = [sessions[s] EXCEPT !.pair = pairs + 1, !.age = "fresh"]
            OBVIOUS
        <3>2. pairs + 1 \in Nat
            BY <1>3
        <3>3. newRow \in SessionRow /\ newRow.pair = pairs + 1
            BY <1>3, <3>1, <3>2 DEF SessionRow
        <3>4. sessions' = [sessions EXCEPT ![s] = newRow] /\ pairs' = pairs + 1
            BY <1>2, <2>1, <3>1 DEF CommitRefresh, Rotated
        <3>5. pairs' \in Nat /\ pairs' >= pairs /\ newRow.pair \in 1 .. pairs'
            BY <1>3, <3>3, <3>4
        <3> QED BY <1>3, <3>3, <3>4, <3>5, SessionWritten
    <2>2. CASE CommitLogout(r)
        <3>1. PICK newRow : newRow = [sessions[s] EXCEPT !.revoked = TRUE]
            OBVIOUS
        <3>2. newRow \in SessionRow /\ newRow.pair = sessions[s].pair
            BY <1>3, <3>1 DEF SessionRow
        <3>3. sessions' = [sessions EXCEPT ![s] = newRow] /\ pairs' = pairs
            BY <1>2, <1>3, <2>2, <3>1 DEF CommitLogout, SessionsPart
        <3>4. pairs' \in Nat /\ pairs' >= pairs /\ newRow.pair \in 1 .. pairs'
            BY <1>3, <3>2, <3>3
        <3> QED BY <1>3, <3>2, <3>3, <3>4, SessionWritten
    <2>3. CASE CommitLogoutAll(r)
        BY <1>3, <2>3, SessionsRevoked DEF CommitLogoutAll
    <2> QED BY <2>1, <2>2, <2>3
<1>5. RowsStay
    BY <1>1, <1>4 DEF RowsStay, IsUser
<1>6. TxnsPart'
    BY <1>1, <1>5, UsersClose
<1> QED BY <1>1, <1>4, <1>6 DEF UsersInv, UsersPart, RightsPart, IsUser

LEMMA UsersCommit ==
    ASSUME UsersInv, NEW r \in Request,
           \/ CommitEditUser(r) \/ CommitDeactivate(r)
           \/ CommitReset(r) \/ CommitUnlock(r)
    PROVE  UsersInv'
<1> DEFINE t == txn[r]
<1>1. TxnOK(t) /\ t.op \in OfUser
    BY DEF UsersInv, TxnsPart, OfUser, CommitEditUser, CommitDeactivate,
           CommitReset, CommitUnlock
<1>2. PICK u \in User : u = t.user /\ IsUser(u)
    BY <1>1 DEF TxnOK
<1>3. /\ users[u] \in UserRow /\ users[u].role \in roles /\ users[u].failed = misses[u]
      /\ UsersPart /\ SessionsPart /\ roles \subseteq Role
    BY <1>2 DEF UsersInv, UsersPart
<1>4. UNCHANGED <<caps, override, roles, pairs>> /\ Close(r)
    BY DEF CommitEditUser, CommitDeactivate, CommitReset, CommitUnlock
<1>5. UsersPart' /\ \A v \in User : IsUser(v) => IsUser(v)'
    <2>1. CASE UNCHANGED <<users, misses>>
        BY <2>1, <1>3, <1>4 DEF UsersPart, IsUser
    <2>2. CASE /\ \E on \in BOOLEAN : users' = [users EXCEPT ![u].active = on]
               /\ UNCHANGED misses
        <3>1. PICK on \in BOOLEAN : users' = [users EXCEPT ![u].active = on]
            BY <2>2
        <3> DEFINE newRow == [users[u] EXCEPT !.active = on]
        <3>2. newRow \in UserRow /\ newRow.role = users[u].role /\ newRow.failed = misses[u]
            BY <1>3 DEF UserRow
        <3>3. users' = [users EXCEPT ![u] = newRow] /\ misses' = [misses EXCEPT ![u] = misses[u]]
            BY <1>3, <2>2, <3>1 DEF UsersPart
        <3> HIDE DEF newRow
        <3> QED BY <1>3, <1>4, <3>2, <3>3, UserWritten
    <2>3. CASE /\ \E role \in roles : users' = [users EXCEPT ![u].role = role]
               /\ UNCHANGED misses
        <3>1. PICK role \in roles : users' = [users EXCEPT ![u].role = role]
            BY <2>3
        <3> DEFINE newRow == [users[u] EXCEPT !.role = role]
        <3>2. newRow \in UserRow /\ newRow.role = role /\ newRow.failed = misses[u]
            BY <1>3 DEF UserRow
        <3>3. users' = [users EXCEPT ![u] = newRow] /\ misses' = [misses EXCEPT ![u] = misses[u]]
            BY <1>3, <2>3, <3>1 DEF UsersPart
        <3> HIDE DEF newRow
        <3> QED BY <1>3, <1>4, <3>2, <3>3, UserWritten
    <2>4. CASE CommitUnlock(r)
        <3> DEFINE newRow == [users[u] EXCEPT !.failed = 0, !.locked = FALSE]
        <3>1. newRow \in UserRow /\ newRow.role = users[u].role /\ newRow.failed = 0
            BY <1>3 DEF UserRow
        <3>2. users' = [users EXCEPT ![u] = newRow] /\ misses' = [misses EXCEPT ![u] = 0]
            BY <1>2, <1>3, <2>4 DEF UsersPart, CommitUnlock, Cleared
        <3> HIDE DEF newRow
        <3> QED BY <1>3, <1>4, <3>1, <3>2, UserWritten
    <2>5. CASE CommitEditUser(r)
        <3>1. t.op = "edit_user"
            BY <2>5 DEF CommitEditUser
        <3> QED BY <1>1, <1>2, <2>2, <2>3, <2>5, <3>1 DEF CommitEditUser, TxnOK
    <2>6. CASE CommitDeactivate(r)
        BY <1>2, <2>2, <2>6 DEF CommitDeactivate
    <2>7. CASE CommitReset(r)
        BY <2>1, <2>7 DEF CommitReset
    <2> QED BY <2>4, <2>5, <2>6, <2>7
<1>6. SessionsPart' /\ \A o \in Session : IsSession(o) => IsSession(o)'
    <2>1. CASE UNCHANGED sessions
        BY <1>3, <1>4, <2>1 DEF SessionsPart, IsSession
    <2>2. CASE \E keep, v : sessions' = RevokedAll(keep, v)
        BY <1>3, <1>4, <2>2, SessionsRevoked
    <2> QED BY <2>1, <2>2 DEF CommitEditUser, CommitDeactivate, CommitReset,
                             CommitUnlock
<1>7. TxnsPart'
    BY <1>4, <1>5, <1>6, UsersClose DEF RowsStay
<1> QED BY <1>4, <1>5, <1>6, <1>7 DEF UsersInv, RightsPart

LEMMA UsersCreate ==
    ASSUME UsersInv, NEW r \in Request, CommitCreateUser(r)
    PROVE  UsersInv'
<1>1. PICK u \in User : /\ ~IsUser(u)
          /\ users' = [users EXCEPT ![u] =
                [active |-> TRUE, role |-> txn[r].role, failed |-> 0, locked |-> FALSE]]
    BY DEF CommitCreateUser
<1>2. txn[r].role \in roles /\ roles \subseteq Role /\ UsersPart /\ misses[u] = 0
    BY <1>1 DEF CommitCreateUser, UsersInv, UsersPart
<1>3. [active |-> TRUE, role |-> txn[r].role, failed |-> 0, locked |-> FALSE] \in UserRow
    BY <1>2 DEF UserRow
<1>4. UNCHANGED <<sessions, caps, override, roles, pairs, misses>> /\ Close(r)
    BY DEF CommitCreateUser
<1>5. misses' = [misses EXCEPT ![u] = 0]
    BY <1>2, <1>4 DEF UsersPart
<1>6. UsersPart' /\ \A v \in User : IsUser(v) => IsUser(v)'
    BY <1>1, <1>2, <1>3, <1>4, <1>5, UserWritten
<1>7. TxnsPart'
    BY <1>4, <1>6, UsersClose DEF RowsStay, IsSession
<1> QED BY <1>4, <1>6, <1>7 DEF UsersInv, SessionsPart, RightsPart, IsSession

LEMMA UsersRights ==
    ASSUME UsersInv, NEW r \in Request,
           CommitGrant(r) \/ CommitRevoke(r) \/ CommitPutCapabilities(r)
    PROVE  UsersInv'
<1>1. UNCHANGED <<users, sessions, roles, pairs, misses>> /\ Close(r)
    BY DEF CommitGrant, CommitRevoke, CommitPutCapabilities
<1>2. TxnOK(txn[r])
    BY DEF UsersInv, TxnsPart
<1>3. RightsPart'
    <2>1. CASE CommitGrant(r) \/ CommitRevoke(r)
        <3> DEFINE u == txn[r].user
                   c == txn[r].cap
        <3>1. u \in User /\ c \in Capability /\ UNCHANGED caps
            BY <1>2, <2>1 DEF TxnOK, OfUser, CommitGrant, CommitRevoke
        <3>2. /\ override[u].granted \subseteq Capability /\ override[u].revoked \subseteq Capability
              /\ override[u] \in [granted : SUBSET Capability, revoked : SUBSET Capability]
            BY <3>1 DEF UsersInv, RightsPart
        <3>3. \E g \in SUBSET Capability, v \in SUBSET Capability :
                  override' = [override EXCEPT ![u].granted = g, ![u].revoked = v]
            <4>1. CASE CommitGrant(r) /\ txn[r].granted
                BY <3>1, <3>2, <4>1 DEF CommitGrant
            <4>2. CASE CommitGrant(r) /\ ~txn[r].granted
                BY <3>1, <3>2, <4>2 DEF CommitGrant
            <4>3. CASE CommitRevoke(r)
                BY <3>1, <3>2, <4>3 DEF CommitRevoke
            <4> QED BY <2>1, <4>1, <4>2, <4>3
        <3>4. PICK g \in SUBSET Capability, v \in SUBSET Capability :
                  override' = [override EXCEPT ![u].granted = g, ![u].revoked = v]
            BY <3>3
        <3>5. [override[u] EXCEPT !.granted = g, !.revoked = v]
                  \in [granted : SUBSET Capability, revoked : SUBSET Capability]
            BY <3>2
        <3> QED BY <3>1, <3>4, <3>5 DEF UsersInv, RightsPart
    <2>2. CASE CommitPutCapabilities(r)
        <3> DEFINE role == txn[r].role
        <3>1. role \in Role /\ txn[r].set \subseteq Capability /\ UNCHANGED override
            BY <1>2, <2>2 DEF TxnOK, OfRole, CommitPutCapabilities
        <3>2. caps[role].set \subseteq Capability /\ caps[role].puts \in Nat
            BY <3>1 DEF UsersInv, RightsPart
        <3>3. \E set \in SUBSET Capability :
                  caps' = [caps EXCEPT ![role] = [set |-> set, puts |-> caps[role].puts + 1]]
            <4>1. CASE caps[role].puts = txn[r].puts
                BY <2>2, <3>1, <4>1 DEF CommitPutCapabilities, UsersInv, RightsPart
            <4>2. CASE caps[role].puts # txn[r].puts
                BY <2>2, <3>1, <3>2, <4>2 DEF CommitPutCapabilities, UsersInv, RightsPart
            <4> QED BY <4>1, <4>2
        <3> QED BY <3>1, <3>2, <3>3 DEF UsersInv, RightsPart
    <2> QED BY <2>1, <2>2
<1>4. RowsStay
    BY <1>1 DEF RowsStay, IsUser, IsSession
<1>5. TxnsPart'
    BY <1>1, <1>4, UsersClose
<1> QED BY <1>1, <1>3, <1>5 DEF UsersInv, UsersPart, SessionsPart, IsUser, IsSession

LEMMA UsersRole ==
    ASSUME UsersInv, NEW r \in Request,
           CommitCreateRole(r) \/ CommitDeleteRole(r)
    PROVE  UsersInv'
<1>1. UNCHANGED <<users, sessions, override, pairs, misses>> /\ Close(r)
    BY DEF CommitCreateRole, CommitDeleteRole
<1>2. UsersPart' /\ RightsPart'
    <2>1. CASE CommitCreateRole(r)
        <3>1. UNCHANGED caps /\ roles \subseteq roles' /\ roles' \subseteq Role
            BY <2>1 DEF CommitCreateRole, UsersInv, UsersPart
        <3> QED BY <1>1, <3>1 DEF UsersInv, UsersPart, RightsPart, IsUser
    <2>2. CASE CommitDeleteRole(r)
        <3> DEFINE role == txn[r].role
        <3>1. role \in Role /\ role \notin SystemRole
            BY <2>2 DEF CommitDeleteRole, UsersInv, TxnsPart, TxnOK, OfRole
        <3>2. roles' = roles \ {role} /\ \A u \in User : IsUser(u) => users[u].role # role
            BY <2>2 DEF CommitDeleteRole, RoleHeld, UsersOf
        <3>3. caps' = [caps EXCEPT ![role] = [set |-> {}, puts |-> @.puts + 1]]
            BY <2>2 DEF CommitDeleteRole
        <3>4. RightsPart'
            BY <1>1, <3>1, <3>3 DEF UsersInv, RightsPart
        <3> QED BY <1>1, <3>1, <3>2, <3>4 DEF UsersInv, UsersPart, IsUser
    <2> QED BY <2>1, <2>2
<1>3. RowsStay
    BY <1>1 DEF RowsStay, IsUser, IsSession
<1>4. TxnsPart'
    BY <1>1, <1>3, UsersClose
<1> QED BY <1>1, <1>2, <1>4 DEF UsersInv, SessionsPart, IsSession

(* Time: a lock ends, a token grows old.                                   *)
LEMMA UsersTime ==
    ASSUME UsersInv,
           (\E u \in User : LockEnds(u)) \/ \E s \in Session : Grow(s)
    PROVE  UsersInv'
<1>1. CASE \E u \in User : LockEnds(u)
    <2>1. PICK u \in User : LockEnds(u)
        BY <1>1
    <2>2. UNCHANGED <<sessions, caps, override, roles, txn, begun, pairs, misses>>
        BY <2>1 DEF LockEnds
    <2>3. /\ users[u] \in UserRow /\ users[u].role \in roles /\ users[u].failed = misses[u]
          /\ UsersPart
        BY <2>1 DEF UsersInv, UsersPart, LockEnds
    <2> DEFINE newRow == [users[u] EXCEPT !.locked = FALSE]
    <2>4. newRow \in UserRow /\ newRow.role = users[u].role /\ newRow.failed = misses[u]
        BY <2>3 DEF UserRow
    <2>5. users' = [users EXCEPT ![u] = newRow] /\ misses' = [misses EXCEPT ![u] = misses[u]]
        BY <2>1, <2>2, <2>3 DEF UsersPart, LockEnds
    <2> HIDE DEF newRow
    <2>6. UsersPart' /\ \A v \in User : IsUser(v) => IsUser(v)'
        BY <2>2, <2>3, <2>4, <2>5, UserWritten
    <2>7. TxnsPart'
        BY <2>2, <2>6 DEF UsersInv, TxnsPart, TxnOK, IsSession
    <2> QED BY <2>2, <2>6, <2>7 DEF UsersInv, SessionsPart, RightsPart, IsSession
<1>2. CASE \E s \in Session : Grow(s)
    <2>1. PICK s \in Session : Grow(s)
        BY <1>2
    <2>2. UNCHANGED <<users, caps, override, roles, txn, begun, pairs, misses>>
        BY <2>1 DEF Grow
    <2>3. /\ sessions[s] \in SessionRow /\ sessions[s].pair \in 1 .. pairs /\ pairs \in Nat
          /\ SessionsPart
        BY <2>1 DEF UsersInv, SessionsPart, Grow
    <2>4. PICK age \in {"stale", "expired"} : sessions' = [sessions EXCEPT ![s].age = age]
        <3> DEFINE next == [fresh |-> "stale", stale |-> "expired"]
        <3>1. sessions[s].age \in DOMAIN next
              /\ sessions' = [sessions EXCEPT ![s].age = next[@]]
            BY <2>1 DEF Grow
        <3>2. DOMAIN next = {"fresh", "stale"}
            OBVIOUS
        <3>3. next["fresh"] = "stale" /\ next["stale"] = "expired"
            OBVIOUS
        <3> HIDE DEF next
        <3>4. next[sessions[s].age] \in {"stale", "expired"}
            BY <3>1, <3>2, <3>3
        <3> QED BY <3>1, <3>4
    <2>9. PICK newRow : newRow = [sessions[s] EXCEPT !.age = age]
        OBVIOUS
    <2>5. newRow \in SessionRow /\ newRow.pair = sessions[s].pair
        BY <2>3, <2>9 DEF SessionRow
    <2>6. sessions' = [sessions EXCEPT ![s] = newRow]
        BY <2>3, <2>4, <2>9 DEF SessionsPart
    <2>10. pairs' \in Nat /\ pairs' >= pairs /\ newRow.pair \in 1 .. pairs'
        BY <2>2, <2>3, <2>5
    <2>7. SessionsPart' /\ \A o \in Session : IsSession(o) => IsSession(o)'
        BY <2>3, <2>5, <2>6, <2>10, SessionWritten
    <2>8. TxnsPart'
        BY <2>2, <2>7 DEF UsersInv, TxnsPart, TxnOK, IsUser
    <2> QED BY <2>2, <2>7, <2>8 DEF UsersInv, UsersPart, RightsPart, IsUser
<1> QED BY <1>1, <1>2

LEMMA UsersRollback ==
    ASSUME UsersInv, NEW r \in Request, Rollback(r)
    PROVE  UsersInv'
<1>1. UNCHANGED <<users, sessions, caps, override, roles, pairs, misses>> /\ Close(r)
    BY DEF Rollback, stored
<1>2. RowsStay
    BY <1>1 DEF RowsStay, IsUser, IsSession
<1>3. TxnsPart'
    BY <1>1, <1>2, UsersClose
<1> QED BY <1>1, <1>3 DEF UsersInv, UsersPart, SessionsPart, RightsPart, IsUser, IsSession

LEMMA UsersInit ==
    ASSUME Init
    PROVE  UsersInv
<1>1. UsersPart
    <2>1. \A u \in User : u \in DOMAIN Seeded =>
              /\ [active |-> TRUE, role |-> Seeded[u], failed |-> 0, locked |-> FALSE] \in UserRow
              /\ Seeded[u] \in roles
        BY SeededAssumption DEF UserRow, Init
    <2>2. roles \subseteq Role /\ SystemRole \subseteq roles
        BY SeededAssumption, RoleAssumption DEF Init
    <2>3. \A u \in User : users[u] =
              IF u \in DOMAIN Seeded
              THEN [active |-> TRUE, role |-> Seeded[u], failed |-> 0, locked |-> FALSE] ELSE Unused
        BY DEF Init
    <2>4. users \in [User -> UserRow \cup {Unused}]
        BY <2>1, <2>3 DEF Init
    <2>5. misses = [u \in User |-> 0]
        BY DEF Init
    <2> QED BY <2>1, <2>2, <2>3, <2>4, <2>5 DEF UsersPart, IsUser
<1>2. SessionsPart /\ RightsPart
    BY DEF Init, SessionsPart, RightsPart, IsSession
<1>3. TxnsPart
    BY MaxRequestsAssumption DEF Init, TxnsPart, TxnOK, NoTxn, OfUser, OfSession, OfRole
<1> QED BY <1>1, <1>2, <1>3 DEF UsersInv

LEMMA UsersStep ==
    ASSUME UsersInv, [Next]_vars
    PROVE  UsersInv'
<1>1. CASE UNCHANGED vars
    BY <1>1 DEF vars, UsersInv, UsersPart, SessionsPart, RightsPart, TxnsPart, TxnOK,
                IsUser, IsSession
<1>2. ASSUME NEW r \in Request,
             \/ Logins(r) \/ Sessions(r) \/ UserAdministration(r)
             \/ RoleAdministration(r) \/ Rollback(r)
      PROVE  UsersInv'
    <2>1. CASE Logins(r)
        BY <2>1, UsersStart, UsersLogin DEF Logins
    <2>2. CASE Sessions(r)
        BY <2>2, UsersStart, UsersSession DEF Sessions
    <2>3. CASE UserAdministration(r)
        BY <2>3, UsersStart, UsersCommit, UsersCreate, UsersRights DEF UserAdministration
    <2>4. CASE RoleAdministration(r)
        BY <2>4, UsersStart, UsersRole, UsersRights DEF RoleAdministration
    <2> QED BY <1>2, <2>1, <2>2, <2>3, <2>4, UsersRollback
<1> QED BY <1>1, <1>2, UsersTime DEF Next

(* The inductive invariant of the users.                                   *)
THEOREM UsersInvariant == Spec => []UsersInv
<1>1. Init => UsersInv
    BY UsersInit
<1>2. UsersInv /\ [Next]_vars => UsersInv'
    BY UsersStep
<1> QED BY <1>1, <1>2, PTL DEF Spec

(* The rows of users and sessions have the types of their columns.         *)
THEOREM UsersTypeOK == Spec => []TypeOK
<1>1. UsersInv => TypeOK
    BY DEF UsersInv, UsersPart, SessionsPart, RightsPart, TxnsPart, TypeOK
<1> QED BY <1>1, UsersInvariant, PTL

(* Every user has a role that exists, although a role is deleted on a      *)
(* count made before, and no deletion takes a role of the system.          *)
THEOREM UsersRolesKept == Spec => []RolesKept
<1>1. UsersInv => RolesKept
    BY DEF UsersInv, UsersPart, RolesKept
<1> QED BY <1>1, UsersInvariant, PTL

(* Failed logins that run together are all counted.                        *)
THEOREM UsersFailuresCounted == Spec => []FailuresCounted
<1>1. UsersInv => FailuresCounted
    BY DEF UsersInv, UsersPart, FailuresCounted
<1> QED BY <1>1, UsersInvariant, PTL

(* The steps that write sessions.                                          *)
LEMMA SessionsChange ==
    ASSUME Next, sessions' # sessions
    PROVE  \/ \E r \in Request :
                \/ CommitRefresh(r) \/ CommitLogout(r) \/ CommitLogoutAll(r)
                \/ OpenSession(r) \/ CommitDeactivate(r) \/ CommitReset(r)
           \/ \E o \in Session : Grow(o)
<1>1. ASSUME NEW r \in Request, Logins(r)
      PROVE  OpenSession(r)
    BY <1>1 DEF Logins, FetchUser, Begin, stored,
                RecordFailure, RecordSuccess
<1>2. ASSUME NEW r \in Request, Sessions(r)
      PROVE  CommitRefresh(r) \/ CommitLogout(r) \/ CommitLogoutAll(r)
    BY <1>2 DEF Sessions, StartRefresh, StartLogout, StartLogoutAll,
                Begin, stored
<1>3. ASSUME NEW r \in Request, UserAdministration(r)
      PROVE  CommitDeactivate(r) \/ CommitReset(r)
    BY <1>3 DEF UserAdministration, StartCreateUser, StartEditUser,
                StartDeactivate, StartReset, StartUnlock, StartGrant,
                StartRevoke, CommitCreateUser, CommitEditUser,
                CommitUnlock, CommitGrant, CommitRevoke,
                Begin, stored
<1>4. ASSUME NEW r \in Request, RoleAdministration(r) \/ Rollback(r)
      PROVE  FALSE
    BY <1>4 DEF RoleAdministration, StartCreateRole, StartDeleteRole,
                StartPutCapabilities, CommitCreateRole, CommitDeleteRole,
                CommitPutCapabilities, Rollback, Begin, stored
<1>5. ASSUME NEW u \in User, LockEnds(u)
      PROVE  FALSE
    BY <1>5 DEF LockEnds
<1> QED BY <1>1, <1>2, <1>3, <1>4, <1>5 DEF Next

(* A session that was ended stays ended, although a refresh that read it   *)
(* before rotates its tokens, and the sessions of a user end together.     *)
LEMMA RevokedStep ==
    ASSUME UsersInv, Next
    PROVE  \A s \in Session : IsSession(s) /\ sessions[s].revoked => sessions'[s].revoked
<1> SUFFICES ASSUME NEW s \in Session, IsSession(s), sessions[s].revoked,
                    sessions' # sessions
             PROVE  sessions'[s].revoked
    OBVIOUS
<1>1. sessions[s] \in SessionRow /\ sessions = [o \in Session |-> sessions[o]]
    BY DEF UsersInv, SessionsPart
<1>2. CASE \E keep, u : sessions' = RevokedAll(keep, u)
    BY <1>1, <1>2 DEF RevokedAll, SessionRow
<1>3. CASE \E o \in Session : \E age : sessions' = [sessions EXCEPT ![o].age = age]
    BY <1>1, <1>3 DEF SessionRow
<1>4. CASE \E o \in Session : \E pair, age : sessions' = [sessions EXCEPT ![o] = [@ EXCEPT !.pair = pair, !.age = age]]
    BY <1>1, <1>4 DEF SessionRow
<1>5. CASE \E o \in Session : \E newRow : ~IsSession(o) /\ sessions' = [sessions EXCEPT ![o] = newRow]
    BY <1>1, <1>5
<1>6. CASE \E o \in Session : sessions' = [sessions EXCEPT ![o].revoked = TRUE]
    BY <1>1, <1>6 DEF SessionRow
<1>7. ASSUME NEW r \in Request,
             CommitRefresh(r) \/ CommitLogout(r) \/ CommitLogoutAll(r)
      PROVE  sessions'[s].revoked
    <2>1. txn[r].session \in Session
        BY <1>7 DEF UsersInv, TxnsPart, TxnOK, OfSession,
               CommitRefresh, CommitLogout, CommitLogoutAll
    <2>2. CASE CommitRefresh(r)
        BY <1>4, <2>1, <2>2 DEF CommitRefresh, Rotated
    <2>3. CASE CommitLogout(r)
        BY <1>6, <2>1, <2>3 DEF CommitLogout
    <2>4. CASE CommitLogoutAll(r)
        BY <1>2, <2>4 DEF CommitLogoutAll
    <2> QED BY <1>7, <2>2, <2>3, <2>4
<1>8. ASSUME NEW r \in Request, OpenSession(r)
      PROVE  sessions'[s].revoked
    BY <1>5, <1>8 DEF OpenSession
<1>9. ASSUME NEW o \in Session, Grow(o)
      PROVE  sessions'[s].revoked
    BY <1>3, <1>9 DEF Grow
<1>10. ASSUME NEW r \in Request, CommitDeactivate(r) \/ CommitReset(r)
       PROVE  sessions'[s].revoked
    BY <1>2, <1>10 DEF CommitDeactivate, CommitReset
<1> QED BY <1>7, <1>8, <1>9, <1>10, SessionsChange

(* A session that was revoked never becomes valid again.                   *)
THEOREM UsersRevokedForGood == Spec => RevokedForGood
<1>1. UsersInv /\ [Next]_vars =>
        [ /\ \A s \in Session : IsSession(s) /\ sessions[s].revoked => sessions'[s].revoked
          /\ \A r \in Request, s \in Session :
               /\ txn[r].op \in {"deactivate", "reset"}
               /\ sessions' # sessions
               /\ txn'[r].op = "none"
               /\ IsSession(s)
               /\ sessions[s].user = txn[r].user
               => sessions'[s].revoked ]_vars
    <2> SUFFICES ASSUME UsersInv, Next, NEW r \in Request, NEW s \in Session,
                        txn[r].op \in {"deactivate", "reset"}, sessions' # sessions,
                        txn'[r].op = "none", IsSession(s), sessions[s].user = txn[r].user
                 PROVE  sessions'[s].revoked
        BY RevokedStep
    <2>1. /\ sessions[s] \in SessionRow /\ sessions = [o \in Session |-> sessions[o]]
          /\ txn = [q \in Request |-> txn[q]]
        BY DEF UsersInv, SessionsPart, TxnsPart
    <2>2. \A q \in Request : q # r => txn' # [txn EXCEPT ![q] = NoTxn]
        BY <2>1
    <2>3. CommitDeactivate(r) \/ CommitReset(r)
        <3>1. ASSUME NEW o \in Session
              PROVE  ~Grow(o)
            BY DEF Grow
        <3>2. PICK q \in Request :
                \/ CommitRefresh(q) \/ CommitLogout(q) \/ CommitLogoutAll(q)
                \/ OpenSession(q) \/ CommitDeactivate(q) \/ CommitReset(q)
            BY <3>1, SessionsChange
        <3>3. txn' = [txn EXCEPT ![q] = NoTxn]
            BY <3>2 DEF CommitRefresh, CommitLogout, CommitLogoutAll,
               OpenSession, CommitDeactivate, CommitReset, Close
        <3>4. q = r
            BY <2>2, <3>3
        <3> QED BY <3>2, <3>4 DEF CommitRefresh, CommitLogout, CommitLogoutAll,
               OpenSession
    <2>4. sessions' = RevokedAll({}, txn[r].user)
        BY <2>3 DEF CommitDeactivate, CommitReset
    <2> QED BY <2>1, <2>4 DEF RevokedAll, SessionRow
<1> QED BY <1>1, UsersInvariant, PTL DEF RevokedForGood, Spec

=============================================================================
