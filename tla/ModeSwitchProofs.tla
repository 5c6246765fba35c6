-------------------------- MODULE ModeSwitchProofs --------------------------
(***************************************************************************)
(* Proofs about mode switching for any number of contexts and whichever    *)
(* modes give up: the counts and the pointers never disagree, the          *)
(* attributes track the mode, and a CPU on which nobody has given up       *)
(* inside a handler has the registers of the code it runs.                 *)
(***************************************************************************)
EXTENDS ModeSwitch, SequenceTheorems, WellFoundedInduction, TLAPS

(***************************************************************************)
(* The inductive invariant.  Each activation was entered from the one      *)
(* below it, and the mode a completion goes back to lies below with no     *)
(* M-mode in between.  While the CPU goes on, every activation but main()  *)
(* finds its context in its region: above it are only contexts of later    *)
(* activations, of some that are no more perhaps.  M-mode's region has no  *)
(* others, since a way out of S-mode ends all that is above M-mode, and    *)
(* the shared one has none unless somebody gave up; both are in order.     *)
(***************************************************************************)
Floor == calls[1].mode = "M" /\ ~calls[1].trap
EnteredRight == \A k \in 2..depth :
  IF calls[k].trap THEN calls[k].mode \in TakenIn(calls[k - 1].mode)
                   ELSE <<calls[k - 1].mode, calls[k].mode>> \in MayRun
(* The mode that called a function of mode m.                              *)
From(m) == CASE m = "S" -> "M" [] m \in {"U", "VS"} -> "S" [] m = "VU" -> "VS"
IsBelow(i, k) == /\ calls[i].mode = From(calls[k].mode)
                 /\ \A n \in i + 1..k - 1 : calls[n].mode # "M"
CallerBelow == \A k \in 2..depth :
  calls[k].mode \in {"U", "VS", "VU"} => \E i \in 1..k - 1 : IsBelow(i, k)

ContextOf(r, k, p) ==
  /\ saved[r][p].regs = k - 1 /\ saved[r][p].mode = calls[k - 1].mode
  /\ \A q \in p + 1..Len(saved[r]) : saved[r][q].regs >= k
Kept == regs = depth => \A r \in Region : \A k \in Users(r) :
                          \E p \in 1..Len(saved[r]) : ContextOf(r, k, p)
NoOthers(r) == r = "M" \/ ~gaveUp
Exact == \A r \in Region : NoOthers(r) => \A q \in 1..Len(saved[r]) :
           /\ saved[r][q].regs + 1 \in Users(r)
           /\ \A p \in 1..q - 1 : saved[r][p].regs < saved[r][q].regs

CallsSound == Floor /\ EnteredRight /\ CallerBelow
ContextsSound == Kept /\ Exact
IInv == /\ TypeOK /\ CountMatchesPointer /\ CallsSound /\ ContextsSound
        /\ RegistersRight /\ ModeTracked

----------------------------------------------------------------------------
(* What is known of a prefix.                                              *)

LEMMA PrefixFacts ==
  ASSUME NEW S, NEW s \in Seq(S), NEW n \in 0..Len(s)
  PROVE  /\ SubSeq(s, 1, n) \in Seq(S) /\ Len(SubSeq(s, 1, n)) = n
         /\ \A i \in 1..n : SubSeq(s, 1, n)[i] = s[i]
<1>1. \A i \in 1..n : s[i] \in S
  OBVIOUS
<1>2. /\ SubSeq(s, 1, n) \in Seq(S)
      /\ Len(SubSeq(s, 1, n)) = IF 1 <= n THEN n - 1 + 1 ELSE 0
      /\ \A i \in 1..n - 1 + 1 : SubSeq(s, 1, n)[i] = s[1 + i - 1]
  BY <1>1, SubSeqProperties
<1>3. n - 1 + 1 = n /\ \A i \in 1..n : 1 + i - 1 = i
  OBVIOUS
<1> QED
  BY <1>2, <1>3

LEMMA AppendFacts ==
  ASSUME NEW S, NEW s \in Seq(S), NEW e \in S
  PROVE  /\ Append(s, e) \in Seq(S) /\ Len(Append(s, e)) = Len(s) + 1
         /\ \A i \in 1..Len(s) : Append(s, e)[i] = s[i]
         /\ Append(s, e)[Len(s) + 1] = e
OBVIOUS

LEMMA FrontFacts ==
  ASSUME NEW S, NEW s \in Seq(S), s # <<>>
  PROVE  /\ Front(s) \in Seq(S) /\ Len(Front(s)) = Len(s) - 1
         /\ \A i \in 1..Len(s) - 1 : Front(s)[i] = s[i]
         /\ Len(s) \in 1..Len(s) /\ Last(s) = s[Len(s)] /\ Last(s) \in S
<1>1. PICK n : n = Len(s) - 1
  OBVIOUS
<1>2. Len(s) \in Nat \ {0} /\ n \in 0..Len(s) /\ n = Len(s) - 1
  BY <1>1
<1>3. Front(s) = SubSeq(s, 1, n)
  BY <1>1 DEF Front
<1>4. \A i \in 1..Len(s) : s[i] \in S
  OBVIOUS
<1>5. /\ Front(s) \in Seq(S) /\ Len(Front(s)) = n
      /\ \A i \in 1..n : Front(s)[i] = s[i]
  BY <1>2, <1>3, PrefixFacts
<1> QED
  BY <1>2, <1>4, <1>5 DEF Last

----------------------------------------------------------------------------
LEMMA TypedFacts ==
  ASSUME TypeOK
  PROVE  /\ depth \in Nat \ {0} /\ DOMAIN calls = 1..depth
         /\ \A k \in 1..depth : calls[k] \in Activation
         /\ \A r \in Region : /\ saved[r] \in Seq(Context) /\ Len(saved[r]) \in Nat
                              /\ \A q \in 1..Len(saved[r]) : saved[r][q] \in Context
                              /\ left[r] \in Nat
         /\ Region = {"M", "S"} /\ \A m \in Mode : RegionOf(m) \in Region
BY DEF TypeOK, depth, Region, RegionOf

(* The calls below n keep what holds of them when those above are gone.    *)
LEMMA ShortenedCalls ==
  ASSUME IInv, NEW n \in 1..depth, calls' = SubSeq(calls, 1, n)
  PROVE  /\ calls' \in Seq(Activation) /\ calls' # <<>> /\ depth' = n
         /\ \A k \in 1..n : calls'[k] = calls[k]
         /\ CallsSound'
         /\ \A r \in Region : Users(r)' = {k \in Users(r) : k <= n}
<1> USE DEF IInv
<1>1. depth \in Nat \ {0} /\ calls \in Seq(Activation)
  BY TypedFacts DEF TypeOK
<1>2. calls' \in Seq(Activation) /\ depth' = n /\ \A k \in 1..n : calls'[k] = calls[k]
  BY <1>1, PrefixFacts DEF depth
<1>3. calls' # <<>>
  BY <1>2 DEF depth
<1>4. Floor'
  BY <1>1, <1>2 DEF CallsSound, Floor
<1>5. EnteredRight'
  BY <1>1, <1>2 DEF CallsSound, EnteredRight
<1>6. CallerBelow'
  BY <1>1, <1>2 DEF CallsSound, CallerBelow, IsBelow
<1>7. ASSUME NEW r \in Region PROVE Users(r)' = {k \in Users(r) : k <= n}
  BY <1>1, <1>2 DEF Users, SavedIn
<1> QED
  BY <1>2, <1>3, <1>4, <1>5, <1>6, <1>7 DEF CallsSound

(* A call down or a trap: one activation more.                             *)
Pushed(a) == calls' = Append(calls, a)
LEMMA OneMoreCall ==
  ASSUME IInv, NEW a \in Activation, Pushed(a),
         IF a.trap THEN a.mode \in TakenIn(Running.mode)
                   ELSE <<Running.mode, a.mode>> \in MayRun
  PROVE  /\ calls' \in Seq(Activation) /\ calls' # <<>> /\ depth' = depth + 1
         /\ \A k \in 1..depth : calls'[k] = calls[k]
         /\ calls'[depth + 1] = a
         /\ CallsSound'
         /\ LET r == IF a.trap THEN RegionOf(a.mode) ELSE RegionOf(Running.mode) IN
            \A x \in Region : Users(x)' = IF x = r THEN Users(x) \cup {depth + 1} ELSE Users(x)
<1> USE DEF IInv
<1>1. PICK d \in Nat \ {0} : d = depth
  BY TypedFacts
<1>2. /\ d \in Nat \ {0} /\ depth = d /\ calls \in Seq(Activation)
      /\ \A k \in 1..d : calls[k] \in Activation /\ calls[k].mode \in Mode
                           /\ calls[k].trap \in BOOLEAN
      /\ a.mode \in Mode /\ a.trap \in BOOLEAN
  BY <1>1, TypedFacts DEF TypeOK, Activation
<1>3. /\ calls' \in Seq(Activation) /\ depth' = d + 1
      /\ \A k \in 1..d : calls'[k] = calls[k]
      /\ calls'[d + 1] = a
  BY <1>2, AppendFacts DEF depth, Pushed
<1>4. calls' # <<>>
  BY <1>2, <1>3 DEF depth
<1>5. Floor'
  BY <1>2, <1>3 DEF CallsSound, Floor
<1>6. EnteredRight'
  <2> SUFFICES ASSUME NEW k \in 2..d + 1
               PROVE IF calls'[k].trap THEN calls'[k].mode \in TakenIn(calls'[k - 1].mode)
                     ELSE <<calls'[k - 1].mode, calls'[k].mode>> \in MayRun
    BY <1>3 DEF EnteredRight
  <2>1. CASE k = d + 1
    <3>1. calls'[k] = a /\ calls'[k - 1] = Running
      BY <1>2, <1>3, <2>1 DEF Running
    <3> QED
      BY <3>1
  <2>2. CASE k # d + 1
    <3>1. k \in 2..d /\ k \in 1..d /\ k - 1 \in 1..d
      BY <1>2, <2>2
    <3>2. calls'[k] = calls[k] /\ calls'[k - 1] = calls[k - 1]
      BY <1>3, <3>1
    <3> QED
      BY <1>2, <3>1, <3>2 DEF CallsSound, EnteredRight
  <2> QED
    BY <2>1, <2>2
<1>7. CallerBelow'
  <2> SUFFICES ASSUME NEW k \in 2..d + 1, calls'[k].mode \in {"U", "VS", "VU"}
               PROVE  \E i \in 1..k - 1 : IsBelow(i, k)'
    BY <1>3 DEF CallerBelow
  <2>1. ASSUME NEW i \in 1..d, calls[i].mode = From(a.mode),
               \A n \in i + 1..d : calls[n].mode # "M"
        PROVE  IsBelow(i, d + 1)'
    <3>1. calls'[i] = calls[i] /\ d + 1 - 1 = d
      BY <1>2, <1>3
    <3>2. \A n \in i + 1..d : n \in 1..d
      BY <1>2
    <3>3. \A n \in i + 1..d : calls'[n].mode # "M"
      BY <1>3, <2>1, <3>2
    <3> QED
      BY <1>3, <2>1, <3>1, <3>3 DEF IsBelow
  <2>2. CASE k # d + 1
    <3>1. k \in 2..d /\ k \in 1..d /\ calls'[k] = calls[k]
      BY <1>2, <1>3, <2>2
    <3>2. PICK i \in 1..k - 1 : IsBelow(i, k)
      BY <1>2, <3>1 DEF CallsSound, CallerBelow
    <3>3. i \in 1..d /\ \A n \in i + 1..k - 1 : n \in 1..d
      BY <1>2, <3>1
    <3>4. calls'[i] = calls[i] /\ \A n \in i + 1..k - 1 : calls'[n] = calls[n]
      BY <1>3, <3>3
    <3>5. IsBelow(i, k)'
      BY <3>1, <3>2, <3>4 DEF IsBelow
    <3> QED
      BY <3>5
  <2>3. CASE k = d + 1 /\ Running.mode = From(a.mode)
    BY <1>2, <2>1, <2>3 DEF Running
  <2>4. CASE k = d + 1 /\ Running.mode # From(a.mode)
    <3>1. a.mode = "VS" /\ Running.mode \in {"VS", "VU"} /\ From("VS") = "S"
      BY <1>2, <1>3, <2>4 DEF MayRun, TakenIn, From, Mode
    <3>2. d \in 2..d
      BY <1>2, <3>1 DEF CallsSound, Floor, Running
    <3>3. PICK i \in 1..d - 1 : IsBelow(i, d)
      BY <1>2, <3>1, <3>2 DEF CallsSound, CallerBelow, Running
    <3>4. CASE Running.mode = "VS"
      <4>1. i \in 1..d /\ calls[i].mode = From(a.mode)
        BY <1>2, <3>1, <3>3, <3>4 DEF IsBelow, Running
      <4>2. \A n \in i + 1..d : calls[n].mode # "M"
        BY <1>2, <3>3, <3>4 DEF IsBelow, Running
      <4> QED
        BY <2>1, <2>4, <4>1, <4>2
    <3>5. CASE Running.mode = "VU"
      <4>1. calls[i].mode = "VS"
        BY <1>2, <3>3, <3>5 DEF IsBelow, From, Running
      <4>2. i \in 2..d
        BY <1>2, <3>3, <4>1 DEF CallsSound, Floor
      <4>3. PICK j \in 1..i - 1 : IsBelow(j, i)
        BY <1>2, <4>1, <4>2 DEF CallsSound, CallerBelow
      <4>4. \A n \in j + 1..d : calls[n].mode # "M"
        <5>1. \A n \in j + 1..i - 1 : calls[n].mode # "M"
          BY <4>3 DEF IsBelow
        <5>2. \A n \in i + 1..d - 1 : calls[n].mode # "M"
          BY <3>3 DEF IsBelow
        <5> QED
          BY <1>2, <3>5, <4>1, <5>1, <5>2 DEF Running
      <4>5. calls[j].mode = "S"
        BY <3>1, <4>1, <4>3 DEF IsBelow
      <4> QED
        BY <1>2, <2>1, <2>4, <3>1, <4>4, <4>5
    <3> QED
      BY <3>1, <3>4, <3>5
  <2> QED
    BY <2>2, <2>3, <2>4
<1>8. ASSUME NEW x \in Region
      PROVE  Users(x)' = IF x = (IF a.trap THEN RegionOf(a.mode) ELSE RegionOf(Running.mode))
                         THEN Users(x) \cup {d + 1} ELSE Users(x)
  <2>1. \A k \in 2..d : SavedIn(k)' = SavedIn(k)
    BY <1>2, <1>3, SMTT(20) DEF SavedIn
  <2>2. SavedIn(d + 1)' = IF a.trap THEN RegionOf(a.mode) ELSE RegionOf(Running.mode)
    BY <1>2, <1>3 DEF SavedIn, Running
  <2> QED
    BY <1>2, <1>3, <2>1, <2>2 DEF Users
<1> QED
  BY <1>2, <1>3, <1>4, <1>5, <1>6, <1>7, <1>8 DEF CallsSound

(* The region an activation saves what it interrupts in.                   *)
SavesIn(a) == IF a.trap THEN RegionOf(a.mode) ELSE RegionOf(Running.mode)
Started(a, r) ==
  /\ Pushed(a) /\ Save(r) /\ r = SavesIn(a)
  /\ IF a.trap THEN a.mode \in TakenIn(Running.mode)
               ELSE <<Running.mode, a.mode>> \in MayRun
  /\ regs' = depth + 1 /\ UNCHANGED <<halted, gaveUp>>

LEMMA StartKeeps ==
  ASSUME IInv, Alive, NEW r \in Region, left[r] # 0, NEW a \in Activation, Started(a, r)
  PROVE  /\ saved' \in [Region -> Seq(Context)] /\ left' \in [Region -> 0..MaxContextSaves]
         /\ CountMatchesPointer' /\ ContextsSound' /\ RegistersRight' /\ CallsSound'
         /\ calls' \in Seq(Activation) /\ calls' # <<>> /\ regs' \in Nat
         /\ calls'[depth'] = a /\ depth' = depth + 1
<1> USE DEF IInv
<1>1. PICK d \in Nat \ {0} : d = depth
  BY TypedFacts
<1>2. /\ d \in Nat \ {0} /\ depth = d
      /\ \A k \in 1..d : calls[k] \in Activation
      /\ \A x \in Region : saved[x] \in Seq(Context) /\ Len(saved[x]) \in Nat
  BY <1>1, TypedFacts
<1> DEFINE c == [regs |-> regs, mode |-> Running.mode]
<1>3. c \in Context /\ c.regs = d /\ c.mode = calls[d].mode /\ regs = d
  BY <1>2 DEF Alive, Context, Activation, Running
<1> HIDE DEF c
<1>4. /\ calls' \in Seq(Activation) /\ calls' # <<>> /\ depth' = d + 1
      /\ \A k \in 1..d : calls'[k] = calls[k]
      /\ calls'[d + 1] = a /\ CallsSound'
      /\ \A x \in Region : Users(x)' = IF x = r THEN Users(x) \cup {d + 1} ELSE Users(x)
  BY <1>2, OneMoreCall DEF Started, SavesIn
<1>5. saved' = [saved EXCEPT ![r] = Append(saved[r], c)]
  BY DEF Started, Save, c
<1>6. /\ saved'[r] \in Seq(Context) /\ Len(saved'[r]) = Len(saved[r]) + 1
      /\ \A q \in 1..Len(saved[r]) : saved'[r][q] = saved[r][q]
      /\ saved'[r][Len(saved[r]) + 1] = c
      /\ \A x \in Region : x # r => saved'[x] = saved[x]
      /\ saved' \in [Region -> Seq(Context)]
  <2>1. saved \in [Region -> Seq(Context)]
    BY DEF TypeOK
  <2>2. Append(saved[r], c) \in Seq(Context)
    BY <1>2, <1>3, AppendFacts
  <2>3. saved'[r] = Append(saved[r], c)
    BY <1>5, <2>1
  <2> QED
    BY <1>2, <1>3, <1>5, <2>1, <2>2, <2>3, AppendFacts
<1>7. left' \in [Region -> 0..MaxContextSaves] /\ CountMatchesPointer'
  <2>1. left' = [left EXCEPT ![r] = @ - 1] /\ left \in [Region -> 0..MaxContextSaves]
    BY DEF Started, Save, TypeOK
  <2>2. left'[r] = left[r] - 1 /\ \A x \in Region : x # r => left'[x] = left[x]
    BY <2>1
  <2>3. \A x \in Region : left[x] \in 0..MaxContextSaves
    BY <2>1
  <2>4. left[r] - 1 \in 0..MaxContextSaves
    BY <2>3, SavesAssumption
  <2>5. left' \in [Region -> 0..MaxContextSaves]
    BY <2>1, <2>4
  <2>6. \A x \in Region : left[x] + Len(saved[x]) = MaxContextSaves
    BY DEF CountMatchesPointer
  <2>7. left'[r] + Len(saved'[r]) = MaxContextSaves
    <3>1. left[r] \in Nat /\ Len(saved[r]) \in Nat
      BY <1>2, <2>3, SavesAssumption
    <3>2. PICK b \in Nat : b = Len(saved[r])
      BY <3>1
    <3>3. PICK l \in Nat : l = left[r]
      BY <3>1
    <3>4. l + b = MaxContextSaves /\ Len(saved'[r]) = b + 1 /\ left'[r] = l - 1
      BY <1>6, <2>2, <2>6, <3>2, <3>3
    <3> QED
      BY <3>4, SavesAssumption
  <2> QED
    BY <1>6, <2>2, <2>5, <2>6, <2>7 DEF CountMatchesPointer
<1>8. regs' = d + 1 /\ halted' = halted /\ gaveUp' = gaveUp
  BY <1>2 DEF Started
<1>9. RegistersRight'
  BY <1>4, <1>8 DEF RegistersRight
<1>10. Kept'
  <2> SUFFICES ASSUME NEW x \in Region, NEW k \in Users(x)'
               PROVE  \E p \in 1..Len(saved'[x]) : ContextOf(x, k, p)'
    BY DEF Kept
  <2>1. CASE k \in Users(x)
    <3>1. k \in 2..d /\ k - 1 \in 1..d
      BY <1>2, <2>1 DEF Users
    <3>2. PICK p \in 1..Len(saved[x]) : ContextOf(x, k, p)
      BY <2>1 DEF Alive, Kept, ContextsSound
    <3>3. CASE x = r
      <4>1. p \in 1..Len(saved'[x]) /\ saved'[x][p] = saved[x][p]
        BY <1>2, <1>6, <3>3
      <4>2. ASSUME NEW q \in p + 1..Len(saved'[x]) PROVE saved'[x][q].regs >= k
        <5>1. CASE q = Len(saved[x]) + 1
          BY <1>2, <1>3, <1>6, <3>1, <3>3, <5>1
        <5>2. CASE q # Len(saved[x]) + 1
          <6>1. q \in p + 1..Len(saved[x]) /\ q \in 1..Len(saved[x])
            BY <1>2, <1>6, <3>3, <5>2
          <6> QED
            BY <1>6, <3>2, <3>3, <6>1 DEF ContextOf
        <5> QED
          BY <5>1, <5>2
      <4> QED
        BY <1>4, <3>1, <3>2, <4>1, <4>2 DEF ContextOf
    <3>4. CASE x # r
      BY <1>4, <1>6, <3>1, <3>2, <3>4 DEF ContextOf
    <3> QED
      BY <3>3, <3>4
  <2>2. CASE x = r /\ k = d + 1
    <3> DEFINE p == Len(saved[x]) + 1
    <3>1. p \in 1..Len(saved'[x]) /\ saved'[x][p] = c /\ Len(saved'[x]) = p
      BY <1>2, <1>6, <2>2
    <3>2. calls'[k - 1] = calls[d] /\ k - 1 = d
      BY <1>2, <1>4, <2>2
    <3>3. p + 1..Len(saved'[x]) = {}
      BY <1>2, <3>1
    <3> QED
      BY <1>3, <3>1, <3>2, <3>3 DEF ContextOf
  <2> QED
    BY <1>4, <2>1, <2>2
<1>11. Exact'
  <2> SUFFICES ASSUME NEW x \in Region, NoOthers(x), NEW q \in 1..Len(saved'[x])
               PROVE  /\ saved'[x][q].regs + 1 \in Users(x)'
                      /\ \A p \in 1..q - 1 : saved'[x][p].regs < saved'[x][q].regs
    BY <1>8 DEF Exact, NoOthers
  <2>1. \A n \in 1..Len(saved[x]) :
           /\ saved[x][n].regs + 1 \in Users(x)
           /\ \A p \in 1..n - 1 : saved[x][p].regs < saved[x][n].regs
    BY DEF Exact, ContextsSound
  <2>2. CASE x # r
    BY <1>4, <1>6, <2>1, <2>2
  <2>3. CASE x = r /\ q \in 1..Len(saved[x])
    <3>1. \A p \in 1..q - 1 : p \in 1..Len(saved[x])
      BY <1>2, <2>3
    <3> QED
      BY <1>4, <1>6, <2>1, <2>3, <3>1
  <2>4. CASE x = r /\ q = Len(saved[x]) + 1
    <3>1. saved'[x][q].regs = d /\ d + 1 \in Users(x)'
      BY <1>3, <1>4, <1>6, <2>4
    <3>2. ASSUME NEW p \in 1..q - 1 PROVE saved'[x][p].regs < d
      <4>1. p \in 1..Len(saved[x])
        BY <1>2, <2>4
      <4>2. saved[x][p].regs \in Nat
        <5>1. saved[x][p] \in Context
          BY <1>2, <4>1
        <5> QED
          BY <5>1 DEF Context
      <4>3. saved[x][p].regs + 1 \in 2..d
        BY <1>2, <2>1, <4>1 DEF Users
      <4>4. saved'[x][p] = saved[x][p]
        BY <1>6, <2>4, <4>1
      <4> QED
        BY <1>2, <4>2, <4>3, <4>4, SMTT(20)
    <3> QED
      BY <3>1, <3>2
  <2> QED
    BY <1>2, <1>6, <2>2, <2>3, <2>4
<1> QED
  BY <1>2, <1>4, <1>6, <1>7, <1>8, <1>9, <1>10, <1>11 DEF ContextsSound

(* A completion or the end of a trap: back to activation n, with what the  *)
(* context on top of region r holds.                                       *)
Resumed(r, n) ==
  /\ calls' = SubSeq(calls, 1, n)
  /\ regs' = Last(saved[r]).regs
  /\ saved' = [saved EXCEPT ![r] = Front(@)]
  /\ left' = [left EXCEPT ![r] = @ + 1]
  /\ gaveUp' = (gaveUp \/ depth > n + 1)
  /\ halted' = halted

LEMMA ResumeKeeps ==
  ASSUME IInv, Alive, NEW r \in Region, NEW n \in 1..depth - 1, n + 1 \in Users(r),
         Resumed(r, n), \A k \in Users("M") : k <= n + 1
  PROVE  /\ saved' \in [Region -> Seq(Context)] /\ left' \in [Region -> 0..MaxContextSaves]
         /\ CountMatchesPointer' /\ ContextsSound' /\ RegistersRight' /\ CallsSound'
         /\ calls' \in Seq(Activation) /\ calls' # <<>> /\ regs' \in Nat /\ gaveUp' \in BOOLEAN
         /\ depth' = n /\ calls'[n] = calls[n]
         /\ Alive' => Last(saved[r]).mode = calls[n].mode
<1> USE DEF IInv
<1>1. PICK d \in Nat \ {0} : d = depth
  BY TypedFacts
<1>2. /\ d \in Nat \ {0} /\ depth = d /\ n \in 1..d /\ n < d
      /\ \A k \in 1..d : calls[k] \in Activation
      /\ \A x \in Region : /\ saved[x] \in Seq(Context) /\ Len(saved[x]) \in Nat
                           /\ \A q \in 1..Len(saved[x]) : saved[x][q] \in Context
  BY <1>1, TypedFacts
<1>3. /\ calls' \in Seq(Activation) /\ calls' # <<>> /\ depth' = n
      /\ \A k \in 1..n : calls'[k] = calls[k]
      /\ CallsSound'
      /\ \A x \in Region : Users(x)' = {k \in Users(x) : k <= n}
  BY <1>2, ShortenedCalls DEF Resumed
<1>4. PICK at \in 1..Len(saved[r]) : ContextOf(r, n + 1, at)
  BY DEF Alive, Kept, ContextsSound
<1>5. PICK top \in Nat \ {0} : top = Len(saved[r])
  BY <1>2, <1>4
<1>6. /\ top \in Nat \ {0} /\ top = Len(saved[r]) /\ at \in 1..top /\ saved[r] # <<>>
      /\ saved[r][at].regs = n /\ saved[r][at].mode = calls[n].mode
      /\ \A q \in at + 1..top : saved[r][q].regs >= n + 1
  BY <1>2, <1>4, <1>5 DEF ContextOf
<1>7. /\ saved' \in [Region -> Seq(Context)]
      /\ Len(saved'[r]) = top - 1
      /\ \A q \in 1..top - 1 : saved'[r][q] = saved[r][q]
      /\ \A x \in Region : x # r => saved'[x] = saved[x]
      /\ Last(saved[r]) = saved[r][top]
  <2>1. saved \in [Region -> Seq(Context)]
    BY DEF TypeOK
  <2>2. /\ Front(saved[r]) \in Seq(Context) /\ Len(Front(saved[r])) = top - 1
        /\ \A q \in 1..top - 1 : Front(saved[r])[q] = saved[r][q]
        /\ Last(saved[r]) = saved[r][top]
    BY <1>2, <1>6, FrontFacts
  <2>3. saved' = [saved EXCEPT ![r] = Front(saved[r])]
    BY DEF Resumed
  <2>4. saved'[r] = Front(saved[r])
    BY <2>1, <2>3
  <2> QED
    BY <2>1, <2>2, <2>3, <2>4
<1>8. left' \in [Region -> 0..MaxContextSaves] /\ CountMatchesPointer'
  <2>1. left' = [left EXCEPT ![r] = @ + 1] /\ left \in [Region -> 0..MaxContextSaves]
    BY DEF Resumed, TypeOK
  <2>2. left'[r] = left[r] + 1 /\ \A x \in Region : x # r => left'[x] = left[x]
    BY <2>1
  <2>3. \A x \in Region : left[x] \in 0..MaxContextSaves
    BY <2>1
  <2>4. \A x \in Region : left[x] + Len(saved[x]) = MaxContextSaves
    BY DEF CountMatchesPointer
  <2>5. left[r] \in Nat /\ left[r] + top = MaxContextSaves
    BY <1>6, <2>3, <2>4, SavesAssumption
  <2>6. left[r] + 1 \in 0..MaxContextSaves /\ left[r] + 1 + (top - 1) = MaxContextSaves
    <3>1. PICK l \in Nat : l = left[r]
      BY <2>5
    <3>2. l + top = MaxContextSaves /\ top \in Nat \ {0}
      BY <1>5, <2>5, <3>1
    <3>3. l + 1 \in 0..MaxContextSaves /\ l + 1 + (top - 1) = MaxContextSaves
      BY <3>2, SavesAssumption
    <3> QED
      BY <3>1, <3>3
  <2>7. left' \in [Region -> 0..MaxContextSaves]
    BY <2>1, <2>6
  <2>8. left'[r] + Len(saved'[r]) = MaxContextSaves
    BY <1>7, <2>2, <2>6
  <2> QED
    BY <1>7, <2>2, <2>4, <2>7, <2>8 DEF CountMatchesPointer
<1>9. regs' = saved[r][top].regs /\ regs' \in Nat
  <2>1. saved[r][top] \in Context
    BY <1>2, <1>6
  <2> QED
    BY <1>7, <2>1 DEF Resumed, Context
<1>10. gaveUp' = (gaveUp \/ d > n + 1) /\ halted' = halted /\ gaveUp' \in BOOLEAN
  BY <1>2 DEF Resumed, TypeOK
(* Above the context of n + 1 are only those of later activations, none in *)
(* a region without others.                                                *)
<1>11. ASSUME regs' = n PROVE at = top
  <2>1. at < top => top \in at + 1..top
    BY <1>5
  <2>2. at < top => n >= n + 1
    BY <1>6, <1>9, <1>11, <2>1
  <2> QED
    BY <1>2, <1>5, <2>2
<1>12. ASSUME NEW x \in Region, NoOthers(x)' PROVE NoOthers(x) /\ \A k \in Users(x) : k <= n + 1
  <2>1. CASE x = "M"
    BY <2>1 DEF NoOthers
  <2>2. CASE ~gaveUp'
    <3>1. ~gaveUp /\ ~(d > n + 1)
      BY <1>10, <2>2
    <3> QED
      BY <1>2, <3>1 DEF Users, NoOthers
  <2> QED
    BY <1>12, <2>1, <2>2 DEF NoOthers
<1>13. ASSUME NoOthers(r)' PROVE at = top
  <2>1. NoOthers(r) /\ \A k \in Users(r) : k <= n + 1
    BY <1>12, <1>13
  <2>2. saved[r][top].regs + 1 \in Users(r)
    BY <1>6, <2>1 DEF Exact, ContextsSound
  <2>3. saved[r][top].regs + 1 \in 2..d
    BY <1>2, <2>2 DEF Users
  <2>4. at < top => top \in at + 1..top
    BY <1>5
  <2>5. at < top => regs' >= n + 1
    BY <1>6, <1>9, <2>4
  <2>6. regs' + 1 <= n + 1
    BY <1>9, <2>1, <2>2
  <2> QED
    BY <1>2, <1>5, <1>9, <2>5, <2>6
<1>14. RegistersRight'
  BY <1>3, <1>6, <1>9, <1>13 DEF NoOthers, RegistersRight
<1>15. Alive' => Last(saved[r]).mode = calls[n].mode
  BY <1>3, <1>6, <1>7, <1>11 DEF Alive
<1>16. Kept'
  <2> SUFFICES ASSUME regs' = depth', NEW x \in Region, NEW k \in Users(x)'
               PROVE  \E p \in 1..Len(saved'[x]) : ContextOf(x, k, p)'
    BY DEF Kept
  <2>1. k \in Users(x) /\ k <= n /\ k \in 2..d
    BY <1>2, <1>3 DEF Users
  <2>2. k - 1 \in 1..n /\ calls'[k - 1] = calls[k - 1]
    BY <1>2, <1>3, <2>1
  <2>3. PICK p \in 1..Len(saved[x]) : ContextOf(x, k, p)
    BY <2>1 DEF Alive, Kept, ContextsSound
  <2>4. CASE x # r
    BY <1>7, <2>2, <2>3, <2>4 DEF ContextOf
  <2>5. CASE x = r
    <3>1. at = top
      BY <1>3, <1>11
    <3>2. saved[r][p].regs = k - 1
      BY <2>3, <2>5 DEF ContextOf
    <3>3. p # top
      BY <1>2, <1>6, <2>1, <3>1, <3>2
    <3>4. p \in 1..top - 1
      BY <1>6, <2>3, <2>5, <3>3
    <3>5. \A q \in p + 1..top - 1 : q \in 1..top - 1 /\ q \in p + 1..top
      BY <1>6, <3>4
    <3>6. p \in 1..Len(saved'[x]) /\ saved'[x][p] = saved[x][p]
      BY <1>7, <2>5, <3>4
    <3>7. \A q \in p + 1..Len(saved'[x]) : saved'[x][q].regs >= k
      BY <1>6, <1>7, <2>3, <2>5, <3>5 DEF ContextOf
    <3> QED
      BY <2>2, <2>3, <3>6, <3>7 DEF ContextOf
  <2> QED
    BY <2>4, <2>5
<1>17. Exact'
  <2> SUFFICES ASSUME NEW x \in Region, NoOthers(x)', NEW q \in 1..Len(saved'[x])
               PROVE  /\ saved'[x][q].regs + 1 \in Users(x)'
                      /\ \A p \in 1..q - 1 : saved'[x][p].regs < saved'[x][q].regs
    BY DEF Exact
  <2>1. NoOthers(x) /\ \A k \in Users(x) : k <= n + 1
    BY <1>12
  <2>2. \A m \in 1..Len(saved[x]) :
           /\ saved[x][m].regs + 1 \in Users(x)
           /\ \A p \in 1..m - 1 : saved[x][p].regs < saved[x][m].regs
    BY <2>1 DEF Exact, ContextsSound
  <2>3. /\ q \in 1..Len(saved[x]) /\ saved'[x][q] = saved[x][q]
        /\ \A p \in 1..q - 1 : saved'[x][p] = saved[x][p]
    <3>1. CASE x # r
      BY <1>7, <3>1
    <3>2. CASE x = r
      <4>1. q \in 1..top - 1 /\ \A p \in 1..q - 1 : p \in 1..top - 1
        BY <1>6, <1>7, <3>2
      <4> QED
        BY <1>6, <1>7, <3>2, <4>1
    <3> QED
      BY <3>1, <3>2
  <2>4. saved[x][q].regs + 1 \in Users(x) /\ saved[x][q].regs \in Nat
    <3>1. saved[x][q] \in Context
      BY <1>2, <2>3
    <3> QED
      BY <2>2, <2>3, <3>1 DEF Context
  <2>5. saved[x][q].regs + 1 # n + 1
    <3>1. CASE x = r
      <4>1. q \in 1..top - 1
        BY <1>7, <3>1
      <4>2. saved[r][q].regs < saved[r][top].regs
        BY <1>6, <2>2, <3>1, <4>1, SMTT(20)
      <4>3. at = top
        BY <1>13, <3>1
      <4> QED
        BY <1>2, <1>6, <2>4, <3>1, <4>2, <4>3
    <3>2. CASE x # r
      <4>1. n + 1 \notin Users(x)
        BY <3>2 DEF Users
      <4> QED
        BY <2>4, <4>1
    <3> QED
      BY <3>1, <3>2
  <2>6. saved[x][q].regs + 1 \in Users(x)'
    BY <1>2, <1>3, <2>1, <2>4, <2>5, SMTT(20) DEF Users
  <2> QED
    BY <2>2, <2>3, <2>6
<1>18. calls'[n] = calls[n]
  BY <1>2, <1>3
<1>19. ContextsSound'
  BY <1>16, <1>17 DEF ContextsSound
<1> QED
  BY <1>3, <1>7, <1>8, <1>9, <1>10, <1>14, <1>15, <1>18, <1>19

----------------------------------------------------------------------------
(* The activation a function was started from.                             *)

Less == {ss \in Nat \X Nat : ss[1] < ss[2]}

LEMMA GreatestNatural ==
  ASSUME NEW d \in Nat, NEW N \in SUBSET (1..d), N # {}
  PROVE  \E n \in N : \A k \in N : k <= n
<1> DEFINE Distance == {d - k : k \in N}
<1>1. OpToRel(<, Nat) = Less
  BY Zenon DEF OpToRel, Less
<1>2. Distance \in SUBSET Nat /\ Distance # {}
  <2>1. \A k \in N : d - k \in Nat
    OBVIOUS
  <2>2. PICK k \in N : TRUE
    OBVIOUS
  <2>3. d - k \in Distance
    OBVIOUS
  <2> QED
    BY <2>1, <2>3
<1>3. PICK x \in Distance : \A y \in Distance : <<y, x>> \notin Less
  BY <1>1, <1>2, NatLessThanWellFounded, WFMin
<1>4. PICK n \in N : x = d - n
  OBVIOUS
<1>5. ASSUME NEW k \in N PROVE k <= n
  <2>1. d - k \in Distance /\ d - k \in Nat /\ x \in Nat
    BY <1>2
  <2>2. ~(d - k < x)
    BY <1>3, <2>1 DEF Less
  <2> QED
    BY <1>4, <2>2
<1> QED
  BY <1>5

CalledFrom == {<<"S", "M">>, <<"VS", "S">>, <<"U", "S">>, <<"VU", "VS">>}

LEMMA CallerFacts ==
  ASSUME IInv, Running.mode # "M", NEW m, NEW into, <<m, into>> \in CalledFrom,
         m # "S" => m = Running.mode
  PROVE  /\ CallerOf(m) \in 1..depth - 1 /\ calls[CallerOf(m)].mode = into
         /\ CallerOf(m) + 1 \in Users(RegionOf(into))
         /\ \A k \in Users("M") : k <= CallerOf(m) + 1
<1> USE DEF IInv
<1>1. PICK d \in Nat \ {0} : d = depth
  BY TypedFacts
<1>2. /\ d \in Nat \ {0} /\ depth = d
      /\ \A k \in 1..d : calls[k] \in Activation
      /\ calls[d].mode # "M" /\ d # 1
  BY <1>1, TypedFacts DEF Running, CallsSound, Floor
<1>3. into = From(m)
  BY DEF CalledFrom, From
<1> DEFINE callers == {k \in 1..d - 1 : calls[k].mode = into}
<1>4. \E i \in callers : m # "S" => \A k \in i + 1..d : calls[k].mode # "M"
  <2>1. CASE m = "S"
    <3>1. 1 \in 1..d - 1 /\ into = "M"
      BY <1>2, <2>1 DEF CalledFrom
    <3> QED
      BY <2>1, <3>1 DEF CallsSound, Floor
  <2>2. CASE m # "S"
    <3>1. d \in 2..d /\ calls[d].mode = m /\ m \in {"U", "VS", "VU"}
      BY <1>2, <2>2 DEF Running, CalledFrom
    <3>2. PICK i \in 1..d - 1 : IsBelow(i, d)
      BY <1>2, <3>1 DEF CallsSound, CallerBelow
    <3>3. i \in callers
      BY <1>3, <3>1, <3>2 DEF IsBelow
    <3>4. \A k \in i + 1..d : calls[k].mode # "M"
      BY <1>2, <3>2 DEF IsBelow
    <3> QED
      BY <3>3, <3>4
  <2> QED
    BY <2>1, <2>2
<1>5. \E n \in callers : \A k \in callers : k <= n
  <2>1. callers \in SUBSET (1..d) /\ callers # {}
    BY <1>2, <1>4
  <2> QED
    BY <1>2, <2>1, GreatestNatural
<1>6. CallerOf(m) = CHOOSE n \in callers : \A k \in callers : k <= n
  BY <1>2 DEF CallerOf, CalledFrom
<1>7. PICK n : n = CallerOf(m)
  OBVIOUS
<1>8. n \in callers /\ \A k \in callers : k <= n
  BY <1>5, <1>6, <1>7
<1>9. n \in 1..d - 1 /\ calls[n].mode = into /\ n + 1 \in 2..d /\ n + 1 - 1 = n
  BY <1>2, <1>8
<1>10. calls[n + 1].mode # "M"
  <2>1. CASE m = "S"
    <3>1. n + 1 \notin callers /\ into = "M"
      BY <1>8, <1>9, <2>1 DEF CalledFrom
    <3> QED
      BY <1>2, <1>9, <3>1
  <2>2. CASE m # "S"
    BY <1>4, <1>8, <1>9, <2>2
  <2> QED
    BY <2>1, <2>2
<1>11. SavedIn(n + 1) = RegionOf(into)
  <2>1. IF calls[n + 1].trap THEN calls[n + 1].mode \in TakenIn(into)
                             ELSE <<into, calls[n + 1].mode>> \in MayRun
    BY <1>2, <1>9 DEF CallsSound, EnteredRight
  <2>2. into = "M" => ~calls[n + 1].trap
    BY <1>10, <2>1 DEF TakenIn
  <2> QED
    BY <1>9, <1>10, <2>2 DEF SavedIn, RegionOf
<1>12. ASSUME NEW k \in Users("M") PROVE k <= n + 1
  <2>1. \A j \in n + 1..d : calls[j].mode # "M"
    <3>1. CASE m = "S"
      <4>1. into = "M" /\ \A j \in n + 1..d - 1 : j \notin callers
        BY <1>2, <1>8, <3>1 DEF CalledFrom
      <4> QED
        BY <1>2, <1>9, <4>1
    <3>2. CASE m # "S"
      BY <1>2, <1>4, <1>8, <3>2
    <3> QED
      BY <3>1, <3>2
  <2>2. k \in 2..d /\ (calls[k].mode = "M" \/ calls[k - 1].mode = "M")
    BY <1>2 DEF Users, SavedIn, RegionOf
  <2> QED
    BY <1>2, <1>9, <2>1, <2>2
<1> QED
  BY <1>2, <1>7, <1>9, <1>11, <1>12 DEF Users

----------------------------------------------------------------------------
(* Every step keeps the invariant.                                         *)

LEMMA CompleteKeeps ==
  ASSUME IInv, Alive, Running.mode # "M", NEW m, NEW into, <<m, into>> \in CalledFrom,
         m # "S" => m = Running.mode, Complete(m, into)
  PROVE  IInv'
<1> USE DEF IInv
<1>1. PICK n : n = CallerOf(m)
  OBVIOUS
<1>2. /\ n \in 1..depth - 1 /\ calls[n].mode = into /\ n + 1 \in Users(RegionOf(into))
      /\ \A k \in Users("M") : k <= n + 1
  BY <1>1, CallerFacts
<1>3. PICK r \in Region : r = RegionOf(into)
  BY DEF RegionOf, Region
<1>4. left \in [Region -> 0..MaxContextSaves] /\ left[r] \in Int
  BY SavesAssumption DEF TypeOK
<1>5. left[r] - 1 + 2 = left[r] + 1
  BY <1>4
<1>6. Resumed(r, n)
  BY <1>1, <1>3, <1>5 DEF Complete, Resumed, SecondContext, Pop, PutBack
<1>7. /\ saved' \in [Region -> Seq(Context)] /\ left' \in [Region -> 0..MaxContextSaves]
      /\ CountMatchesPointer' /\ ContextsSound' /\ RegistersRight' /\ CallsSound'
      /\ calls' \in Seq(Activation) /\ calls' # <<>> /\ regs' \in Nat /\ gaveUp' \in BOOLEAN
      /\ depth' = n /\ calls'[n] = calls[n]
  BY <1>2, <1>3, <1>6, ResumeKeeps
<1>8. curMode' = Privilege(into) /\ curV' = Virtual(into) /\ halted' = halted
  BY DEF Complete
<1>9. ModeTracked'
  BY <1>2, <1>7, <1>8 DEF ModeTracked, Running
<1>10. TypeOK'
  <2>1. Privilege(into) \in {"M", "S", "U"} /\ Virtual(into) \in {0, 1}
    BY DEF CalledFrom, Privilege, Virtual
  <2> QED
    BY <1>7, <1>8, <2>1 DEF TypeOK
<1> QED
  BY <1>7, <1>9, <1>10

LEMMA HaltKeeps ==
  ASSUME IInv, Halt
  PROVE  IInv'
<1> USE DEF IInv
<1>1. /\ UNCHANGED <<calls, regs, saved, left, curMode, curV, gaveUp>>
      /\ halted' = TRUE /\ ~Alive'
  BY DEF Halt, Alive
<1>2. TypeOK' /\ CountMatchesPointer' /\ RegistersRight' /\ ModeTracked'
  BY <1>1 DEF TypeOK, CountMatchesPointer, RegistersRight, ModeTracked, depth
<1>3. CallsSound'
  BY <1>1 DEF CallsSound, Floor, EnteredRight, CallerBelow, IsBelow, depth
<1>4. Users("M")' = Users("M") /\ Users("S")' = Users("S")
  BY <1>1 DEF Users, SavedIn, depth
<1>5. ContextsSound'
  BY <1>1, <1>4, SMTT(20) DEF ContextsSound, Kept, ContextOf, Exact, NoOthers, Region, depth
<1> QED
  BY <1>2, <1>3, <1>5

LEMMA FailKeeps ==
  ASSUME IInv, Alive, NEW m \in Mode, FailIn(m),
         m # "M" => /\ Running.mode # "M"
                    /\ m \in {Running.mode, "S"} \/ left["S"] = 0
  PROVE  IInv'
<1>1. CASE Halt
  BY <1>1, HaltKeeps
<1>2. CASE m # "M" /\ left["M"] # 0 /\ Complete("S", "M")
  BY <1>2, CompleteKeeps DEF CalledFrom
<1>3. CASE m # "M" /\ left["S"] # 0 /\ m = "VS" /\ Complete("VS", "S")
  BY <1>3, CompleteKeeps DEF CalledFrom
<1>4. CASE m # "M" /\ left["S"] # 0 /\ m = "U" /\ Complete("U", "S")
  BY <1>4, CompleteKeeps DEF CalledFrom
<1>5. CASE m # "M" /\ left["S"] # 0 /\ m = "VU" /\ Complete("VU", "VS")
  BY <1>5, CompleteKeeps DEF CalledFrom
<1> QED
  BY <1>1, <1>2, <1>3, <1>4, <1>5
     DEF FailIn, Leave, LeaveS, LeaveVS, LeaveU, LeaveVU

LEMMA StartedKeeps ==
  ASSUME IInv, Alive, NEW r \in Region, left[r] # 0, NEW a \in Activation, Started(a, r),
         curMode' = Privilege(a.mode), curV' = Virtual(a.mode)
  PROVE  IInv'
<1>1. /\ saved' \in [Region -> Seq(Context)] /\ left' \in [Region -> 0..MaxContextSaves]
      /\ CountMatchesPointer' /\ ContextsSound' /\ RegistersRight' /\ CallsSound'
      /\ calls' \in Seq(Activation) /\ calls' # <<>> /\ regs' \in Nat
      /\ calls'[depth'] = a /\ depth' = depth + 1
  BY StartKeeps
<1>2. ModeTracked'
  BY <1>1 DEF ModeTracked, Running
<1>3. TypeOK'
  <2>1. Privilege(a.mode) \in {"M", "S", "U"} /\ Virtual(a.mode) \in {0, 1}
    BY DEF Privilege, Virtual
  <2>2. halted' = halted /\ gaveUp' = gaveUp
    BY DEF Started
  <2> QED
    BY <1>1, <2>1, <2>2 DEF IInv, TypeOK
<1> QED
  BY <1>1, <1>2, <1>3 DEF IInv

LEMMA RunFunctionKeeps ==
  ASSUME IInv, NEW f \in Mode, RunFunction(f)
  PROVE  IInv'
<1> DEFINE m == Running.mode
           a == [mode |-> f, trap |-> FALSE]
<1>1. Alive /\ <<m, f>> \in MayRun
  BY DEF RunFunction
<1>2. m \in Mode /\ curMode = Privilege(m) /\ curV = Virtual(m)
  <2>1. Running \in Activation
    BY TypedFacts DEF IInv, Running
  <2> QED
    BY <1>1, <2>1 DEF IInv, ModeTracked, Activation
<1>3. CASE FailIn(m)
  BY <1>1, <1>2, <1>3, FailKeeps
<1>4. CASE /\ left[RegionOf(m)] # 0 /\ Save(RegionOf(m)) /\ calls' = Append(calls, a)
           /\ regs' = depth + 1 /\ curMode' = Privilege(f)
           /\ curV' = (IF f = "VS" THEN 1 ELSE curV) /\ UNCHANGED <<halted, gaveUp>>
  <2>1. a \in Activation /\ a.mode = f /\ ~a.trap
    BY DEF Activation
  <2>2. Started(a, RegionOf(m))
    BY <1>1, <1>4, <2>1 DEF Started, Pushed, SavesIn
  <2>3. curV' = Virtual(f)
    BY <1>1, <1>2, <1>4 DEF MayRun, Virtual
  <2>4. RegionOf(m) \in Region
    BY DEF RegionOf, Region
  <2> HIDE DEF a
  <2> QED
    BY <1>1, <1>4, <2>1, <2>2, <2>3, <2>4, StartedKeeps
<1> QED
  BY <1>3, <1>4 DEF RunFunction

LEMMA TakeTrapKeeps ==
  ASSUME IInv, NEW h \in {"M", "S", "VS"}, TakeTrap(h)
  PROVE  IInv'
<1> DEFINE m == Running.mode
           a == [mode |-> h, trap |-> TRUE]
<1>1. Alive /\ h \in TakenIn(m)
  BY DEF TakeTrap
<1>2. m \in Mode /\ curV = Virtual(m)
  <2>1. Running \in Activation
    BY TypedFacts DEF IInv, Running
  <2> QED
    BY <1>1, <2>1 DEF IInv, ModeTracked, Activation
<1>3. CASE left[RegionOf(h)] = 0 /\ FailIn(h)
  <2>1. h # "M" => m # "M" /\ RegionOf(h) = "S"
    BY <1>1 DEF TakenIn, RegionOf
  <2> QED
    BY <1>1, <1>3, <2>1, FailKeeps DEF Mode
<1>4. CASE /\ left[RegionOf(h)] # 0 /\ Save(RegionOf(h)) /\ calls' = Append(calls, a)
           /\ regs' = depth + 1 /\ curMode' = Privilege(h)
           /\ curV' = EntryV(h) /\ UNCHANGED <<halted, gaveUp>>
  <2>1. a \in Activation /\ a.mode = h /\ a.trap
    BY DEF Activation, Mode
  <2>2. Started(a, RegionOf(h))
    BY <1>1, <1>4, <2>1 DEF Started, Pushed, SavesIn
  <2>3. curV' = Virtual(h)
    BY <1>1, <1>2, <1>4 DEF TakenIn, EntryV, Virtual
  <2>4. RegionOf(h) \in Region
    BY DEF RegionOf, Region
  <2> HIDE DEF a
  <2> QED
    BY <1>1, <1>4, <2>1, <2>2, <2>3, <2>4, StartedKeeps
<1> QED
  BY <1>3, <1>4 DEF TakeTrap

LEMMA ReturnFromTrapKeeps ==
  ASSUME IInv, ReturnFromTrap
  PROVE  IInv'
<1> USE DEF IInv
<1> DEFINE h == Running.mode
           r == RegionOf(h)
           c == Last(saved[r])
<1>1. PICK d \in Nat \ {0} : d = depth
  BY TypedFacts
<1>2. /\ d \in Nat \ {0} /\ depth = d /\ Alive /\ calls[d].trap
      /\ \A k \in 1..d : calls[k] \in Activation
  BY <1>1, TypedFacts DEF ReturnFromTrap, Running
<1>3. d \in 2..d /\ d - 1 \in 1..d - 1 /\ d - 1 + 1 = d
  <2>1. d # 1
    BY <1>2 DEF CallsSound, Floor
  <2> QED
    BY <1>2, <2>1
<1>4. h \in TakenIn(calls[d - 1].mode) /\ calls[d - 1].mode \in Mode
  <2>1. calls[d - 1] \in Activation
    BY <1>2, <1>3
  <2>2. calls[d].mode \in TakenIn(calls[d - 1].mode)
    BY <1>2, <1>3 DEF CallsSound, EnteredRight
  <2> QED
    BY <1>2, <2>1, <2>2 DEF Running, Activation
<1>5. d \in Users(r) /\ r \in Region
  BY <1>2, <1>3 DEF Users, SavedIn, Running, RegionOf, Region
<1>6. Resumed(r, d - 1)
  <2>1. calls' = SubSeq(calls, 1, d - 1)
    BY <1>2 DEF ReturnFromTrap, Front, depth
  <2>2. ~(depth > d - 1 + 1)
    BY <1>2
  <2>3. gaveUp' = (gaveUp \/ depth > d - 1 + 1)
    BY <2>2 DEF ReturnFromTrap, TypeOK
  <2> QED
    BY <2>1, <2>3 DEF ReturnFromTrap, Resumed
<1>7. curMode' = ExitMode(h, c.mode) /\ curV' = IF h = "VS" THEN curV ELSE Virtual(c.mode)
  BY DEF ReturnFromTrap
<1>8. halted' = halted
  BY DEF ReturnFromTrap
<1>9. curMode = Privilege(h) /\ curV = Virtual(h)
  BY <1>2 DEF ModeTracked
<1> HIDE DEF h, r, c
<1>10. /\ saved' \in [Region -> Seq(Context)] /\ left' \in [Region -> 0..MaxContextSaves]
       /\ CountMatchesPointer' /\ ContextsSound' /\ RegistersRight' /\ CallsSound'
       /\ calls' \in Seq(Activation) /\ calls' # <<>> /\ regs' \in Nat /\ gaveUp' \in BOOLEAN
       /\ depth' = d - 1 /\ calls'[d - 1] = calls[d - 1]
       /\ Alive' => Last(saved[r]).mode = calls[d - 1].mode
  <2>1. \A k \in Users("M") : k <= d - 1 + 1
    BY <1>2 DEF Users
  <2> QED
    BY <1>2, <1>3, <1>5, <1>6, <2>1, ResumeKeeps
<1>11. ModeTracked'
  <2> SUFFICES ASSUME Alive'
               PROVE  curMode' = Privilege(Running.mode)' /\ curV' = Virtual(Running.mode)'
    BY DEF ModeTracked
  <2>1. PICK m \in Mode : m = calls[d - 1].mode
    BY <1>4
  <2>2. Running'.mode = m /\ c.mode = m
    BY <1>10, <2>1 DEF Running, c
  <2>3. ExitMode(h, m) = Privilege(m) /\ (IF h = "VS" THEN curV ELSE Virtual(m)) = Virtual(m)
    BY <1>4, <1>9, <2>1 DEF TakenIn, ExitMode, Privilege, Virtual, Mode
  <2> QED
    BY <1>7, <2>2, <2>3
<1>12. TypeOK'
  <2>1. curMode' \in {"M", "S", "U"} /\ curV' \in {0, 1}
    BY <1>7 DEF ExitMode, Privilege, Virtual, TypeOK
  <2> QED
    BY <1>8, <1>10, <2>1 DEF TypeOK
<1> QED
  BY <1>10, <1>11, <1>12

LEMMA Inductive == IInv /\ [Next]_vars => IInv'
<1> SUFFICES ASSUME IInv, [Next]_vars PROVE IInv'
  OBVIOUS
<1>1. Running \in Activation
  BY TypedFacts DEF IInv, Running
<1>2. ASSUME NEW f \in Mode, RunFunction(f) PROVE IInv'
  BY <1>2, RunFunctionKeeps
<1>3. ASSUME ReturnFromFunction PROVE IInv'
  <2>1. Alive /\ Running.mode # "M" /\ FailIn(Running.mode)
    BY <1>3 DEF ReturnFromFunction, FailIn, Leave
  <2> QED
    BY <1>1, <2>1, FailKeeps DEF Activation
<1>4. ASSUME Fail PROVE IInv'
  BY <1>1, <1>4, FailKeeps DEF Fail, Activation
<1>5. ASSUME NEW h \in {"M", "S", "VS"}, TakeTrap(h) PROVE IInv'
  BY <1>5, TakeTrapKeeps
<1>6. ASSUME ReturnFromTrap PROVE IInv'
  BY <1>6, ReturnFromTrapKeeps
<1>7. ASSUME UNCHANGED vars PROVE IInv'
  <2>1. TypeOK' /\ CountMatchesPointer' /\ RegistersRight' /\ ModeTracked'
    BY <1>7 DEF vars, IInv, TypeOK, CountMatchesPointer, RegistersRight, ModeTracked,
                Alive, Running, depth
  <2>2. CallsSound'
    BY <1>7 DEF vars, IInv, CallsSound, Floor, EnteredRight, CallerBelow, IsBelow, depth
  <2>3. Users("M")' = Users("M") /\ Users("S")' = Users("S")
    BY <1>7 DEF vars, Users, SavedIn, depth
  <2>4. ContextsSound'
    BY <1>7, <2>3 DEF vars, IInv, ContextsSound, Kept, ContextOf, Exact, NoOthers, Region, depth
  <2> QED
    BY <2>1, <2>2, <2>4 DEF IInv
<1> QED
  BY <1>2, <1>3, <1>4, <1>5, <1>6, <1>7 DEF Next

LEMMA InitIInv == Init => IInv
<1> SUFFICES ASSUME Init PROVE IInv
  OBVIOUS
<1>1. /\ depth = 1 /\ calls[1] = [mode |-> "M", trap |-> FALSE]
      /\ \A r \in Region : saved[r] = <<>> /\ Len(saved[r]) = 0
  BY DEF Init, depth
<1>2. TypeOK
  <2>1. calls \in Seq(Activation) /\ calls # <<>>
    BY DEF Init, Activation, Mode
  <2>2. left \in [Region -> 0..MaxContextSaves]
    <3>1. MaxContextSaves \in 0..MaxContextSaves
      BY SavesAssumption
    <3> QED
      BY <3>1 DEF Init
  <2>3. saved \in [Region -> Seq(Context)]
    <3>1. <<>> \in Seq(Context)
      OBVIOUS
    <3> QED
      BY <3>1 DEF Init
  <2>4. regs \in Nat
    BY DEF Init
  <2> QED
    BY <2>1, <2>2, <2>3, <2>4 DEF Init, TypeOK
<1>3. CountMatchesPointer
  BY <1>1, SavesAssumption DEF Init, CountMatchesPointer
<1>4. CallsSound
  BY <1>1 DEF CallsSound, Floor, EnteredRight, CallerBelow
<1>5. ContextsSound
  <2>1. \A r \in Region : Users(r) = {}
    BY <1>1 DEF Users
  <2> QED
    BY <1>1, <2>1 DEF ContextsSound, Kept, Exact
<1>6. RegistersRight /\ ModeTracked
  BY <1>1 DEF Init, RegistersRight, ModeTracked, Running, Privilege, Virtual
<1> QED
  BY <1>2, <1>3, <1>4, <1>5, <1>6 DEF IInv

----------------------------------------------------------------------------
(* The invariant holds of every reachable state.                           *)
THEOREM Invariance == Spec => []IInv
BY InitIInv, Inductive, PTL DEF Spec

(* Whatever is called, traps or gives up, the variables keep their types:  *)
(* no count of remaining contexts goes below none or above all.            *)
THEOREM TypeCorrect == Spec => []TypeOK
<1>1. IInv => TypeOK
  BY DEF IInv
<1> QED
  BY <1>1, Invariance, PTL

(* The eight places that move a region's pointer and its count move them   *)
(* together (jumpstart.{m,s,vs}mode.S), for any MAX_NUM_CONTEXT_SAVES.     *)
THEOREM CountsAgree == Spec => []CountMatchesPointer
<1>1. IInv => CountMatchesPointer
  BY DEF IInv
<1> QED
  BY <1>1, Invariance, PTL

(* The code that resumes after a trap or a function has its own registers, *)
(* until something gives up with handlers or calls of its own in progress. *)
THEOREM RegistersAreRight == Spec => []RegistersRight
<1>1. IInv => RegistersRight
  BY DEF IInv
<1> QED
  BY <1>1, Invariance, PTL

(* current_mode and current_v_bit are those of the code that runs, through *)
(* any nesting of functions and traps, as long as the CPU goes on at all.  *)
THEOREM ModeIsTracked == Spec => []ModeTracked
<1>1. IInv => ModeTracked
  BY DEF IInv
<1> QED
  BY <1>1, Invariance, PTL

(* While the CPU goes on, each region holds exactly the contexts of the    *)
(* calls and traps in progress that saved in it, in order: M-mode's        *)
(* whatever gives up wherever, the one S and VS mode share as long as      *)
(* nobody gave up inside a handler or a call of its own.                   *)
THEOREM ContextsAreNeeded == Spec => []ContextsNeeded
<1>1. IInv => ContextsNeeded
  <2> SUFFICES ASSUME IInv, NEW r \in Region, NoOthers(r), regs = depth PROVE HoldsNeeded(r)
    BY DEF ContextsNeeded, MContextsNeeded, SContextsNeeded, NoOthers, IInv, RegistersRight, Region
  <2>1. /\ depth \in Nat /\ saved[r] \in Seq(Context) /\ Len(saved[r]) \in Nat
        /\ \A q \in 1..Len(saved[r]) : saved[r][q].regs \in Nat
    <3>1. \A c \in Context : c.regs \in Nat
      BY DEF Context
    <3> QED
      BY <3>1, TypedFacts DEF IInv
  <2>2. \A q \in 1..Len(saved[r]) : saved[r][q].regs + 1 \in Users(r)
    BY DEF IInv, ContextsSound, Exact
  <2>3. ASSUME NEW k \in Users(r) PROVE \E q \in 1..Len(saved[r]) : k = saved[r][q].regs + 1
    <3>1. PICK q \in 1..Len(saved[r]) : saved[r][q].regs = k - 1
      BY DEF IInv, ContextsSound, Kept, ContextOf
    <3> QED
      BY <2>1, <3>1 DEF Users
  <2>4. \A i, j \in 1..Len(saved[r]) : i < j => saved[r][i].regs < saved[r][j].regs
    <3> SUFFICES ASSUME NEW i \in 1..Len(saved[r]), NEW j \in 1..Len(saved[r]), i < j
                 PROVE  saved[r][i].regs < saved[r][j].regs
      OBVIOUS
    <3>1. i \in 1..j - 1
      BY <2>1
    <3> QED
      BY <3>1 DEF IInv, ContextsSound, Exact
  <2> QED
    BY <2>2, <2>3, <2>4 DEF HoldsNeeded
<1> QED
  BY <1>1, Invariance, PTL
=============================================================================
