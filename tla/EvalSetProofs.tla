----------------------------- MODULE EvalSetProofs -----------------------------
(***************************************************************************)
(* What every generation of the evaluation set yields, for every arena,    *)
(* margin, attempt budget and number of episodes.  The geometry stays      *)
(* closed: what the proofs need is that the sampler rejects by the tests   *)
(* the validation makes, and by one more.                                  *)
(***************************************************************************)
EXTENDS EvalSet, TLAPS

(* A start that has been accepted is free; a goal that has been accepted   *)
(* makes a legal episode with it, so that there is nothing for the         *)
(* validation to find.                                                     *)
Accepted ==
  /\ pc \in {"yaw", "goal", "validate"} => start \in Draws /\ IsFree(start)
  /\ pc = "validate" => goal \in Draws /\ Legal([start |-> start, goal |-> goal])
  /\ pc # "invalid"

IInv == TypeOK /\ Accepted /\ EpisodesAreLegal

(* What a draw leaves behind: a stream at least as long as what was read.  *)
LEMMA DrawTyped ==
  ASSUME TypeOK, NEW d \in Draws, Draw(d)
  PROVE  stream' \in Seq(Draws) /\ pos' \in 0..Len(stream')
<1>1. CASE pos < Len(stream)
  BY <1>1 DEF TypeOK, Draw
<1>2. CASE ~(pos < Len(stream))
  <2>1. stream' = Append(stream, d) /\ pos' = pos + 1 BY <1>2 DEF Draw
  <2>2. Len(stream') = Len(stream) + 1 /\ stream' \in Seq(Draws)
    BY <2>1 DEF TypeOK
  <2>3. QED BY <1>2, <2>1, <2>2 DEF TypeOK
<1>3. QED BY <1>1, <1>2

(* Appending a legal episode, or a list of legal episodes.                 *)
LEMMA AppendEpisode ==
  ASSUME NEW s \in Seq(Episodes), AllLegal(s), NEW e \in Episodes, Legal(e)
  PROVE  Append(s, e) \in Seq(Episodes) /\ AllLegal(Append(s, e))
<1>1. \A i \in DOMAIN Append(s, e) : Append(s, e)[i] = e \/ (i \in DOMAIN s /\ Append(s, e)[i] = s[i])
  OBVIOUS
<1>2. QED BY <1>1 DEF AllLegal

LEMMA InitInv == Init => IInv
<1> SUFFICES ASSUME Init PROVE IInv
  OBVIOUS
<1>1. TypeOK BY EvalSetAssumption DEF Init, TypeOK
<1>2. Accepted BY DEF Init, Accepted
<1>3. EpisodesAreLegal BY DEF Init, EpisodesAreLegal, AllLegal
<1>4. QED BY <1>1, <1>2, <1>3 DEF IInv

LEMMA TypePreserved == IInv /\ [Next]_vars => TypeOK'
<1> SUFFICES ASSUME IInv, [Next]_vars PROVE TypeOK'
  OBVIOUS
<1> USE EvalSetAssumption DEF IInv
<1>1. ASSUME NEW n \in Counts, Begin(n) PROVE TypeOK'
  BY <1>1 DEF Begin, TypeOK
<1>2. CASE DrawStart
  <2>1. PICK d \in Draws : Draw(d) /\ (start' = d \/ start' = start)
    BY <1>2 DEF DrawStart
  <2>2. tries' \in 0..Attempts /\ pc' \in {"yaw", "start"}
    BY <1>2 DEF DrawStart, TypeOK
  <2>3. QED BY <1>2, <2>1, <2>2, DrawTyped DEF DrawStart, TypeOK
<1>3. CASE DrawYaw
  BY <1>3, DrawTyped DEF DrawYaw, TypeOK, call
<1>4. CASE DrawGoal
  <2>1. PICK d \in Draws : Draw(d) /\ (goal' = d \/ goal' = goal)
    BY <1>4 DEF DrawGoal
  <2>2. tries' \in 0..Attempts /\ pc' \in {"validate", "goal"}
    BY <1>4 DEF DrawGoal, TypeOK
  <2>3. QED BY <1>4, <2>1, <2>2, DrawTyped DEF DrawGoal, TypeOK
<1>5. CASE Exhausted
  BY <1>5 DEF Exhausted, TypeOK, call
<1>6. CASE Validate
  <2> DEFINE e == [start |-> start, goal |-> goal]
  <2>1. e \in Episodes
    BY <1>6 DEF Validate, Accepted, Episodes
  <2>2. out' = Append(out, e) \/ out' = out
    BY <1>6 DEF Validate
  <2>3. out' \in Seq(Episodes)
    <3> HIDE DEF e
    <3>1. out \in Seq(Episodes) BY DEF TypeOK
    <3>2. QED BY <2>1, <2>2, <3>1
  <2>4. pc' \in {"return", "start", "invalid"} BY <1>6 DEF Validate
  <2>5. UNCHANGED <<stream, count, start, goal, pos, tries, made>>
    BY <1>6 DEF Validate, call
  <2>6. QED BY <2>3, <2>4, <2>5 DEF TypeOK
<1>7. CASE Return
  BY <1>7 DEF Return, TypeOK, call
<1>8. CASE UNCHANGED vars
  BY <1>8 DEF vars, call, TypeOK
<1>9. QED
  BY <1>1, <1>2, <1>3, <1>4, <1>5, <1>6, <1>7, <1>8 DEF Next, Generate, Enough

LEMMA AcceptedPreserved == IInv /\ [Next]_vars => Accepted'
<1> SUFFICES ASSUME IInv, [Next]_vars PROVE Accepted'
  OBVIOUS
<1> USE DEF IInv, Accepted
<1>1. ASSUME NEW n \in Counts, Begin(n) PROVE Accepted'
  BY <1>1 DEF Begin
<1>2. CASE DrawStart
  BY <1>2 DEF DrawStart, TypeOK
<1>3. CASE DrawYaw
  BY <1>3 DEF DrawYaw, call
<1>4. CASE DrawGoal
  <2>1. PICK d \in Draws :
          IF IsFree(d) /\ NotTooNear(start, d) /\ Reachable(start, d)
            THEN goal' = d /\ pc' = "validate"
            ELSE UNCHANGED <<goal, pc>>
    BY <1>4 DEF DrawGoal
  <2>2. CASE IsFree(d) /\ NotTooNear(start, d) /\ Reachable(start, d)
    <3>1. Legal([start |-> start, goal |-> d])
      BY <1>4, <2>2 DEF Legal, Valid, DrawGoal
    <3>2. QED BY <1>4, <2>1, <2>2, <3>1 DEF DrawGoal
  <2>3. CASE ~(IsFree(d) /\ NotTooNear(start, d) /\ Reachable(start, d))
    BY <1>4, <2>1, <2>3 DEF DrawGoal
  <2>4. QED BY <2>2, <2>3
<1>5. CASE Exhausted
  BY <1>5 DEF Exhausted
<1>6. CASE Validate
  <2>1. Valid(start, goal) BY <1>6 DEF Validate, Legal
  <2>2. pc' \in {"return", "start"} BY <1>6, <2>1 DEF Validate
  <2>3. QED BY <2>2
<1>7. CASE Return
  BY <1>7 DEF Return
<1>8. CASE UNCHANGED vars
  BY <1>8 DEF vars, call
<1>9. QED
  BY <1>1, <1>2, <1>3, <1>4, <1>5, <1>6, <1>7, <1>8 DEF Next, Generate, Enough

LEMMA LegalPreserved == IInv /\ [Next]_vars => EpisodesAreLegal'
<1> SUFFICES ASSUME IInv, [Next]_vars PROVE EpisodesAreLegal'
  OBVIOUS
<1> USE DEF IInv, EpisodesAreLegal
<1>1. ASSUME NEW n \in Counts, Begin(n) PROVE EpisodesAreLegal'
  BY <1>1 DEF Begin, AllLegal
<1>2. CASE DrawStart BY <1>2 DEF DrawStart
<1>3. CASE DrawYaw BY <1>3 DEF DrawYaw
<1>4. CASE DrawGoal BY <1>4 DEF DrawGoal
<1>5. ASSUME made' = Append(made, out), out' = out PROVE EpisodesAreLegal'
  <2>1. \A k \in DOMAIN made' : made'[k] = out \/ (k \in DOMAIN made /\ made'[k] = made[k])
    BY <1>5 DEF TypeOK
  <2>2. QED BY <1>5, <2>1
<1>6. CASE Exhausted BY <1>5, <1>6 DEF Exhausted
<1>7. CASE Validate
  <2>1. CASE Valid(start, goal)
    <3> DEFINE e == [start |-> start, goal |-> goal]
    <3>1. e \in Episodes /\ Legal(e)
      BY <1>7 DEF Validate, Accepted, Episodes
    <3>2. out' = Append(out, e) /\ made' = made BY <1>7, <2>1 DEF Validate
    <3>3. AllLegal(out') BY <3>1, <3>2, AppendEpisode DEF TypeOK
    <3>4. QED BY <3>2, <3>3
  <2>2. CASE ~Valid(start, goal) BY <1>7, <2>2 DEF Validate
  <2>3. QED BY <2>1, <2>2
<1>8. CASE Return BY <1>5, <1>8 DEF Return
<1>9. CASE UNCHANGED vars BY <1>9 DEF vars
<1>10. QED
  BY <1>1, <1>2, <1>3, <1>4, <1>6, <1>7, <1>8, <1>9 DEF Next, Generate, Enough

LEMMA Invariance == Spec => []IInv
<1>1. IInv /\ [Next]_vars => IInv'
  BY TypePreserved, AcceptedPreserved, LegalPreserved DEF IInv
<1>2. QED BY <1>1, InitInv, PTL DEF Spec

(* Type correctness, for every arena and every number of attempts.         *)
THEOREM Typed == Spec => []TypeOK
BY Invariance, PTL DEF IInv

(* Every episode of every generated set, complete or cut short, is clear   *)
(* of obstacles, long enough and short enough.                             *)
THEOREM SetIsLegal == Spec => []EpisodesAreLegal
BY Invariance, PTL DEF IInv

(* The validation of the sampler's own output never raises.                *)
THEOREM ValidationPasses == Spec => []SamplerPassesValidation
<1>1. IInv => SamplerPassesValidation BY DEF IInv, Accepted, SamplerPassesValidation
<1>2. QED BY <1>1, Invariance, PTL
-----------------------------------------------------------------------------
(* Prefix stability.  The generator is a machine driven by the draws: what *)
(* it has after k draws is fixed by the first k of the stream, whoever     *)
(* reads them and however many episodes they want.  So there is one        *)
(* account T of all of it, the running generation is at T[pos], every      *)
(* earlier one stopped at some T[k], and what T has generated only grows.  *)

Pairs == [start : Draws \cup {NoPoint}, goal : Draws]

States == [at : {"start", "yaw", "goal"}, tries : Nat,
           start : Draws \cup {NoPoint}, out : Seq(Pairs)]

State(at, n, p, episodes) == [at |-> at, tries |-> n, start |-> p, out |-> episodes]

\* What one more draw makes of a state; validation follows without a draw.
AfterStart(s, d) ==
  IF IsFree(d) THEN State("yaw", 0, d, s.out)
               ELSE State("start", s.tries + 1, s.start, s.out)

AfterGoal(s, d) ==
  IF IsFree(d) /\ NotTooNear(s.start, d) /\ Reachable(s.start, d)
    THEN State("start", 0, NoPoint, Append(s.out, [start |-> s.start, goal |-> d]))
    ELSE State("goal", s.tries + 1, s.start, s.out)

After(s, d) ==
  IF s.at = "start" THEN AfterStart(s, d)
  ELSE IF s.at = "yaw" THEN State("goal", s.tries, s.start, s.out)
  ELSE AfterGoal(s, d)

Account(T, draws) ==
  /\ T \in [0 .. Len(draws) -> States]
  /\ T[0] = State("start", 0, NoPoint, <<>>)
  /\ \A k \in 0 .. Len(draws) : k < Len(draws) => T[k + 1] = After(T[k], draws[k + 1])
  /\ \A k, l \in 0 .. Len(draws) : k <= l => StartsWith(T[l].out, T[k].out)

Now(s) ==
  /\ pc = "start" => s = State("start", tries, NoPoint, out)
  /\ pc \in {"yaw", "goal"} => s = State(pc, tries, start, out)
  /\ pc = "validate" =>
        s = State("start", tries, NoPoint, Append(out, [start |-> start, goal |-> goal]))
  /\ pc = "return" => s.out = out

Past(T, draws) == \A j \in DOMAIN made : \E k \in 0 .. Len(draws) : made[j] = T[k].out

PrefixInv == \E T : Account(T, stream) /\ Now(T[pos]) /\ Past(T, stream)

LEMMA StartsWithItself ==
  ASSUME NEW s \in Seq(Pairs)
  PROVE  StartsWith(s, s)
BY DEF StartsWith

LEMMA StartsWithTransitive ==
  ASSUME NEW s \in Seq(Pairs), NEW t \in Seq(Pairs), NEW u \in Seq(Pairs),
         StartsWith(s, t), StartsWith(t, u)
  PROVE  StartsWith(s, u)
<1>1. Len(s) \in Nat /\ Len(t) \in Nat /\ Len(u) \in Nat
  OBVIOUS
<1>2. DOMAIN u \subseteq DOMAIN t
  BY <1>1 DEF StartsWith
<1> QED BY <1>1, <1>2 DEF StartsWith

LEMMA AfterIsState ==
  ASSUME NEW s \in States, NEW d \in Draws
  PROVE  After(s, d) \in States /\ StartsWith(After(s, d).out, s.out)
<1>1. /\ s.at \in {"start", "yaw", "goal"} /\ s.tries \in Nat /\ s.tries + 1 \in Nat
      /\ s.start \in Draws \cup {NoPoint} /\ s.out \in Seq(Pairs)
  BY DEF States
<1>2. StartsWith(s.out, s.out)
  BY <1>1, StartsWithItself
<1>3. CASE s.at = "start"
  <2>1. After(s, d) = AfterStart(s, d)
    BY <1>3 DEF After
  <2> QED BY <1>1, <1>2, <2>1 DEF AfterStart, State, States
<1>4. CASE s.at = "yaw"
  <2>1. After(s, d) = State("goal", s.tries, s.start, s.out)
    BY <1>4 DEF After
  <2> QED BY <1>1, <1>2, <2>1 DEF State, States
<1>5. CASE s.at = "goal"
  <2> DEFINE e == [start |-> s.start, goal |-> d]
  <2>1. After(s, d) = AfterGoal(s, d)
    BY <1>5 DEF After
  <2>2. e \in Pairs
    BY <1>1 DEF Pairs
  <2> HIDE DEF e
  <2>3. Append(s.out, e) \in Seq(Pairs) /\ StartsWith(Append(s.out, e), s.out)
    BY <1>1, <2>2 DEF StartsWith
  <2>4. CASE AfterGoal(s, d) = State("start", 0, NoPoint, Append(s.out, e))
    BY <2>1, <2>3, <2>4 DEF State, States
  <2>5. CASE AfterGoal(s, d) = State("goal", s.tries + 1, s.start, s.out)
    BY <1>1, <1>2, <2>1, <2>5 DEF State, States
  <2> QED BY <2>4, <2>5 DEF AfterGoal, e
<1> QED BY <1>1, <1>3, <1>4, <1>5

\* Reading a draw that was made before follows the account; a new one extends it.
LEMMA DrawExtends ==
  ASSUME TypeOK, NEW T, Account(T, stream), NEW d \in Draws, Draw(d)
  PROVE  \E U : /\ Account(U, stream')
                /\ pos' \in 0 .. Len(stream') /\ U[pos'] = After(T[pos], d)
                /\ Len(stream) <= Len(stream')
                /\ \A k \in 0 .. Len(stream) : U[k] = T[k]
<1>0. Len(stream) \in Nat /\ pos \in 0 .. Len(stream) /\ stream \in Seq(Draws) /\ pos' = pos + 1
  BY DEF TypeOK, Draw
<1>1. CASE pos < Len(stream)
  <2>1. d = stream[pos + 1] /\ stream' = stream
    BY <1>1 DEF Draw
  <2>2. T[pos'] = After(T[pos], d) /\ pos' \in 0 .. Len(stream')
    BY <1>0, <1>1, <2>1 DEF Account
  <2> QED BY <1>0, <2>1, <2>2
<1>2. CASE ~(pos < Len(stream))
  <2> DEFINE n == Len(stream)
             x == After(T[n], d)
             U == [k \in 0 .. n + 1 |-> IF k <= n THEN T[k] ELSE x]
  <2>1. pos = n /\ pos' = n + 1 /\ stream' = Append(stream, d)
    BY <1>0, <1>2 DEF Draw
  <2>2. /\ Len(stream') = n + 1 /\ stream'[n + 1] = d
        /\ \A k \in 1 .. n : stream'[k] = stream[k]
    BY <1>0, <2>1
  <2>3. T[n] \in States /\ \A k \in 0 .. n : T[k] \in States
    <3>1. T \in [0 .. n -> States]
      BY DEF Account
    <3>2. n \in 0 .. n
      BY <1>0
    <3> QED BY <3>1, <3>2
  <2>4. x \in States /\ StartsWith(x.out, T[n].out)
    BY <2>3, AfterIsState
  <2>5. /\ U \in [0 .. n + 1 -> States] /\ U[n + 1] = x
        /\ \A k \in 0 .. n : U[k] = T[k]
    <3> HIDE DEF x
    <3> QED BY <1>0, <2>3, <2>4
  <2> HIDE DEF U
  <2>6. U[0] = State("start", 0, NoPoint, <<>>)
    BY <1>0, <2>5 DEF Account
  <2>7. ASSUME NEW k \in 0 .. n + 1, k < n + 1
        PROVE  U[k + 1] = After(U[k], stream'[k + 1])
    <3>1. CASE k = n
      BY <1>0, <2>2, <2>5, <3>1 DEF x
    <3>2. CASE k < n
      <4>1. k \in 0 .. n /\ k + 1 \in 0 .. n /\ k + 1 \in 1 .. n
        BY <1>0, <3>2
      <4>2. T[k + 1] = After(T[k], stream[k + 1])
        BY <3>2, <4>1 DEF Account
      <4> QED BY <2>2, <2>5, <4>1, <4>2
    <3> QED BY <1>0, <2>7, <3>1, <3>2
  <2>8. ASSUME NEW k \in 0 .. n + 1, NEW l \in 0 .. n + 1, k <= l
        PROVE  StartsWith(U[l].out, U[k].out)
    <3>1. CASE l <= n
      <4>1. k \in 0 .. n /\ l \in 0 .. n
        BY <1>0, <2>8, <3>1
      <4> QED BY <2>5, <2>8, <4>1 DEF Account
    <3>2. CASE l = n + 1 /\ k <= n
      <4>1. k \in 0 .. n /\ n \in 0 .. n
        BY <1>0, <3>2
      <4>2. StartsWith(T[n].out, T[k].out)
        BY <3>2, <4>1 DEF Account
      <4>3. /\ x.out \in Seq(Pairs) /\ T[n].out \in Seq(Pairs) /\ T[k].out \in Seq(Pairs)
        BY <2>3, <2>4, <4>1 DEF States
      <4>4. StartsWith(x.out, T[k].out)
        BY <2>4, <4>2, <4>3, StartsWithTransitive
      <4> QED BY <2>5, <3>2, <4>1, <4>4
    <3>3. CASE l = n + 1 /\ k = n + 1
      <4>1. x.out \in Seq(Pairs)
        BY <2>4 DEF States
      <4> QED BY <2>5, <3>3, <4>1, StartsWithItself
    <3> QED BY <1>0, <2>8, <3>1, <3>2, <3>3
  <2>9. Account(U, stream')
    BY <2>2, <2>5, <2>6, <2>7, <2>8 DEF Account
  <2> QED BY <1>0, <2>1, <2>2, <2>5, <2>9
<1> QED BY <1>1, <1>2

LEMMA InitPrefix == Init => PrefixInv
<1> SUFFICES ASSUME Init PROVE PrefixInv
  OBVIOUS
<1> DEFINE s0 == State("start", 0, NoPoint, <<>>)
           T == [k \in 0 .. 0 |-> s0]
<1>1. stream = <<>> /\ Len(stream) = 0 /\ pc = "idle" /\ made = <<>>
  BY DEF Init
<1>2. s0 \in States /\ StartsWith(s0.out, s0.out)
  <2>1. s0.out = <<>> /\ s0.at = "start" /\ s0.tries = 0 /\ s0.start = NoPoint
    BY DEF State
  <2>2. <<>> \in Seq(Pairs) /\ 0 \in Nat /\ NoPoint \in Draws \cup {NoPoint}
    OBVIOUS
  <2>3. s0 \in States
    BY <2>1, <2>2 DEF State, States
  <2>4. StartsWith(<<>>, <<>>)
    BY DEF StartsWith
  <2> QED BY <2>1, <2>3, <2>4
<1> HIDE DEF s0
<1>3. T \in [0 .. 0 -> States] /\ T[0] = s0
  BY <1>2
<1> HIDE DEF T
<1>4. Account(T, stream)
  BY <1>1, <1>2, <1>3 DEF Account, s0
<1>5. Now(T[pos]) /\ Past(T, stream)
  BY <1>1 DEF Now, Past
<1> QED BY <1>4, <1>5 DEF PrefixInv

\* The steps that draw.
LEMMA DrawKeepsPrefix ==
  ASSUME IInv, NEW T, Account(T, stream), Now(T[pos]), Past(T, stream),
         DrawStart \/ DrawYaw \/ DrawGoal
  PROVE  PrefixInv'
<1> USE DEF IInv
<1>1. ASSUME NEW d \in Draws, Draw(d), made' = made, NEW x, x = After(T[pos], d), Now(x)'
      PROVE  PrefixInv'
  <2>1. PICK U :
          /\ Account(U, stream')
          /\ pos' \in 0 .. Len(stream') /\ U[pos'] = After(T[pos], d)
          /\ Len(stream) <= Len(stream')
          /\ \A k \in 0 .. Len(stream) : U[k] = T[k]
    BY <1>1, DrawExtends
  <2>2. Len(stream) \in Nat /\ Len(stream') \in Nat
    <3>1. stream' \in Seq(Draws)
      BY <1>1, DrawTyped
    <3> QED BY <3>1 DEF TypeOK
  <2>3. \A j \in DOMAIN made : \E k \in 0 .. Len(stream') : made[j] = U[k].out
    BY <2>1, <2>2 DEF Past
  <2>4. Past(U, stream)'
    BY <1>1, <2>3 DEF Past
  <2>5. Now(U[pos])'
    BY <1>1, <2>1 DEF Now
  <2> QED BY <2>1, <2>4, <2>5 DEF PrefixInv
<1>2. CASE DrawStart
  <2>1. PICK d \in Draws :
          /\ Draw(d)
          /\ IF IsFree(d) THEN start' = d /\ tries' = 0 /\ pc' = "yaw"
                          ELSE tries' = tries + 1 /\ UNCHANGED <<start, pc>>
    BY <1>2 DEF DrawStart
  <2>2. T[pos] = State("start", tries, NoPoint, out) /\ pc = "start" /\ UNCHANGED <<out, made>>
    BY <1>2 DEF Now, DrawStart
  <2>3. PICK x : x = After(T[pos], d)
    OBVIOUS
  <2>4. x = IF IsFree(d) THEN State("yaw", 0, d, out)
                         ELSE State("start", tries + 1, NoPoint, out)
    BY <2>2, <2>3 DEF After, AfterStart, State
  <2>5. Now(x)'
    BY <2>1, <2>2, <2>4 DEF Now
  <2> QED BY <1>1, <2>1, <2>2, <2>3, <2>5
<1>3. CASE DrawYaw
  <2>1. PICK d \in Draws : Draw(d)
    BY <1>3 DEF DrawYaw
  <2>2. /\ T[pos] = State("yaw", tries, start, out) /\ pc' = "goal"
        /\ UNCHANGED <<start, tries, out, made>>
    BY <1>3 DEF Now, DrawYaw, call
  <2>3. PICK x : x = After(T[pos], d)
    OBVIOUS
  <2>4. x = State("goal", tries, start, out)
    BY <2>2, <2>3 DEF After, State
  <2>5. Now(x)'
    BY <2>2, <2>4 DEF Now
  <2> QED BY <1>1, <2>1, <2>2, <2>3, <2>5
<1>4. CASE DrawGoal
  <2>1. PICK d \in Draws :
          /\ Draw(d)
          /\ IF IsFree(d) /\ NotTooNear(start, d) /\ Reachable(start, d)
               THEN goal' = d /\ tries' = 0 /\ pc' = "validate"
               ELSE tries' = tries + 1 /\ UNCHANGED <<goal, pc>>
    BY <1>4 DEF DrawGoal
  <2>2. /\ T[pos] = State("goal", tries, start, out) /\ pc = "goal"
        /\ UNCHANGED <<start, out, made>>
    BY <1>4 DEF Now, DrawGoal
  <2>3. PICK x : x = After(T[pos], d)
    OBVIOUS
  <2>4. x =
          IF IsFree(d) /\ NotTooNear(start, d) /\ Reachable(start, d)
            THEN State("start", 0, NoPoint, Append(out, [start |-> start, goal |-> d]))
            ELSE State("goal", tries + 1, start, out)
    BY <2>2, <2>3 DEF After, AfterGoal, State
  <2>5. Now(x)'
    BY <2>1, <2>2, <2>4 DEF Now
  <2> QED BY <1>1, <2>1, <2>2, <2>3, <2>5
<1> QED BY <1>2, <1>3, <1>4

LEMMA PrefixPreserved == IInv /\ PrefixInv /\ [Next]_vars => PrefixInv'
<1> SUFFICES ASSUME IInv, PrefixInv, [Next]_vars PROVE PrefixInv'
  OBVIOUS
<1> USE DEF IInv
<1>0. PICK T : Account(T, stream) /\ Now(T[pos]) /\ Past(T, stream)
  BY DEF PrefixInv
<1>1. Len(stream) \in Nat /\ pos \in 0 .. Len(stream) /\ T[pos] \in States
  BY <1>0 DEF TypeOK, Account
<1>2. CASE DrawStart \/ DrawYaw \/ DrawGoal
  BY <1>0, <1>2, DrawKeepsPrefix
<1>3. ASSUME NEW n \in Counts, Begin(n) PROVE PrefixInv'
  <2>1. /\ pos' = 0 /\ tries' = 0 /\ out' = <<>> /\ pc' = "start"
        /\ stream' = stream /\ made' = made
    BY <1>3 DEF Begin
  <2>2. T[0] = State("start", 0, NoPoint, <<>>)
    BY <1>0 DEF Account
  <2> QED BY <1>0, <2>1, <2>2 DEF PrefixInv, Now, Past
<1>4. CASE Validate
  <2>1. /\ pc = "validate" /\ Valid(start, goal)
        /\ out' = Append(out, [start |-> start, goal |-> goal])
        /\ pc' \in {"return", "start"} /\ UNCHANGED <<stream, pos, tries, made>>
    BY <1>4 DEF Validate, Accepted, Legal
  <2>2. T[pos] = State("start", tries, NoPoint, Append(out, [start |-> start, goal |-> goal]))
    BY <1>0, <2>1 DEF Now
  <2>3. T[pos].out = out' /\ T[pos] = State("start", tries, NoPoint, out')
    BY <2>1, <2>2 DEF State
  <2> QED BY <1>0, <2>1, <2>3 DEF PrefixInv, Now, Past
<1>5. CASE Exhausted \/ Return
  <2>1. pc' = "idle" /\ made' = Append(made, out) /\ UNCHANGED <<stream, pos>>
    BY <1>5 DEF Exhausted, Return
  <2>2. T[pos].out = out
    BY <1>0, <1>5 DEF Exhausted, Return, Now, State
  <2>3. \A j \in DOMAIN made' : made'[j] = out \/ (j \in DOMAIN made /\ made'[j] = made[j])
    BY <2>1 DEF TypeOK
  <2>4. Past(T, stream)'
    BY <1>0, <1>1, <2>1, <2>2, <2>3 DEF Past
  <2> QED BY <1>0, <2>1, <2>4 DEF PrefixInv, Now
<1>6. CASE UNCHANGED vars
  BY <1>0, <1>6 DEF vars, call, PrefixInv, Now, Past
<1> QED
  BY <1>2, <1>3, <1>4, <1>5, <1>6 DEF Next, Generate, Enough

(* Whatever numbers of episodes programs ask for, and wherever a sampling  *)
(* failed, they have seen the same episodes as far as both went: for every *)
(* arena, any stream of draws and any number of generations.               *)
THEOREM PrefixesAgree == Spec => []PrefixStable
<1>1. PrefixInv /\ TypeOK => PrefixStable
  <2> SUFFICES ASSUME PrefixInv, TypeOK, NEW i \in DOMAIN made, NEW j \in DOMAIN made
               PROVE  Agree(made[i], made[j])
    BY DEF PrefixStable
  <2>1. PICK T : Account(T, stream) /\ Past(T, stream)
    BY DEF PrefixInv
  <2>2. PICK k \in 0 .. Len(stream) : made[i] = T[k].out
    BY <2>1 DEF Past
  <2>3. PICK l \in 0 .. Len(stream) : made[j] = T[l].out
    BY <2>1 DEF Past
  <2>4. k <= l \/ l <= k
    BY DEF TypeOK
  <2> QED BY <2>1, <2>2, <2>3, <2>4 DEF Account, Agree
<1>2. IInv => TypeOK
  BY DEF IInv
<1> QED BY <1>1, <1>2, InitPrefix, PrefixPreserved, Invariance, PTL DEF Spec
-----------------------------------------------------------------------------
(* The draws.  What has been read of the stream is accounted for: a full   *)
(* price for each finished episode, and what the running one has cost.     *)

Spent ==
  CASE pc = "start" -> tries
    [] pc = "yaw" -> Attempts
    [] pc = "goal" -> Attempts + 1 + tries
    [] pc = "validate" -> DrawsPerEpisode

DrawsInv ==
  /\ IInv
  /\ pc \in {"start", "yaw", "goal", "validate"} =>
       Len(out) < count /\ pos <= Len(out) * DrawsPerEpisode + Spent
  /\ DrawsAreBounded

(* A finished episode pays for itself.                                     *)
LEMMA OneMore ==
  ASSUME NEW n \in Nat, NEW p \in Nat
  PROVE  (n + 1) * p = n * p + p
OBVIOUS

LEMMA Affordable ==
  ASSUME NEW n \in Nat, NEW m \in Nat, NEW p \in Nat, n < m
  PROVE  n * p + p <= m * p
<1>1. PICK k \in Nat : m = n + 1 + k
  <2>1. m - n - 1 \in Nat /\ m = n + 1 + (m - n - 1)
    OBVIOUS
  <2> QED BY <2>1
<1>2. m * p = (n + 1) * p + k * p
  BY <1>1
<1>3. k * p >= 0
  OBVIOUS
<1> QED
  BY <1>2, <1>3, OneMore


LEMMA DrawsNumbers ==
  ASSUME TypeOK
  PROVE  /\ pos \in Nat /\ tries \in 0..Attempts /\ tries \in Nat /\ count \in Nat
         /\ Len(out) \in Nat /\ Attempts \in Nat /\ DrawsPerEpisode \in Nat
         /\ DrawsPerEpisode = 2 * Attempts + 1
BY EvalSetAssumption DEF TypeOK, DrawsPerEpisode

(* Nothing that is spent on one episode is more than its price.            *)
LEMMA WithinCount ==
  ASSUME NEW n \in Nat, NEW m \in Nat, NEW p \in Nat, NEW k \in Nat, NEW x \in Nat,
         n < m, k <= p, x <= n * p + k
  PROVE  x <= m * p
<1> DEFINE paid == n * p
           all == m * p
<1>1. paid \in Nat /\ all \in Nat
  OBVIOUS
<1>2. paid + p <= all
  BY Affordable
<1>3. x <= paid + k
  OBVIOUS
<1> HIDE DEF paid, all
<1>4. x <= all
  BY <1>1, <1>2, <1>3
<1> QED
  BY <1>4 DEF all

LEMMA NextDraws == DrawsInv /\ [Next]_vars => DrawsInv'
<1> SUFFICES ASSUME DrawsInv, [Next]_vars PROVE DrawsInv'
  OBVIOUS
<1>1. IInv' /\ TypeOK /\ TypeOK' /\ pc # "invalid"
  BY TypePreserved, AcceptedPreserved, LegalPreserved DEF IInv, DrawsInv, Accepted
<1>2. /\ pos \in Nat /\ tries \in Nat /\ tries \in 0..Attempts /\ count \in Nat
      /\ Len(out) \in Nat /\ Attempts \in Nat /\ DrawsPerEpisode \in Nat
      /\ DrawsPerEpisode = 2 * Attempts + 1 /\ Len(out) * DrawsPerEpisode \in Nat
  BY <1>1, DrawsNumbers
<1>3. tries' \in 0..Attempts /\ tries' \in Nat /\ pos' \in Nat
  BY <1>1, EvalSetAssumption DEF TypeOK
<1>4. ASSUME NEW n \in Counts, Begin(n) PROVE DrawsInv'
  <2>1. n \in Nat \ {0} /\ count' = n /\ pos' = 0 /\ tries' = 0 /\ out' = <<>> /\ pc' = "start"
    BY <1>4, EvalSetAssumption DEF Begin
  <2>2. 0 <= n * DrawsPerEpisode /\ 0 <= 0 * DrawsPerEpisode + 0
    BY <1>2, <2>1
  <2> QED
    BY <1>1, <2>1, <2>2 DEF DrawsInv, Spent, DrawsAreBounded, DrawsPerEpisode
<1>5. CASE DrawStart \/ DrawYaw \/ DrawGoal
  <2>1. pos' = pos + 1 /\ out' = out /\ count' = count
    BY <1>5 DEF DrawStart, DrawYaw, DrawGoal, Draw, call
  <2>2. pc \in {"start", "yaw", "goal"} /\ Len(out) < count
        /\ pos <= Len(out) * DrawsPerEpisode + Spent
    BY <1>5 DEF DrawStart, DrawYaw, DrawGoal, DrawsInv
  <2>3. /\ pc' \in {"start", "yaw", "goal", "validate"}
        /\ Spent \in Nat /\ Spent' \in Nat /\ Spent + 1 <= Spent' /\ Spent' <= DrawsPerEpisode
    <3>1. CASE DrawStart
      <4>1. pc = "start" /\ tries < Attempts
            /\ ((pc' = "yaw" /\ tries' = 0) \/ (pc' = "start" /\ tries' = tries + 1))
        BY <3>1 DEF DrawStart
      <4> QED BY <1>2, <1>3, <4>1 DEF Spent
    <3>2. CASE DrawYaw
      <4>1. pc = "yaw" /\ pc' = "goal" /\ tries' = tries
        BY <3>2 DEF DrawYaw
      <4> QED BY <1>2, <1>3, <4>1 DEF Spent
    <3>3. CASE DrawGoal
      <4>1. pc = "goal" /\ tries < Attempts
            /\ ((pc' = "validate" /\ tries' = 0) \/ (pc' = "goal" /\ tries' = tries + 1))
        BY <3>3 DEF DrawGoal
      <4>2. Spent = Attempts + 1 + tries
        BY <4>1 DEF Spent
      <4>3. Spent' = DrawsPerEpisode \/ Spent' = Spent + 1
        BY <1>2, <4>1, <4>2 DEF Spent, DrawsPerEpisode
      <4> QED BY <1>2, <4>1, <4>2, <4>3
    <3> QED BY <1>5, <3>1, <3>2, <3>3
  <2>4. pos' <= Len(out') * DrawsPerEpisode' + Spent' /\ Len(out') < count'
    <3>1. Len(out') * DrawsPerEpisode' = Len(out) * DrawsPerEpisode
      BY <2>1 DEF DrawsPerEpisode
    <3> HIDE DEF DrawsPerEpisode
    <3>2. pos + 1 <= Len(out) * DrawsPerEpisode + Spent'
      BY <1>2, <2>2, <2>3
    <3> QED BY <2>1, <2>2, <3>1, <3>2
  <2>5. DrawsAreBounded'
    <3>1. pos' <= Len(out) * DrawsPerEpisode + Spent'
      BY <2>1, <2>4 DEF DrawsPerEpisode
    <3>2. pos' <= count * DrawsPerEpisode
      BY <1>2, <1>3, <2>2, <2>3, <3>1, WithinCount
    <3> QED BY <2>1, <3>2 DEF DrawsAreBounded, DrawsPerEpisode
  <2> QED BY <1>1, <2>4, <2>5 DEF DrawsInv
<1>6. CASE Validate
  <2>1. /\ pc = "validate" /\ pos' = pos /\ count' = count /\ tries' = tries
        /\ pc' \in {"return", "start"} /\ Len(out') = Len(out) + 1
        /\ (pc' = "start" => Len(out) + 1 # count)
    <3>1. pc' # "invalid"
      BY <1>1 DEF IInv, Accepted
    <3> QED BY <1>1, <1>6, <3>1 DEF Validate, call, TypeOK
  <2>2. Len(out) < count /\ pos <= Len(out) * DrawsPerEpisode + DrawsPerEpisode
    BY <2>1 DEF DrawsInv, Spent
  <2>3. Len(out') * DrawsPerEpisode = Len(out) * DrawsPerEpisode + DrawsPerEpisode
    BY <1>2, <2>1, OneMore
  <2>4. DrawsAreBounded'
    BY <2>1 DEF DrawsInv, DrawsAreBounded, DrawsPerEpisode
  <2>5. pc' = "start" => Len(out') < count' /\ pos' <= Len(out') * DrawsPerEpisode + tries'
    BY <1>2, <1>3, <2>1, <2>2, <2>3
  <2> QED
    BY <1>1, <2>1, <2>4, <2>5 DEF DrawsInv, Spent, DrawsPerEpisode
<1>7. CASE Exhausted \/ Return
  <2>1. pc' = "idle" /\ pos' = pos /\ count' = count
    BY <1>7 DEF Exhausted, Return, call
  <2> QED
    BY <1>1, <2>1 DEF DrawsInv, DrawsAreBounded, DrawsPerEpisode
<1>8. CASE UNCHANGED vars
  BY <1>1, <1>8 DEF vars, call, DrawsInv, DrawsAreBounded, DrawsPerEpisode, Spent
<1> QED
  BY <1>4, <1>5, <1>6, <1>7, <1>8 DEF Next, Generate, Enough

(* For every arena, seed, budget and number of episodes, a generation has  *)
(* an end: it reads a bounded number of draws, whatever they are, and each *)
(* of its steps that is not a draw finishes an episode or the generation.  *)
THEOREM DrawsEnd == Spec => []DrawsAreBounded
<1>1. Init => DrawsInv
  <2> SUFFICES ASSUME Init PROVE DrawsInv
    OBVIOUS
  <2>1. IInv /\ pos = 0 /\ count = 0 /\ pc = "idle"
    BY InitInv DEF Init
  <2> QED
    BY <2>1, EvalSetAssumption DEF DrawsInv, DrawsAreBounded, DrawsPerEpisode
<1>2. DrawsInv => DrawsAreBounded
  BY DEF DrawsInv
<1> QED BY <1>1, <1>2, NextDraws, PTL DEF Spec
=============================================================================
