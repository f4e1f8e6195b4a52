--------------------------- MODULE ExpectedProofs ---------------------------
(***************************************************************************)
(* Proofs about Expected, for any types, objects and data.                 *)
(***************************************************************************)
EXTENDS Expected, TLAPS

-----------------------------------------------------------------------------
(* The inductive invariant: flags.                                         *)

\* An object whose flag tells which member is live.
Matches(o) == o.has \in BOOLEAN /\ o.holds = IF o.has THEN "value" ELSE "error"
Fit(o) == o # Null => Matches(o)

Fitting == \A x \in Objs : Fit(obj[x])

TypesOK == T \in ValueTypes /\ E \in ErrorTypes /\ DOMAIN obj = Objs

IInv == TypesOK /\ (Ready => Fitting)

\* What the outcomes of an operation may be: where nothing undefined has happened
\* and the program goes on, objects fit.
Sound(outs) ==
  \A out \in outs : out.end # "terminated" /\ out.harm = {} => Fit(out.o) /\ Fit(out.r)

-----------------------------------------------------------------------------
(* Destructors and objects.                                                *)

\* Values, errors and what has been moved from fit.
LEMMA Fitness ==
  /\ \A d : Fit(Value(d)) /\ Fit(Error(d))
  /\ \A o : Matches(o) => /\ Fit(o) /\ Matches(Lost(o))
                         /\ (o.has => o.holds = "value")
                         /\ (~o.has => o.holds = "error")
  /\ Fit(Null)
BY DEF Fit, Matches, Value, Error, Lost

\* What an rvalue leaves fits, and so does what a failed assignment leaves.
LEMMA LeftFits ==
  ASSUME NEW r, Matches(r)
  PROVE  /\ \A rv : Matches(Left(r, rv)) /\ Fit(Left(r, rv))
         /\ \A s \in Spoilt(r) : Fit(s)
         /\ Fit(r)
<1>1. Matches(Lost(r)) /\ (\A o : Matches(o) => Fit(o))
  BY DEF Fit, Matches, Lost
<1>2. \A rv : Left(r, rv) \in {r, Lost(r)}
  BY DEF Left
<1> QED BY <1>1, <1>2 DEF Spoilt

-----------------------------------------------------------------------------
(* Operations.                                                             *)

\* construct, construct_with and construct_error.
LEMMA ConstructedSound ==
  ASSUME NEW r, Matches(r), NEW rv
  PROVE  \A out \in Constructed(r, rv) :
           out.harm = {} /\ (out.end # "terminated" => Fit(out.o) /\ Fit(out.r))
<1> SUFFICES ASSUME NEW out \in Constructed(r, rv)
             PROVE  out.harm = {} /\ (out.end # "terminated" => Fit(out.o) /\ Fit(out.r))
  OBVIOUS
<1>1. \/ out = Returns(Value(r.data), Left(r, rv)) \/ out = Returns(Error(r.data), Left(r, rv))
      \/ out = Dies(Raw(r), r)
  BY DEF Constructed, If
<1> QED BY <1>1, Fitness, LeftFits DEF Returns, Dies, Outcome

\* The conversion from another expected.
LEMMA ConvertedSound ==
  ASSUME NEW r, Matches(r), NEW rv
  PROVE  Sound(Converted(r, rv))
<1> SUFFICES ASSUME NEW out \in Converted(r, rv), out.end # "terminated"
             PROVE  Fit(out.o) /\ Fit(out.r)
  BY DEF Sound
<1>1. CASE \E c \in Constructed(r, rv) :
             out = Outcome(c.end, c.o, c.r,
                           IF c.end = "returned" THEN Named("value", "leak") ELSE {})
  BY <1>1, ConstructedSound DEF Outcome
<1>2. CASE out = Fails(Null, r)
  BY <1>2, Fitness DEF Fit, Fails, Outcome
<1> QED BY <1>1, <1>2 DEF Converted, If

\* A switch of the member that the flag names does nothing undefined.
LEMMA SwitchesSound ==
  ASSUME NEW o, Matches(o), NEW m, o.has => m = "value", ~o.has => m = "error",
         NEW new, Fit(new), NEW r, Fit(r), NEW out, out = Switches(o, m, new, r)
  PROVE  out.end = "returned" /\ out.harm = {} /\ Fit(out.o) /\ Fit(out.r)
<1>1. o.holds = m
  BY DEF Matches
<1> QED BY <1>1 DEF Switches, Outcome

\* What the assignments have in common, and what their first step may throw.
LEMMA CommonSound ==
  ASSUME NEW o, Matches(o), NEW r, Matches(r), NEW rv,
         NEW out \in assign_common(o, r, rv)
  PROVE  out.end # "terminated" => Fit(out.o) /\ Fit(out.r)
<1>1. CASE o.has /\ r.has
  BY <1>1, Fitness, LeftFits
     DEF assign_common, If, Returns, Fails, Outcome
<1>2. CASE o.has /\ ~r.has
  <2>1. \/ out = Switches(o, "value", Error(r.data), Left(r, rv))
        \/ out = Dies(Raw(o), r)
    BY <1>2 DEF assign_common, If
  <2>2. CASE out = Switches(o, "value", Error(r.data), Left(r, rv))
    <3>1. Fit(Error(r.data)) /\ Fit(Left(r, rv))
      BY Fitness, LeftFits
    <3>2. out.end = "returned" /\ out.harm = {} /\ Fit(out.o) /\ Fit(out.r)
      BY <1>2, <2>2, <3>1, SwitchesSound
    <3> QED BY <3>2
  <2>3. CASE out = Dies(Raw(o), r)
    BY <2>3 DEF Dies, Outcome
  <2> QED BY <2>1, <2>2, <2>3
<1>3. CASE ~o.has /\ r.has
  BY <1>3 DEF Fit, assign_common, Returns, Outcome
<1>4. CASE ~o.has /\ ~r.has
  BY <1>4, Fitness, LeftFits
     DEF assign_common, If, Returns, Fails, Outcome
<1> QED BY <1>1, <1>2, <1>3, <1>4

\* operator= of an error by a value: geterr().~unexpected<E>(), construct.
LEMMA SwitchedSound ==
  ASSUME NEW o, Matches(o), ~o.has, NEW r, Matches(r), NEW rv,
         NEW out \in Switched(o, r, rv)
  PROVE  out.end = "returned" /\ out.harm = {} /\ Fit(out.o) /\ Fit(out.r)
<1>1. out = Switches(o, "error", Value(r.data), Left(r, rv))
  BY DEF Switched
<1>2. Fit(Value(r.data)) /\ Fit(Left(r, rv))
  BY Fitness, LeftFits
<1> QED BY <1>1, <1>2, SwitchesSound

\* What NoExcept makes of outcomes that are sound.
LEMMA NoExceptSound ==
  ASSUME NEW outs, Sound(outs)
  PROVE  Sound(NoExcept(outs))
BY DEF Sound, NoExcept, Outcome

\* Assignment, whichever overload the types choose.
LEMMA AssignSound ==
  ASSUME NEW o, Matches(o), NEW r, Matches(r), NEW rv \in BOOLEAN, TypesOK
  PROVE  Sound(assign(o, r, rv))
<1>1. \A v : Sound(assign_common(o, r, v))
  BY CommonSound DEF Sound
<1>2. ~o.has => \A v : Sound(Switched(o, r, v))
  BY SwitchedSound DEF Sound
<1>3. /\ Sound({Fails(o, r)}) /\ Sound({Dies(Raw(o), r)}) /\ Sound({Returns(o, r)})
      /\ \A can : Sound(If(can, {Fails(o, r)}))
  BY DEF Fit, Sound, If, Fails, Dies, Returns, Outcome
<1>4. \A outs, more : Sound(outs) /\ Sound(more) => Sound(outs \cup more)
  BY DEF Sound
<1>5. Sound(assign_void(o, r, rv))
  <2> DEFINE outs == CASE o.has /\ r.has -> {Returns(o, r)}
                       [] ~o.has /\ r.has -> Switched(o, r, FALSE)
                       [] ~r.has -> assign_common(o, r, rv)
  <2>1. o.has \in BOOLEAN /\ r.has \in BOOLEAN
    BY DEF Matches
  <2>2. Sound(outs)
    BY <1>1, <1>2, <1>3, <2>1
  <2> HIDE DEF outs
  <2>3. Sound(NoExcept(outs))
    BY <2>2, NoExceptSound
  <2> QED BY <2>3 DEF assign_void, outs
<1>6. Sound(assign_nothrow_copy(o, r)) /\ Sound(assign_through_copy(o, r))
  <2>1. ~o.has => Sound(Switched(o, r, FALSE) \cup {Fails(o, r)})
    BY <1>2, <1>3, <1>4
  <2> QED BY <1>1, <1>2, <2>1, NoExceptSound DEF assign_nothrow_copy, assign_through_copy
<1>7. Sound(assign_nothrow_move(o, r))
  BY <1>1, <1>2, NoExceptSound DEF assign_nothrow_move
<1>8. Sound(assign_worst_case(o, r)) /\ Sound(assign_throwing_move(o, r))
  BY <1>1, <1>2, <1>3, <1>4 DEF assign_worst_case, assign_throwing_move
<1>9. T.void \in BOOLEAN
  BY ExpectedAssumption DEF TypesOK
<1> QED BY <1>5, <1>6, <1>7, <1>8, <1>9 DEF assign

\* A value or an error put over an error, by operator=(U&&) and emplace.
LEMMA OverErrorSound ==
  ASSUME NEW o, Matches(o), ~o.has, NEW d
  PROVE  Sound(OverError(o, d))
<1>1. ASSUME NEW out \in OverError(o, d)
      PROVE  \/ out = Switches(o, "error", Value(d), Null)
             \/ out = Outcome("threw", o, Null, Named("error", "dead"))
  BY <1>1 DEF OverError, SetValue, If
<1>2. ASSUME NEW out, out = Switches(o, "error", Value(d), Null)
      PROVE  out.end = "returned" /\ out.harm = {} /\ Fit(out.o) /\ Fit(out.r)
  <2>1. Fit(Value(d)) /\ Fit(Null)
    BY Fitness
  <2> QED BY <1>2, <2>1, SwitchesSound
<1>3. ASSUME NEW out, out = Outcome("threw", o, Null, Named("error", "dead"))
      PROVE  Fit(out.o) /\ Fit(out.r)
  BY <1>3, Fitness DEF Fit, Outcome
<1> QED BY <1>1, <1>2, <1>3 DEF Sound

\* Assignment of a value or an error, and emplace.
LEMMA SetSound ==
  ASSUME TypesOK, NEW o, Matches(o), NEW d
  PROVE  /\ Sound(assign_value(o, d))
         /\ Sound(emplace(o, d))
         /\ Sound(assign_unexpected(o, d))
<1> DEFINE Plain(outs) == \A out \in outs : /\ out.end # "terminated" /\ out.harm = {}
                                           /\ Fit(out.o) /\ Fit(out.r)
<1>1. Fit(Value(d)) /\ Fit(Error(d)) /\ Fit(Null) /\ \A s \in Spoilt(o) : Fit(s)
  BY Fitness, LeftFits
<1>2. /\ Plain({Returns(Value(d), Null)}) /\ Plain({Returns(Error(d), Null)})
      /\ \A can : /\ Plain(If(can, {Fails(s, Null) : s \in Spoilt(o)}))
                  /\ Plain(If(can, {Fails(o, Null)}))
  BY <1>1 DEF Fit, Returns, Fails, Outcome, If
<1>3. \A outs : Plain(outs) => Sound(outs)
  BY DEF Sound
<1>4. \A outs, more : Sound(outs) /\ Sound(more) => Sound(outs \cup more)
  BY DEF Sound
<1>5. \A outs, more : Plain(outs) /\ Plain(more) => Plain(outs \cup more)
  OBVIOUS
<1>6. Plain({})
  OBVIOUS
<1> HIDE DEF Plain
<1>7. ~o.has => Sound(OverError(o, d))
  BY OverErrorSound
<1>8. Sound(assign_value(o, d))
  BY <1>2, <1>3, <1>5, <1>7 DEF assign_value
<1>9. Sound(emplace(o, d))
  BY <1>2, <1>3, <1>4, <1>5, <1>6, <1>7 DEF emplace
<1>10. Sound(assign_unexpected(o, d))
  <2>1. CASE o.has
    <3>1. ASSUME NEW out, out = Switches(o, "value", Error(d), Null)
          PROVE  out.end # "terminated" /\ out.harm = {} /\ Fit(out.o) /\ Fit(out.r)
      BY <1>1, <2>1, <3>1, SwitchesSound
    <3>2. Plain({Switches(o, "value", Error(d), Null)})
      BY <3>1 DEF Plain
    <3> QED BY <1>3, <2>1, <3>2 DEF assign_unexpected
  <2>2. CASE ~o.has
    BY <1>2, <1>3, <2>2 DEF assign_unexpected
  <2> QED BY <2>1, <2>2
<1> QED BY <1>8, <1>9, <1>10

\* A swap of a value and an error.
LEMMA SwapOneSound ==
  ASSUME NEW o, Matches(o), o.has, NEW r, Matches(r)
  PROVE  Sound(swap_one(o, r))
<1>1. ASSUME NEW out \in swap_one(o, r)
      PROVE  \/ out = Switches(o, "value", Error(r.data), Value(o.data))
             \/ \E m : out = Outcome("threw", o, r, Named(m, "dead"))
  BY <1>1 DEF swap_one, swap_nothrow, swap_error_throws, swap_value_throws, If
<1>2. Fit(Error(r.data)) /\ Fit(Value(o.data))
  BY Fitness
<1>3. ASSUME NEW out, out = Switches(o, "value", Error(r.data), Value(o.data))
      PROVE  Fit(out.o) /\ Fit(out.r)
  BY <1>2, <1>3, SwitchesSound
<1>4. ASSUME NEW out, NEW m, out = Outcome("threw", o, r, Named(m, "dead"))
      PROVE  Fit(out.o) /\ Fit(out.r)
  BY <1>4 DEF Fit, Outcome
<1> QED BY <1>1, <1>3, <1>4 DEF Sound

\* swap.
LEMMA SwapSound ==
  ASSUME TypesOK, NEW o, Matches(o), NEW r, Matches(r)
  PROVE  Sound(swap(o, r))
<1>1. CASE o.has = r.has
  <2>1. (\A s \in Spoilt(o) : Fit(s)) /\ (\A q \in Spoilt(r) : Fit(q))
    BY LeftFits
  <2>2. ASSUME NEW out \in swap_same(o, r)
        PROVE  out.end # "terminated" /\ out.harm = {} /\ Fit(out.o) /\ Fit(out.r)
    BY <2>1, <2>2 DEF Fit, swap_same, If, SwapsOf, Returns, Fails, Outcome
  <2>3. Sound(swap_same(o, r))
    BY <2>2 DEF Sound
  <2> QED BY <1>1, <2>3 DEF swap
<1>2. CASE ~o.has /\ r.has
  <2>1. Sound(swap_one(r, o))
    BY <1>2, SwapOneSound
  <2>2. Sound(Turned(swap_one(r, o)))
    <3> DEFINE outs == swap_one(r, o)
    <3> HIDE DEF outs
    <3>1. Sound(outs) => Sound(Turned(outs))
      BY DEF Sound, Turned, Outcome
    <3> QED BY <2>1, <3>1 DEF outs
  <2> QED BY <1>2, <2>2 DEF swap
<1>3. CASE o.has /\ ~r.has
  BY <1>3, SwapOneSound DEF swap
<1>4. o.has \in BOOLEAN /\ r.has \in BOOLEAN
  BY DEF Matches
<1> QED BY <1>1, <1>2, <1>3, <1>4

\* What is made of another object: by a function, or passed on.
LEMMA DerivedSound ==
  ASSUME NEW r, Matches(r), NEW rv
  PROVE  /\ \A alternatives : Sound(Applied(r, rv, alternatives))
         /\ \A can : Sound(Passed(r, rv, can))
<1> DEFINE Plain(outs) == \A out \in outs : /\ out.end # "terminated" /\ out.harm = {}
                                           /\ Fit(out.o) /\ Fit(out.r)
<1>1. \A outs : Plain(outs) => Sound(outs)
  BY DEF Sound
<1>2. (\A q \in Used(r, rv) : Fit(q)) /\ Fit(Left(r, rv)) /\ Fit(Null)
  BY Fitness, LeftFits DEF Used
<1>3. \A alternatives : \A n \in Given(alternatives) : Fit(n)
  BY Fitness DEF Given
<1>4. \A alternatives : Plain(Applied(r, rv, alternatives))
  BY <1>2, <1>3 DEF Applied, Returns, Fails, Outcome
<1>5. \A can : Plain(Passed(r, rv, can))
  BY <1>2 DEF Fit, Passed, If, Returns, Fails, Outcome
<1> HIDE DEF Plain
<1> QED BY <1>1, <1>4, <1>5

\* The monadic operations.
LEMMA MonadicSound ==
  ASSUME NEW r, Matches(r), NEW rv
  PROVE  /\ Sound(and_then_impl(r, rv))
         /\ Sound(expected_map_impl(r, rv))
         /\ Sound(map_error_impl(r, rv))
         /\ Sound(or_else_impl(r, rv))
<1>1. /\ \A alternatives : Sound(Applied(r, rv, alternatives))
      /\ \A can : Sound(Passed(r, rv, can))
  BY DerivedSound
<1>2. \A q \in Used(r, rv) : Matches(q) => Sound(Constructed(q, rv))
  BY ConstructedSound DEF Sound
<1>3. Sound(Constructed(r, rv))
  BY ConstructedSound DEF Sound
<1>4. \A q \in Used(r, rv) : Matches(q)
  BY LeftFits DEF Used
<1>5. Sound(UNION {Constructed(q, rv) : q \in Used(r, rv)})
  BY <1>2, <1>4 DEF Sound
<1>6. \A outs, more : Sound(outs) /\ Sound(more) => Sound(outs \cup more)
  BY DEF Sound
<1>7. Sound(and_then_impl(r, rv)) /\ Sound(expected_map_impl(r, rv))
  BY <1>1 DEF and_then_impl, expected_map_impl
<1>8. Sound(map_error_impl(r, rv))
  BY <1>1 DEF map_error_impl
<1>9. Sound(or_else_impl(r, rv))
  BY <1>1, <1>3, <1>5, <1>6 DEF or_else_impl
<1> QED BY <1>7, <1>8, <1>9

-----------------------------------------------------------------------------
(* Steps.                                                                  *)

\* An outcome of a sound operation, whichever objects it goes to.
LEMMA EndsKeeps ==
  ASSUME IInv, Ready, NEW op, NEW x, NEW y, NEW arg, NEW outs, NEW out \in outs,
         Sound(outs), Ends(op, x, y, arg, out), DOMAIN obj' = Objs,
         \A z \in Objs : obj'[z] \in {obj[z], out.o, out.r}
  PROVE  IInv'
<1>1. call'.op = op /\ call'.end = out.end /\ harm' = out.harm /\ T' = T /\ E' = E
  BY DEF Ends
<1>2. TypesOK'
  BY <1>1 DEF IInv, TypesOK
<1>3. (Ready => Fitting)'
  BY <1>1 DEF IInv, Ready, Fitting, Sound
<1> QED BY <1>2, <1>3 DEF IInv

\* An operation on one object.
LEMMA OnKeeps ==
  ASSUME IInv, Ready, NEW op, NEW x \in Objs, NEW arg, NEW outs, Sound(outs),
         On(op, x, arg, outs)
  PROVE  IInv'
<1>1. PICK out \in outs : obj' = [obj EXCEPT ![x] = out.o] /\ Ends(op, x, x, arg, out)
  BY DEF On
<1>2. DOMAIN obj' = Objs /\ \A z \in Objs : obj'[z] \in {obj[z], out.o, out.r}
  BY <1>1 DEF IInv, TypesOK
<1> QED BY <1>1, <1>2, EndsKeeps

\* An operation on one object with another.
LEMMA WithKeeps ==
  ASSUME IInv, Ready, NEW op, NEW x \in Objs, NEW y \in Objs, NEW outs, Sound(outs),
         With(op, x, y, outs)
  PROVE  IInv'
<1>1. PICK out \in outs : /\ obj' = [obj EXCEPT ![x] = out.o, ![y] = out.r]
                          /\ Ends(op, x, y, Null, out)
  BY DEF With
<1>2. DOMAIN obj' = Objs /\ \A z \in Objs : obj'[z] \in {obj[z], out.o, out.r}
  BY <1>1 DEF IInv, TypesOK
<1> QED BY <1>1, <1>2, EndsKeeps

\* An observer, which may use up what it is called on.
LEMMA SeesKeeps ==
  ASSUME IInv, Ready, NEW op, NEW x, NEW y, NEW arg, NEW end \in {"returned", "threw"}, NEW got,
         Sees(op, x, y, arg, end, got), DOMAIN obj' = Objs,
         \A z \in Objs : obj'[z] = obj[z] \/ Fit(obj'[z])
  PROVE  IInv'
<1>1. call'.end = end /\ harm' = {} /\ T' = T /\ E' = E
  BY DEF Sees, Ready
<1>2. TypesOK'
  BY <1>1 DEF IInv, TypesOK
<1>3. Fitting'
  BY DEF IInv, Fitting
<1> QED BY <1>2, <1>3 DEF IInv

\* Objects that exist match.
LEMMA ExistingMatch ==
  ASSUME IInv, Ready, NEW x \in Objs, Exists(x)
  PROVE  Matches(obj[x])
BY DEF IInv, Fitting, Fit, Exists

\* The invariant holds at the start.
LEMMA InitKeeps == Init => IInv
BY DEF Init, IInv, TypesOK, Ready, Fitting, Fit

\* An operation that makes a new object of another one.
LEMMA DeriveKeeps ==
  ASSUME IInv, NEW x \in Objs, NEW y \in Objs,
         and_then(x, y) \/ map(x, y) \/ map_error(x, y) \/ or_else(x, y)
  PROVE  IInv'
<1>1. Ready /\ Exists(y)
  BY DEF and_then, map, map_error, or_else, Derive
<1>2. Matches(obj[y])
  BY <1>1, ExistingMatch
<1>3. \A rv : /\ Sound(and_then_impl(obj[y], rv))
              /\ Sound(expected_map_impl(obj[y], rv))
              /\ Sound(map_error_impl(obj[y], rv))
              /\ Sound(or_else_impl(obj[y], rv))
  BY <1>2, MonadicSound
<1>4. CASE and_then(x, y)
  BY <1>1, <1>3, <1>4, WithKeeps DEF and_then, Derive
<1>5. CASE map(x, y)
  BY <1>1, <1>3, <1>5, WithKeeps DEF map, Derive
<1>6. CASE map_error(x, y)
  BY <1>1, <1>3, <1>6, WithKeeps DEF map_error, Derive
<1>7. CASE or_else(x, y)
  BY <1>1, <1>3, <1>7, WithKeeps DEF or_else, Derive
<1> QED BY <1>4, <1>5, <1>6, <1>7

\* The invariant holds throughout: one step for each operation.
LEMMA StepKeeps == IInv /\ [Next]_vars => IInv'
<1> SUFFICES ASSUME IInv, [Next]_vars PROVE IInv'
  OBVIOUS
<1>t. TypesOK
  BY DEF IInv
<1>f. Fit(Null) /\ (\A d : Fit(Value(d)) /\ Fit(Error(d)))
  BY Fitness
<1>1. ASSUME NEW x \in Objs, Make(x) PROVE IInv'
  <2>1. \A d : Sound(InPlace(d)) /\ Sound(FromUnexpected(d))
    BY <1>f DEF Sound, InPlace, FromUnexpected, If, Returns, Fails, Outcome
  <2> QED BY <1>1, <2>1, OnKeeps DEF Make
<1>2. ASSUME NEW x \in Objs, Default(x) PROVE IInv'
  <2>1. Sound(DefaultConstructed)
    BY <1>f DEF Sound, DefaultConstructed, If, Returns, Fails, Outcome
  <2>2. PICK out \in DefaultConstructed :
          /\ obj' = [obj EXCEPT ![x] = out.o]
          /\ Ends("make", x, x, IF out.o = Null THEN Null ELSE AsValue(out.o.data), out)
    BY <1>2 DEF Default
  <2>3. DOMAIN obj' = Objs /\ \A z \in Objs : obj'[z] \in {obj[z], out.o, out.r}
    BY <1>t, <2>2 DEF TypesOK
  <2>4. Ready
    BY <1>2 DEF Default
  <2> QED BY <2>1, <2>2, <2>3, <2>4, EndsKeeps
<1>3. ASSUME NEW x \in Objs, NEW y \in Objs, Construct(x, y) PROVE IInv'
  <2>1. Ready /\ Matches(obj[y])
    BY <1>3, ExistingMatch DEF Construct
  <2>2. /\ Sound(expected_copy_base(obj[y]))
        /\ Sound(expected_move_base(obj[y]))
    BY <2>1, ConstructedSound DEF Sound, expected_copy_base, expected_move_base
  <2> QED BY <1>3, <2>1, <2>2, WithKeeps DEF Construct
<1>4. ASSUME NEW x \in Objs, NEW y \in Objs, Convert(x, y) PROVE IInv'
  <2>1. Ready /\ Matches(obj[y])
    BY <1>4, ExistingMatch DEF Convert
  <2>2. Sound(Converted(obj[y], FALSE)) /\ Sound(Converted(obj[y], TRUE))
    BY <1>t, <2>1, ConvertedSound
  <2> QED BY <1>4, <2>1, <2>2, WithKeeps DEF Convert
<1>5. ASSUME NEW x \in Objs, NEW y \in Objs, Assign(x, y) PROVE IInv'
  <2>1. Ready /\ Matches(obj[x]) /\ Matches(obj[y])
    BY <1>5, ExistingMatch DEF Assign
  <2>2. /\ EnableCopy => Sound(assign(obj[x], obj[y], FALSE))
        /\ EnableMove => Sound(assign(obj[x], obj[y], TRUE))
    BY <1>t, <2>1, AssignSound
  <2> QED BY <1>5, <2>1, <2>2, WithKeeps DEF Assign
<1>6. ASSUME NEW x \in Objs, Set(x) PROVE IInv'
  <2>1. Ready /\ Matches(obj[x])
    BY <1>6, ExistingMatch DEF Set
  <2>2. \A d : /\ Sound(assign_value(obj[x], d))
               /\ Sound(emplace(obj[x], d))
               /\ Sound(assign_unexpected(obj[x], d))
    BY <1>t, <2>1, SetSound
  <2> QED BY <1>6, <2>1, <2>2, OnKeeps DEF Set
<1>7. ASSUME NEW x \in Objs, NEW y \in Objs, Swap(x, y) PROVE IInv'
  <2>1. Ready /\ Matches(obj[x]) /\ Matches(obj[y])
    BY <1>7, ExistingMatch DEF Swap
  <2>2. Sound(swap(obj[x], obj[y]))
    BY <1>t, <2>1, SwapSound
  <2> QED BY <1>7, <2>1, <2>2, WithKeeps DEF Swap
<1>8. ASSUME NEW x \in Objs, Destroy(x) PROVE IInv'
  <2>1. Ready /\ Matches(obj[x])
    BY <1>8, ExistingMatch DEF Destroy
  <2> DEFINE m == IF obj[x].has THEN "value" ELSE "error"
  <2>2. (obj[x].has => m = "value") /\ (~obj[x].has => m = "error")
    OBVIOUS
  <2> HIDE DEF m
  <2>3. ASSUME NEW out, out = Switches(obj[x], m, Null, Null)
        PROVE  out.end = "returned" /\ out.harm = {} /\ Fit(out.o) /\ Fit(out.r)
    BY <1>f, <2>1, <2>2, <2>3, SwitchesSound
  <2>4. Sound({Switches(obj[x], m, Null, Null)})
    BY <2>3 DEF Sound
  <2> QED BY <1>8, <2>1, <2>4, OnKeeps DEF Destroy, m
<1>9. ASSUME NEW x \in Objs, value(x) \/ value_or(x) PROVE IInv'
  <2>1. Ready /\ Matches(obj[x])
    BY <1>9, ExistingMatch DEF value, value_or
  <2>2. \A rv : Fit(Left(obj[x], rv))
    BY <2>1, LeftFits
  <2>3. \A rv : obj' = [obj EXCEPT ![x] = Left(@, rv)]
                => DOMAIN obj' = Objs /\ \A z \in Objs : obj'[z] = obj[z] \/ Fit(obj'[z])
    BY <1>t, <2>2 DEF TypesOK
  <2>4. UNCHANGED obj
        => DOMAIN obj' = Objs /\ \A z \in Objs : obj'[z] = obj[z] \/ Fit(obj'[z])
    BY <1>t DEF TypesOK
  <2>5. CASE value(x)
    BY <2>1, <2>3, <2>5, SeesKeeps DEF value
  <2>6. CASE value_or(x)
    BY <2>1, <2>3, <2>4, <2>6, SeesKeeps DEF value_or
  <2> QED BY <1>9, <2>5, <2>6
<1>10. ASSUME NEW x \in Objs, NEW y \in Objs, Compare(x, y) PROVE IInv'
  <2>1. DOMAIN obj' = Objs /\ \A z \in Objs : obj'[z] = obj[z] \/ Fit(obj'[z])
    BY <1>t, <1>10 DEF TypesOK, Compare
  <2> QED BY <1>10, <2>1, SeesKeeps DEF Compare
<1>11. ASSUME NEW x \in Objs, NEW y \in Objs,
              and_then(x, y) \/ map(x, y) \/ map_error(x, y) \/ or_else(x, y)
       PROVE  IInv'
  BY <1>11, DeriveKeeps
<1>12. CASE UNCHANGED vars
  BY <1>12 DEF vars, IInv, TypesOK, Ready, Fitting, Fit, Matches
<1> QED BY <1>1, <1>2, <1>3, <1>4, <1>5, <1>6, <1>7, <1>8, <1>9, <1>10, <1>11, <1>12 DEF Next

-----------------------------------------------------------------------------
(* Theorems.                                                               *)

\* The inductive invariant.
THEOREM Invariance == Spec => []IInv
BY InitKeeps, StepKeeps, PTL DEF Spec

\* Whatever types and operations, in whatever order and whatever throws: while
\* nothing undefined has happened, m_has_val tells which member is live.
THEOREM FlagIsRight == Spec => []FlagMatchesMember
<1>1. IInv => FlagMatchesMember
  BY DEF IInv, Fitting, Fit, Matches, FlagMatchesMember, Exists
<1> QED BY <1>1, Invariance, PTL

-----------------------------------------------------------------------------
(* Seen from outside, an object is a value or an error that changes as a   *)
(* whole.                                                                  *)

\* What IInv leaves open: an object is an object, and void has no data.
Stored(o) == o # Null => o \in Storage /\ (T.void /\ o.has => o.data = Null)
Keeping == \A x \in Objs : Stored(obj[x])

\* The data of o may be lost.
Fades(o, n) == n = o \/ (o # Null /\ ~(T.void /\ o.has) /\ n = Lost(o))

\* An object between two operations.
Good(o) == o # Null /\ Matches(o) /\ Stored(o)

\* Nothing undefined has happened, and the program goes on.
Fine(out) == out.end # "terminated" /\ out.harm = {}

\* What construction and assignment from an object r make of o.
Transfers(o, r, rv, out) ==
  /\ out.end \in {"returned", "threw"}
  /\ out.end = "returned" => out.o = r /\ Fades(r, out.r) /\ (~rv => out.r = r)
  /\ out.end = "threw" => /\ Fades(o, out.o) /\ out.r = r
                          /\ o # Null /\ o.has # r.has => out.o = o

\* What construction and assignment from an argument n make of o.
SetsTo(o, n, out) ==
  /\ out.end \in {"returned", "threw"}
  /\ out.end = "returned" => out.o = n
  /\ out.end = "threw" => /\ Fades(o, out.o)
                          /\ o # Null /\ n.has # o.has => out.o = o

Exchanges(o, r, out) ==
  /\ out.end \in {"returned", "threw"}
  /\ out.end = "returned" => out.o = r /\ out.r = o
  /\ out.end = "threw" => /\ Fades(o, out.o) /\ Fades(r, out.r)
                          /\ o.has # r.has => out.o = o /\ out.r = r

\* What is made of r: where r has what the function sees, one of what it gives.
MadeOf(r, sees, gives, out) ==
  /\ out.end \in {"returned", "threw"}
  /\ Fades(r, out.r)
  /\ out.end = "returned" => IF r.has = sees THEN Good(out.o) /\ out.o.has \in gives
                                             ELSE out.o = r
  /\ out.end = "threw" => out.o = Null

-----------------------------------------------------------------------------
(* What the overloads do when nothing undefined happens.                   *)

\* A value is rebuilt from its data, and so is an error.
LEMMA Rebuilt ==
  ASSUME NEW r, Good(r)
  PROVE  (r.has => Value(r.data) = r) /\ (~r.has => Error(r.data) = r)
BY DEF Good, Matches, Stored, Storage, Value, Error

\* New values and errors are good.
LEMMA NewIsGood ==
  ASSUME NEW d \in Data
  PROVE  /\ Good(Error(d))
         /\ Good(Value(IF T.void THEN Null ELSE d))
         /\ ~T.void => Good(Value(d))
<1>1. Error(d) \in Storage /\ Value(IF T.void THEN Null ELSE d) \in Storage
      /\ Value(d) \in Storage
  BY DEF Error, Value, Storage
<1>2. Null \notin Storage
  BY NullAssumption
<1> QED BY <1>1, <1>2 DEF Good, Matches, Stored, Error, Value

\* What an rvalue leaves, and what an assignment that throws may leave.
LEMMA LeftFades ==
  ASSUME NEW r, Good(r)
  PROVE  /\ \A rv : Fades(r, Left(r, rv))
         /\ Left(r, FALSE) = r
         /\ Fades(r, r)
         /\ ~(T.void /\ r.has) => \A s \in Spoilt(r) : Fades(r, s)
<1>1. T.void /\ r.has => r.holds \notin Destructible
  BY DEF Good, Matches, Destructible, Void, VoidErrorTrivial
<1> QED BY <1>1 DEF Good, Fades, Left, Spoilt

\* Data that were lost are still stored.
LEMMA FadedIsStored ==
  ASSUME NEW o, Stored(o), NEW n, Fades(o, n), o # Null => Matches(o)
  PROVE  Stored(n)
<1>1. CASE n = o
  BY <1>1
<1>2. CASE o # Null /\ ~(T.void /\ o.has) /\ n = Lost(o)
  <2>1. Lost(o) \in Storage /\ Lost(o).has = o.has
    BY <1>2 DEF Stored, Lost, Storage
  <2> QED BY <1>2, <2>1 DEF Stored
<1> QED BY <1>1, <1>2 DEF Fades

\* Construction from an object: construct, construct_with, construct_error.
LEMMA ConstructedTransfers ==
  ASSUME NEW r, Good(r), NEW rv \in BOOLEAN, NEW out \in Constructed(r, rv), Fine(out)
  PROVE  out.end = "returned" /\ out.o = r /\ Fades(r, out.r) /\ (~rv => out.r = r)
<1>1. \/ r.has /\ out = Returns(Value(r.data), Left(r, rv))
      \/ ~r.has /\ out = Returns(Error(r.data), Left(r, rv))
      \/ out.end = "terminated"
  BY DEF Constructed, If, Dies, Outcome
<1>2. /\ (r.has => Value(r.data) = r) /\ (~r.has => Error(r.data) = r)
      /\ Fades(r, Left(r, rv)) /\ (~rv => Left(r, rv) = r)
  BY Rebuilt, LeftFades
<1>3. out = Returns(r, Left(r, rv))
  BY <1>1, <1>2 DEF Fine
<1> QED BY <1>2, <1>3 DEF Returns, Outcome

\* The conversion, where it does no harm.
LEMMA ConvertedTransfers ==
  ASSUME NEW r, Good(r), NEW rv \in BOOLEAN, NEW out \in Converted(r, rv), Fine(out)
  PROVE  Transfers(Null, r, rv, out)
<1>1. CASE \E c \in Constructed(r, rv) :
             out = Outcome(c.end, c.o, c.r,
                           IF c.end = "returned" THEN Named("value", "leak") ELSE {})
  <2>1. PICK c \in Constructed(r, rv) :
               out = Outcome(c.end, c.o, c.r,
                             IF c.end = "returned" THEN Named("value", "leak") ELSE {})
    BY <1>1
  <2>2. out.end = c.end /\ out.o = c.o /\ out.r = c.r
    BY <2>1 DEF Outcome
  <2>3. c.harm = {}
    BY DEF Constructed, If, Returns, Dies, Outcome
  <2>4. Fine(c)
    BY <2>2, <2>3 DEF Fine
  <2> QED BY <2>2, <2>4, ConstructedTransfers DEF Transfers
<1>2. CASE out = Fails(Null, r)
  BY <1>2 DEF Fails, Outcome, Transfers, Fades
<1> QED BY <1>1, <1>2 DEF Converted, If

\* What the assignments have in common, but for a value over an error.
LEMMA CommonTransfers ==
  ASSUME NEW o, Good(o), NEW r, Good(r), NEW rv \in BOOLEAN,
         NEW out \in assign_common(o, r, rv), Fine(out),
         o.has \/ ~r.has, T.void => ~r.has
  PROVE  Transfers(o, r, rv, out)
<1>0. /\ r.has => Value(r.data) = r
      /\ ~r.has => Error(r.data) = r
      /\ Fades(r, Left(r, rv)) /\ (~rv => Left(r, rv) = r)
      /\ o.has \in BOOLEAN /\ r.has \in BOOLEAN
  BY Rebuilt, LeftFades DEF Good, Matches
<1>1. CASE o.has = r.has
  <2>1. \/ out = Returns(r, Left(r, rv))
        \/ \E s \in Spoilt(o) : out = Fails(s, r)
    BY <1>0, <1>1 DEF assign_common, If
  <2>2. \A s \in Spoilt(o) : Fades(o, s)
    BY <1>1, LeftFades
  <2> QED BY <1>0, <1>1, <2>1, <2>2 DEF Returns, Fails, Outcome, Transfers
<1>2. CASE o.has /\ ~r.has
  <2>1. \/ out = Switches(o, "value", r, Left(r, rv))
        \/ out = Dies(Raw(o), r)
    BY <1>0, <1>2 DEF assign_common, If
  <2>2. out = Switches(o, "value", r, Left(r, rv))
    BY <2>1 DEF Dies, Outcome, Fine
  <2> QED BY <1>0, <2>2 DEF Switches, Outcome, Transfers
<1> QED BY <1>0, <1>1, <1>2

\* A value over an error, and what may throw before anything has changed.
LEMMA SwitchedTransfers ==
  ASSUME NEW o, Good(o), NEW r, Good(r), r.has, NEW rv \in BOOLEAN, NEW out
  PROVE  /\ out \in Switched(o, r, rv) => Transfers(o, r, rv, out)
         /\ out = Fails(o, r) => Transfers(o, r, rv, out)
<1>1. /\ Value(r.data) = r
      /\ Fades(r, Left(r, rv)) /\ (~rv => Left(r, rv) = r)
  BY Rebuilt, LeftFades
<1>2. ASSUME out \in Switched(o, r, rv) PROVE Transfers(o, r, rv, out)
  <2>1. out.end = "returned" /\ out.o = r /\ out.r = Left(r, rv)
    BY <1>1, <1>2 DEF Switched, Switches, Outcome
  <2> QED BY <1>1, <2>1 DEF Transfers
<1>3. ASSUME out = Fails(o, r) PROVE Transfers(o, r, rv, out)
  BY <1>3 DEF Fails, Outcome, Transfers, Fades
<1> QED BY <1>2, <1>3

\* Assignment, whichever overload the types choose.
LEMMA AssignTransfers ==
  ASSUME TypesOK, NEW o, Good(o), NEW r, Good(r), NEW rv \in BOOLEAN,
         NEW out \in assign(o, r, rv), Fine(out)
  PROVE  Transfers(o, r, rv, out)
<1> DEFINE Does(v, outs) == \A c \in outs : Fine(c) => Transfers(o, r, v, c)
<1>1. ASSUME NEW v \in BOOLEAN, o.has \/ ~r.has, T.void => ~r.has
      PROVE  Does(v, assign_common(o, r, v))
  BY <1>1, CommonTransfers
<1>2. ASSUME NEW v \in BOOLEAN, ~o.has /\ r.has
      PROVE  /\ Does(v, Switched(o, r, v))
             /\ Does(v, {Fails(o, r)}) /\ Does(v, {Dies(Raw(o), r)})
  <2>1. Does(v, Switched(o, r, v)) /\ Does(v, {Fails(o, r)})
    BY <1>2, SwitchedTransfers
  <2>2. Does(v, {Dies(Raw(o), r)})
    BY DEF Dies, Outcome, Fine
  <2> QED BY <2>1, <2>2
<1>3. ASSUME NEW v, NEW outs, Does(v, outs) PROVE Does(v, NoExcept(outs))
  <2> SUFFICES ASSUME NEW c \in outs, NEW d, Fine(d),
                      d = Outcome(IF c.end = "threw" THEN "terminated" ELSE c.end, c.o, c.r, c.harm)
               PROVE  Transfers(o, r, v, d)
    BY DEF NoExcept
  <2>1. d.end = c.end /\ d.o = c.o /\ d.r = c.r /\ d.harm = c.harm /\ c.end # "threw"
    BY DEF Outcome, Fine
  <2>2. Transfers(o, r, v, c)
    BY <1>3, <2>1 DEF Fine
  <2> QED BY <2>1, <2>2 DEF Transfers
<1>4. ASSUME NEW v, NEW outs, NEW more, Does(v, outs), Does(v, more)
      PROVE  Does(v, outs \cup more) /\ \A can : Does(v, If(can, outs))
  BY <1>4 DEF If
<1>5. T.void \in BOOLEAN /\ o.has \in BOOLEAN /\ r.has \in BOOLEAN
  BY ExpectedAssumption DEF TypesOK, Good, Matches
<1>6. T.void /\ o.has /\ r.has => o = r
  BY DEF Good, Matches, Stored, Storage
<1>7. T.void /\ r.has => Left(r, rv) = r
  BY DEF Good, Matches, Left, Destructible, Void, VoidErrorTrivial
<1>8. CASE T.void
  <2>1. CASE o.has /\ r.has
    <3>1. Does(rv, {Returns(o, r)})
      BY <1>6, <1>8, <2>1 DEF Returns, Outcome, Transfers, Fades
    <3>2. assign(o, r, rv) = NoExcept({Returns(o, r)})
      BY <1>8, <2>1 DEF assign, assign_void
    <3> HIDE DEF Does
    <3>3. Does(rv, assign(o, r, rv))
      BY <1>3, <3>1, <3>2
    <3> QED BY <3>3 DEF Does
  <2>2. CASE ~o.has /\ r.has
    <3>1. Left(r, FALSE) = r
      BY LeftFades
    <3>2. Switched(o, r, FALSE) = Switched(o, r, rv)
      BY <1>7, <1>8, <2>2, <3>1 DEF Switched
    <3>3. Does(rv, Switched(o, r, rv))
      BY <1>2, <2>2
    <3>4. assign(o, r, rv) = NoExcept(Switched(o, r, FALSE))
      BY <1>8, <2>2 DEF assign, assign_void
    <3> HIDE DEF Does
    <3>5. Does(rv, assign(o, r, rv))
      BY <1>3, <3>2, <3>3, <3>4
    <3> QED BY <3>5 DEF Does
  <2>3. CASE ~r.has
    <3>1. Does(rv, assign_common(o, r, rv))
      BY <1>1, <2>3
    <3>2. assign(o, r, rv) = NoExcept(assign_common(o, r, rv))
      BY <1>8, <2>3 DEF assign, assign_void
    <3> HIDE DEF Does
    <3>3. Does(rv, assign(o, r, rv))
      BY <1>3, <3>1, <3>2
    <3> QED BY <3>3 DEF Does
  <2> QED BY <1>5, <2>1, <2>2, <2>3
<1>9. CASE ~T.void
  <2>1. \/ /\ ~rv
           /\ assign(o, r, rv) \in {assign_nothrow_copy(o, r), assign_through_copy(o, r),
                                    assign_worst_case(o, r)}
        \/ /\ rv
           /\ assign(o, r, rv) \in {assign_nothrow_move(o, r), assign_throwing_move(o, r)}
    BY <1>9 DEF assign
  <2>2. CASE ~o.has /\ r.has
    <3>1. /\ Does(rv, Switched(o, r, rv)) /\ Does(rv, {Fails(o, r)})
          /\ Does(rv, {Dies(Raw(o), r)})
      BY <1>2, <2>2
    <3> HIDE DEF Does
    <3>2. \A can : Does(rv, If(can, {Fails(o, r)}))
      BY <1>4, <3>1
    <3>3. Does(rv, Switched(o, r, rv) \cup {Fails(o, r)})
      BY <1>4, <3>1
    <3>4. Does(rv, (Switched(o, r, rv) \cup {Dies(Raw(o), r)}) \cup If(E.move, {Fails(o, r)}))
      BY <1>4, <3>1, <3>2
    <3>5. CASE rv
      <4>1. /\ assign_nothrow_move(o, r) = NoExcept(Switched(o, r, rv))
            /\ assign_throwing_move(o, r) =
                 (Switched(o, r, rv) \cup {Dies(Raw(o), r)}) \cup If(E.move, {Fails(o, r)})
        BY <2>2, <3>5 DEF assign_nothrow_move, assign_throwing_move
      <4>2. Does(rv, assign_nothrow_move(o, r)) /\ Does(rv, assign_throwing_move(o, r))
        BY <1>3, <3>1, <3>4, <4>1
      <4>3. Does(rv, assign(o, r, rv))
        BY <2>1, <3>5, <4>2
      <4> QED BY <4>3 DEF Does
    <3>6. CASE ~rv
      <4>1. /\ assign_nothrow_copy(o, r) = NoExcept(Switched(o, r, rv))
            /\ assign_through_copy(o, r) = NoExcept(Switched(o, r, rv) \cup {Fails(o, r)})
            /\ assign_worst_case(o, r) =
                 (Switched(o, r, rv) \cup {Dies(Raw(o), r)}) \cup If(E.move, {Fails(o, r)})
        BY <2>2, <3>6 DEF assign_nothrow_copy, assign_through_copy, assign_worst_case
      <4>2. /\ Does(rv, assign_nothrow_copy(o, r)) /\ Does(rv, assign_through_copy(o, r))
            /\ Does(rv, assign_worst_case(o, r))
        BY <1>3, <3>1, <3>3, <3>4, <4>1
      <4>3. Does(rv, assign(o, r, rv))
        BY <2>1, <3>6, <4>2
      <4> QED BY <4>3 DEF Does
    <3> QED BY <3>5, <3>6
  <2>3. CASE ~(~o.has /\ r.has)
    <3>1. Does(rv, assign_common(o, r, rv))
      BY <1>1, <1>9, <2>3
    <3> HIDE DEF Does
    <3>2. assign(o, r, rv) \in {assign_common(o, r, rv), NoExcept(assign_common(o, r, rv))}
      BY <2>1, <2>3
         DEF assign_nothrow_copy, assign_through_copy, assign_worst_case,
             assign_nothrow_move, assign_throwing_move
    <3>3. Does(rv, assign(o, r, rv))
      BY <1>3, <3>1, <3>2
    <3> QED BY <3>3 DEF Does
  <2> QED BY <2>2, <2>3
<1> QED BY <1>5, <1>8, <1>9

\* Assignment of a value or an error, and emplace.
LEMMA SetSetsTo ==
  ASSUME NEW o, Good(o), NEW d \in Data, NEW out, Fine(out)
  PROVE  /\ ~T.void /\ out \in assign_value(o, d) => SetsTo(o, Value(d), out)
         /\ ~T.void /\ out \in emplace(o, d) => SetsTo(o, Value(d), out)
         /\ out \in assign_unexpected(o, d) => SetsTo(o, Error(d), out)
<1>1. o.has \in BOOLEAN /\ Value(d).has = TRUE /\ Error(d).has = FALSE
      /\ Fades(o, o) /\ (~T.void => \A s \in Spoilt(o) : Fades(o, s))
  BY LeftFades DEF Good, Matches, Value, Error
<1>2. \A n, r : out = Returns(n, r) => SetsTo(o, n, out)
  BY DEF Returns, Outcome, SetsTo
<1>3. \A m, n, r : out = Switches(o, m, n, r) => SetsTo(o, n, out)
  BY DEF Switches, Outcome, SetsTo
<1>4. \A n : out = Fails(o, Null) => SetsTo(o, n, out)
  BY <1>1 DEF Fails, Outcome, SetsTo
<1>5. \A n : \A s \in Spoilt(o) :
        ~T.void /\ n.has = o.has /\ out = Fails(s, Null) => SetsTo(o, n, out)
  BY <1>1 DEF Fails, Outcome, SetsTo
<1>6. \A n, h : out = Outcome("threw", o, Null, h) => SetsTo(o, n, out)
  BY <1>1 DEF Outcome, SetsTo
<1>7. out \in OverError(o, d) => SetsTo(o, Value(d), out)
  BY <1>3, <1>6 DEF OverError, SetValue, If
<1> HIDE DEF Fine
<1>8. ASSUME ~T.void, out \in assign_value(o, d) PROVE SetsTo(o, Value(d), out)
  BY <1>1, <1>2, <1>5, <1>7, <1>8 DEF assign_value, If
<1>9. ASSUME ~T.void, out \in emplace(o, d) PROVE SetsTo(o, Value(d), out)
  BY <1>1, <1>2, <1>4, <1>5, <1>7, <1>9 DEF emplace, If
<1>10. ASSUME out \in assign_unexpected(o, d) PROVE SetsTo(o, Error(d), out)
  BY <1>2, <1>3, <1>10 DEF assign_unexpected
<1> QED BY <1>8, <1>9, <1>10

\* swap, when a value meets an error.
LEMMA SwapOneExchanges ==
  ASSUME NEW o, Good(o), NEW r, Good(r), o.has, ~r.has, NEW out \in swap_one(o, r)
  PROVE  Exchanges(o, r, out)
<1>1. Value(o.data) = o /\ Error(r.data) = r /\ Fades(o, o) /\ Fades(r, r)
  BY Rebuilt, LeftFades
<1>2. \/ out = Switches(o, "value", r, o)
      \/ \E h : out = Outcome("threw", o, r, h)
  BY <1>1 DEF swap_one, swap_nothrow, swap_error_throws, swap_value_throws, If
<1>3. CASE out = Switches(o, "value", r, o)
  BY <1>3 DEF Switches, Outcome, Exchanges
<1>4. ASSUME NEW h, out = Outcome("threw", o, r, h) PROVE Exchanges(o, r, out)
  BY <1>1, <1>4 DEF Outcome, Exchanges
<1> QED BY <1>2, <1>3, <1>4

\* swap.
LEMMA SwapExchanges ==
  ASSUME NEW o, Good(o), NEW r, Good(r), ~T.void, NEW out \in swap(o, r)
  PROVE  Exchanges(o, r, out)
<1>1. o.has \in BOOLEAN /\ r.has \in BOOLEAN
  BY DEF Good, Matches
<1>2. CASE o.has = r.has
  <2>1. \/ out = Returns(r, o)
        \/ \E s \in Spoilt(o), q \in Spoilt(r) : out = Fails(s, q)
    BY <1>2 DEF swap, swap_same, SwapsOf, If
  <2>2. (\A s \in Spoilt(o) : Fades(o, s)) /\ (\A q \in Spoilt(r) : Fades(r, q))
    BY LeftFades
  <2> QED BY <1>2, <2>1, <2>2 DEF Returns, Fails, Outcome, Exchanges
<1>3. CASE ~o.has /\ r.has
  <2>1. PICK c \in swap_one(r, o) : out = Outcome(c.end, c.r, c.o, c.harm)
    BY <1>3 DEF swap, Turned
  <2>2. Exchanges(r, o, c)
    BY <1>3, SwapOneExchanges
  <2> QED BY <2>1, <2>2 DEF Outcome, Exchanges
<1>4. CASE o.has /\ ~r.has
  BY <1>4, SwapOneExchanges DEF swap
<1> QED BY <1>1, <1>2, <1>3, <1>4

\* What the function makes, and what passes it by.
LEMMA AppliedIsMade ==
  ASSUME NEW r, Good(r), NEW rv \in BOOLEAN, NEW out
  PROVE  /\ \A alternatives, gives :
              out \in Applied(r, rv, alternatives)
              /\ ("value" \in alternatives => TRUE \in gives)
              /\ ("error" \in alternatives => FALSE \in gives)
              => MadeOf(r, r.has, gives, out)
         /\ \A can, gives : out \in Passed(r, rv, can) => MadeOf(r, ~r.has, gives, out)
<1>1. /\ \A q \in Used(r, rv) : Fades(r, q)
      /\ Fades(r, Left(r, rv)) /\ Fades(r, r) /\ r.has \in BOOLEAN
  <2>1. Fades(r, Left(r, rv)) /\ Fades(r, r) /\ r.has \in BOOLEAN
    BY LeftFades DEF Good, Matches
  <2> QED BY <2>1 DEF Used
<1>2. ASSUME NEW alternatives, NEW gives, out \in Applied(r, rv, alternatives),
             "value" \in alternatives => TRUE \in gives,
             "error" \in alternatives => FALSE \in gives
      PROVE  MadeOf(r, r.has, gives, out)
  <2>1. CASE \E n \in Given(alternatives), q \in Used(r, rv) : out = Returns(n, q)
    <3>1. PICK n \in Given(alternatives), q \in Used(r, rv) : out = Returns(n, q)
      BY <2>1
    <3>2. Good(n) /\ n.has \in gives
      <4>1. PICK d \in Data :
              \/ "value" \in alternatives /\ n = Value(IF T.void THEN Null ELSE d)
              \/ "error" \in alternatives /\ n = Error(d)
        BY DEF Given
      <4>2. /\ Good(Value(IF T.void THEN Null ELSE d)) /\ Good(Error(d))
            /\ Value(IF T.void THEN Null ELSE d).has = TRUE /\ Error(d).has = FALSE
        BY NewIsGood DEF Value, Error
      <4> QED BY <1>2, <4>1, <4>2
    <3> QED BY <1>1, <3>1, <3>2 DEF Returns, Outcome, MadeOf
  <2>2. CASE \E q \in Used(r, rv) : out = Fails(Null, q)
    BY <1>1, <2>2 DEF Fails, Outcome, MadeOf
  <2> QED BY <1>2, <2>1, <2>2 DEF Applied
<1>3. ASSUME NEW can, NEW gives, out \in Passed(r, rv, can)
      PROVE  MadeOf(r, ~r.has, gives, out)
  <2>1. out = Returns(r, Left(r, rv)) \/ out = Fails(Null, r)
    BY <1>3 DEF Passed, If
  <2> QED BY <1>1, <2>1 DEF Returns, Fails, Outcome, MadeOf
<1> QED BY <1>2, <1>3

\* The monadic operations.
LEMMA MonadicIsMade ==
  ASSUME NEW r, Good(r), NEW rv \in BOOLEAN, NEW out, Fine(out)
  PROVE  /\ out \in and_then_impl(r, rv) => MadeOf(r, TRUE, BOOLEAN, out)
         /\ out \in expected_map_impl(r, rv) => MadeOf(r, TRUE, {TRUE}, out)
         /\ out \in map_error_impl(r, rv) => MadeOf(r, FALSE, {FALSE}, out)
         /\ out \in or_else_impl(r, rv) => MadeOf(r, FALSE, BOOLEAN, out)
<1>0. r.has = TRUE \/ r.has = FALSE
  BY DEF Good, Matches
<1>1. ASSUME out \in and_then_impl(r, rv) PROVE MadeOf(r, TRUE, BOOLEAN, out)
  BY <1>0, <1>1, AppliedIsMade DEF and_then_impl
<1>2. ASSUME out \in expected_map_impl(r, rv) PROVE MadeOf(r, TRUE, {TRUE}, out)
  BY <1>0, <1>2, AppliedIsMade DEF expected_map_impl
<1>3. ASSUME out \in map_error_impl(r, rv) PROVE MadeOf(r, FALSE, {FALSE}, out)
  BY <1>0, <1>3, AppliedIsMade DEF map_error_impl
<1>4. ASSUME out \in or_else_impl(r, rv) PROVE MadeOf(r, FALSE, BOOLEAN, out)
  <2>1. CASE r.has
    <3>1. out \in Constructed(r, rv)
      BY <1>4, <2>1 DEF or_else_impl
    <3>2. out.end = "returned" /\ out.o = r /\ Fades(r, out.r)
      BY <3>1, ConstructedTransfers
    <3> QED BY <1>0, <2>1, <3>2 DEF MadeOf
  <2>2. CASE ~r.has /\ out \in Applied(r, rv, {"value", "error"})
    BY <1>0, <2>2, AppliedIsMade
  <2>3. CASE ~r.has /\ \E q \in Used(r, rv) : out \in Constructed(q, rv)
    <3>1. PICK q \in Used(r, rv) : out \in Constructed(q, rv)
      BY <2>3
    <3>2. Fades(r, q) /\ q \in {r, Lost(r)}
      BY LeftFades DEF Used, Left
    <3>3. Good(q) /\ q.has = r.has
      <4>1. Matches(q) /\ q.has = r.has
        BY <3>2 DEF Good, Matches, Lost
      <4>2. Stored(q)
        BY <3>2, FadedIsStored DEF Good
      <4>3. q # Null
        <5>1. Lost(r) \in Storage /\ Null \notin Storage
          BY NullAssumption DEF Good, Stored, Storage, Lost
        <5> QED BY <3>2, <5>1 DEF Good
      <4> QED BY <4>1, <4>2, <4>3 DEF Good
    <3>4. out.end = "returned" /\ out.o = q /\ Fades(q, out.r)
      BY <3>1, <3>3, ConstructedTransfers
    <3>5. Fades(r, out.r)
      BY <2>3, <3>2, <3>4 DEF Fades, Lost, Good
    <3> QED BY <1>0, <2>3, <3>3, <3>4, <3>5 DEF MadeOf
  <2> QED BY <1>4, <2>1, <2>2, <2>3 DEF or_else_impl
<1> QED BY <1>1, <1>2, <1>3, <1>4

-----------------------------------------------------------------------------
(* Operations, as seen from outside.                                       *)

\* What the mapping shows of the objects.
Shown == [x \in Objs |-> Abstract(obj[x])]

\* Data that fade are what the specification calls blurred.
LEMMA FadedIsBlurred ==
  ASSUME NEW o, o # Null => Good(o), NEW n, Fades(o, n)
  PROVE  Whole!Blurred(Abstract(o), Abstract(n))
<1>1. CASE n = o
  BY <1>1 DEF Whole!Blurred
<1>2. CASE o # Null /\ n = Lost(o)
  <2>1. Lost(o) \in Storage /\ o \in Storage /\ Null \notin Storage
    BY <1>2, NullAssumption DEF Good, Stored, Storage, Lost
  <2>2. /\ Abstract(o) = [is |-> IF o.has THEN "value" ELSE "error", data |-> o.data]
        /\ Abstract(n) = [is |-> IF o.has THEN "value" ELSE "error", data |-> Unspecified]
    BY <1>2, <2>1 DEF Abstract, Lost
  <2>3. Abstract(o) # Null
    BY <2>1, <2>2, NullAssumption DEF Storage
  <2> QED BY <2>2, <2>3 DEF Whole!Blurred
<1> QED BY <1>1, <1>2 DEF Fades

\* What a good object shows is not nothing, and tells its alternative.
LEMMA GoodShows ==
  ASSUME NEW o, Good(o)
  PROVE  /\ Abstract(o) = [is |-> IF o.has THEN "value" ELSE "error", data |-> o.data]
         /\ Abstract(o) # Null
         /\ Abstract(o).is = IF o.has THEN "value" ELSE "error"
         /\ Abstract(o).data = o.data
         /\ o.has \in BOOLEAN
<1>1. /\ Abstract(o) = [is |-> IF o.has THEN "value" ELSE "error", data |-> o.data]
      /\ o \in Storage
  BY DEF Good, Abstract, Stored
<1>2. Abstract(o) # Null
  BY <1>1, NullAssumption DEF Storage
<1> QED BY <1>1, <1>2 DEF Good, Matches

\* Objects that exist are good.
LEMMA ExistingIsGood ==
  ASSUME IInv, Ready, Keeping, NEW x \in Objs
  PROVE  obj[x] # Null => Good(obj[x])
BY DEF IInv, Fitting, Fit, Keeping, Good

\* A change of one object, and of two.
LEMMA OneChanges ==
  ASSUME TypesOK, NEW x \in Objs, NEW n, obj' = [obj EXCEPT ![x] = n]
  PROVE  /\ Shown' = [Shown EXCEPT ![x] = Abstract(n)]
         /\ obj'[x] = n /\ \A z \in Objs \ {x} : obj'[z] = obj[z]
<1>1. obj'[x] = n /\ \A z \in Objs \ {x} : obj'[z] = obj[z]
  BY DEF TypesOK
<1>2. \A z \in Objs : Abstract(obj'[z]) = IF z = x THEN Abstract(n) ELSE Abstract(obj[z])
  BY <1>1
<1>3. Shown' = [Shown EXCEPT ![x] = Abstract(n)]
  BY <1>2 DEF Shown
<1> QED BY <1>1, <1>3

\* The second of two wins only if they are the same.
LEMMA TwoChange ==
  ASSUME TypesOK, NEW x \in Objs, NEW y \in Objs, x # y, NEW n, NEW q,
         obj' = [obj EXCEPT ![x] = n, ![y] = q]
  PROVE  /\ Shown' = [Shown EXCEPT ![x] = Abstract(n), ![y] = Abstract(q)]
         /\ obj'[x] = n /\ obj'[y] = q
         /\ \A z \in Objs \ {x, y} : obj'[z] = obj[z]
<1>1. obj'[x] = n /\ obj'[y] = q /\ \A z \in Objs \ {x, y} : obj'[z] = obj[z]
  BY DEF TypesOK
<1>2. \A z \in Objs : Abstract(obj'[z]) = IF z = y THEN Abstract(q) ELSE
                                           IF z = x THEN Abstract(n) ELSE Abstract(obj[z])
  <2> SUFFICES ASSUME NEW z \in Objs
               PROVE  Abstract(obj'[z]) = IF z = y THEN Abstract(q) ELSE
                                          IF z = x THEN Abstract(n) ELSE Abstract(obj[z])
    OBVIOUS
  <2>1. obj'[z] = IF z = y THEN q ELSE IF z = x THEN n ELSE obj[z]
    BY <1>1
  <2> QED BY <2>1
<1>3. Shown' = [Shown EXCEPT ![x] = Abstract(n), ![y] = Abstract(q)]
  BY <1>2 DEF Shown
<1> QED BY <1>1, <1>3

\* Whoever is not changed, or changed to what is stored, is stored.
LEMMA ChangesKeep ==
  ASSUME Keeping, UNCHANGED T,
         \A z \in Objs : obj'[z] = obj[z] \/ Stored(obj'[z])
  PROVE  Keeping'
BY DEF Keeping, Stored

\* An operation that ended is what the specification's Returned or Threw says.
Ended == Whole!Returned \/ Whole!Threw

\* Then it is a step of the specification; and so is one that was the last.
LEMMA EndedIsNext ==
  ASSUME Ready, Ready' => Ended
  PROVE  Whole!Next
BY DEF Ended, Whole!Next, Ready

\* An operation with an argument: a constructor, an assignment, an emplace.
LEMMA SetsShows ==
  ASSUME IInv, Ready, Keeping, NEW x \in Objs, NEW op \in {"make", "set"}, NEW n, Good(n),
         NEW arg, arg = Abstract(n), NEW out, SetsTo(obj[x], n, out),
         obj' = [obj EXCEPT ![x] = out.o], Ends(op, x, x, arg, out),
         op = "set" => obj[x] # Null
  PROVE  Ended /\ Keeping'
<1> DEFINE o == obj[x]
<1>1. /\ call' = [op |-> op, on |-> x, of |-> x, arg |-> arg, end |-> out.end, got |-> Null]
      /\ T' = T
  BY DEF Ends
<1>2. TypesOK /\ (o # Null => Good(o))
  BY ExistingIsGood DEF IInv
<1>3. /\ Shown' = [Shown EXCEPT ![x] = Abstract(out.o)]
      /\ obj'[x] = out.o /\ \A z \in Objs \ {x} : obj'[z] = obj[z]
  BY <1>2, OneChanges
<1>4. Shown[x] = Abstract(o) /\ DOMAIN Shown = Objs /\ Shown = [z \in Objs |-> Shown[z]]
  BY DEF Shown
<1> HIDE DEF o
<1>5. CASE out.end = "returned"
  <2>1. out.o = n
    BY <1>5 DEF SetsTo
  <2>2. Whole!Returned
    BY <1>1, <1>3, <1>5, <2>1 DEF Whole!Returned, Whole!Set, Shown
  <2>3. Keeping'
    BY <1>1, <1>3, <2>1, ChangesKeep DEF Good
  <2> QED BY <2>2, <2>3 DEF Ended
<1>6. CASE out.end = "threw"
  <2>1. Fades(o, out.o) /\ (o # Null /\ n.has # o.has => out.o = o)
    BY <1>6 DEF SetsTo, o
  <2>2. Whole!Blurred(Shown[x], Shown'[x]) /\ \A z \in Objs \ {x} : Shown'[z] = Shown[z]
    BY <1>2, <1>3, <1>4, <2>1, FadedIsBlurred
  <2>3. \A z \in Objs : Whole!Blurred(Shown[z], Shown'[z])
    BY <2>2 DEF Whole!Blurred
  <2>4. op = "set" /\ arg.is # Shown[x].is => Shown' = Shown
    <3> SUFFICES ASSUME op = "set", arg.is # Shown[x].is PROVE Shown' = Shown
      OBVIOUS
    <3>1. Good(o)
      BY <1>2 DEF o
    <3>2. n.has # o.has
      BY <1>4, <3>1, GoodShows
    <3>3. out.o = o
      BY <2>1, <3>1, <3>2 DEF Good
    <3> QED BY <1>3, <1>4, <3>3
  <2>5. Whole!Threw
    BY <1>1, <1>6, <2>3, <2>4 DEF Whole!Threw, Shown
  <2>6. Stored(out.o)
    BY <1>2, <2>1, FadedIsStored DEF Good, Stored, Fades
  <2>7. Keeping'
    BY <1>1, <1>3, <2>6, ChangesKeep
  <2> QED BY <2>5, <2>7 DEF Ended
<1> QED BY <1>5, <1>6 DEF SetsTo

\* An operation with another object: a constructor or an assignment.
LEMMA TransferShows ==
  ASSUME IInv, Ready, Keeping, NEW x \in Objs, NEW y \in Objs, x # y, Exists(y),
         NEW rv \in BOOLEAN, NEW op, op = IF rv THEN "move" ELSE "copy",
         NEW out, Transfers(obj[x], obj[y], rv, out),
         obj' = [obj EXCEPT ![x] = out.o, ![y] = out.r], Ends(op, x, y, Null, out)
  PROVE  Ended /\ Keeping'
<1> DEFINE o == obj[x]
           r == obj[y]
<1>1. /\ call' = [op |-> op, on |-> x, of |-> y, arg |-> Null, end |-> out.end, got |-> Null]
      /\ T' = T
  BY DEF Ends
<1>2. TypesOK /\ (o # Null => Good(o)) /\ Good(r)
  BY ExistingIsGood DEF IInv, Exists
<1>3. /\ Shown' = [Shown EXCEPT ![x] = Abstract(out.o), ![y] = Abstract(out.r)]
      /\ obj'[x] = out.o /\ obj'[y] = out.r
      /\ \A z \in Objs \ {x, y} : obj'[z] = obj[z]
  BY <1>2, TwoChange
<1>4. Shown[x] = Abstract(o) /\ Shown[y] = Abstract(r) /\ DOMAIN Shown = Objs
      /\ Shown = [z \in Objs |-> Shown[z]]
  BY DEF Shown
<1>t. Transfers(o, r, rv, out)
  OBVIOUS
<1>s. Stored(o)
  BY <1>2 DEF Good, Stored
<1> HIDE DEF o, r
<1>5. CASE out.end = "returned"
  <2>1. out.o = r /\ Fades(r, out.r) /\ (~rv => out.r = r)
    BY <1>5, <1>t DEF Transfers
  <2>2. Whole!Blurred(Shown[y], Shown'[y]) /\ Shown'[x] = Shown[y]
        /\ \A z \in Objs \ {x, y} : Shown'[z] = Shown[z]
    BY <1>2, <1>3, <1>4, <2>1, FadedIsBlurred
  <2>3. ASSUME rv PROVE Ended
    <3>1. Whole!Move
      BY <1>1, <2>2, <2>3 DEF Whole!Move, Whole!SameBut, Shown
    <3> QED BY <1>1, <1>5, <3>1 DEF Whole!Returned, Ended
  <2>4. ASSUME ~rv PROVE Ended
    <3>1. Shown' = [Shown EXCEPT ![x] = Shown[y]]
      BY <1>3, <1>4, <2>1, <2>4
    <3>2. Whole!Copy
      BY <1>1, <2>4, <3>1 DEF Whole!Copy, Shown
    <3> QED BY <1>1, <1>5, <3>2 DEF Whole!Returned, Ended
  <2>5. Stored(out.o) /\ Stored(out.r)
    BY <1>2, <2>1, FadedIsStored DEF Good
  <2>6. Keeping'
    BY <1>1, <1>3, <2>5, ChangesKeep
  <2> QED BY <2>3, <2>4, <2>6
<1>6. CASE out.end = "threw"
  <2>1. Fades(o, out.o) /\ out.r = r /\ (o # Null /\ o.has # r.has => out.o = o)
    BY <1>6, <1>t DEF Transfers
  <2>2. Whole!Blurred(Shown[x], Shown'[x]) /\ \A z \in Objs \ {x} : Shown'[z] = Shown[z]
    BY <1>2, <1>3, <1>4, <2>1, FadedIsBlurred
  <2>3. \A z \in Objs : Whole!Blurred(Shown[z], Shown'[z])
    BY <2>2 DEF Whole!Blurred
  <2>4. Shown[x] # Null /\ Shown[x].is # Shown[y].is => Shown' = Shown
    <3> SUFFICES ASSUME Shown[x] # Null, Shown[x].is # Shown[y].is PROVE Shown' = Shown
      OBVIOUS
    <3>1. Good(o)
      BY <1>2, <1>4 DEF Abstract
    <3>2. o.has # r.has
      BY <1>2, <1>4, <3>1, GoodShows
    <3>3. out.o = o
      BY <2>1, <3>1, <3>2 DEF Good
    <3> QED BY <1>3, <1>4, <2>1, <3>3
  <2>5. Whole!Threw
    BY <1>1, <1>6, <2>3, <2>4 DEF Whole!Threw, Shown
  <2>6. Stored(out.o) /\ Stored(out.r)
    BY <1>2, <1>s, <2>1, FadedIsStored DEF Good
  <2>7. Keeping'
    BY <1>1, <1>3, <2>6, ChangesKeep
  <2> QED BY <2>5, <2>7 DEF Ended
<1> QED BY <1>5, <1>6, <1>t DEF Transfers

\* A swap.
LEMMA ExchangeShows ==
  ASSUME IInv, Ready, Keeping, NEW x \in Objs, NEW y \in Objs, x # y, Exists(x), Exists(y),
         NEW out, Exchanges(obj[x], obj[y], out),
         obj' = [obj EXCEPT ![x] = out.o, ![y] = out.r], Ends("swap", x, y, Null, out)
  PROVE  Ended /\ Keeping'
<1> DEFINE o == obj[x]
           r == obj[y]
<1>1. /\ call' = [op |-> "swap", on |-> x, of |-> y, arg |-> Null, end |-> out.end, got |-> Null]
      /\ T' = T
  BY DEF Ends
<1>2. TypesOK /\ Good(o) /\ Good(r)
  BY ExistingIsGood DEF IInv, Exists
<1>3. /\ Shown' = [Shown EXCEPT ![x] = Abstract(out.o), ![y] = Abstract(out.r)]
      /\ obj'[x] = out.o /\ obj'[y] = out.r
      /\ \A z \in Objs \ {x, y} : obj'[z] = obj[z]
  BY <1>2, TwoChange
<1>4. Shown[x] = Abstract(o) /\ Shown[y] = Abstract(r) /\ DOMAIN Shown = Objs
      /\ Shown = [z \in Objs |-> Shown[z]]
  BY DEF Shown
<1>t. Exchanges(o, r, out)
  OBVIOUS
<1> HIDE DEF o, r
<1>5. CASE out.end = "returned"
  <2>1. out.o = r /\ out.r = o
    BY <1>5, <1>t DEF Exchanges
  <2>2. Shown' = [Shown EXCEPT ![x] = Shown[y], ![y] = Shown[x]]
    BY <1>3, <1>4, <2>1
  <2>3. Whole!Swap
    BY <1>1, <2>2 DEF Whole!Swap, Shown
  <2>4. Keeping'
    BY <1>1, <1>2, <1>3, <2>1, ChangesKeep DEF Good
  <2> QED BY <1>1, <1>5, <2>3, <2>4 DEF Whole!Returned, Ended
<1>6. CASE out.end = "threw"
  <2>1. Fades(o, out.o) /\ Fades(r, out.r) /\ (o.has # r.has => out.o = o /\ out.r = r)
    BY <1>6, <1>t DEF Exchanges
  <2>2. /\ Whole!Blurred(Shown[x], Shown'[x]) /\ Whole!Blurred(Shown[y], Shown'[y])
        /\ \A z \in Objs \ {x, y} : Shown'[z] = Shown[z]
    BY <1>2, <1>3, <1>4, <2>1, FadedIsBlurred
  <2>3. \A z \in Objs : Whole!Blurred(Shown[z], Shown'[z])
    BY <2>2 DEF Whole!Blurred
  <2>4. Shown[x].is # Shown[y].is => Shown' = Shown
    <3> SUFFICES ASSUME Shown[x].is # Shown[y].is PROVE Shown' = Shown
      OBVIOUS
    <3>1. o.has # r.has
      BY <1>2, <1>4, GoodShows
    <3>2. out.o = o /\ out.r = r
      BY <2>1, <3>1
    <3> QED BY <1>3, <1>4, <3>2
  <2>5. Whole!Threw
    BY <1>1, <1>6, <2>3, <2>4 DEF Whole!Threw, Shown
  <2>6. Stored(out.o) /\ Stored(out.r)
    BY <1>2, <2>1, FadedIsStored DEF Good
  <2>7. Keeping'
    BY <1>1, <1>3, <2>6, ChangesKeep
  <2> QED BY <2>5, <2>7 DEF Ended
<1> QED BY <1>5, <1>6, <1>t DEF Exchanges

\* A new object made of another one.
LEMMA MadeShows ==
  ASSUME IInv, Ready, Keeping, NEW x \in Objs, NEW y \in Objs, ~Exists(x), Exists(y),
         NEW op, NEW sees, NEW gives, NEW out, MadeOf(obj[y], sees, gives, out),
         \/ op = "and_then" /\ sees = TRUE /\ gives = BOOLEAN
         \/ op = "map" /\ sees = TRUE /\ gives = {TRUE}
         \/ op = "map_error" /\ sees = FALSE /\ gives = {FALSE}
         \/ op = "or_else" /\ sees = FALSE /\ gives = BOOLEAN,
         obj' = [obj EXCEPT ![x] = out.o, ![y] = out.r], Ends(op, x, y, Null, out)
  PROVE  Ended /\ Keeping'
<1> DEFINE r == obj[y]
           seen == IF sees THEN "value" ELSE "error"
           given == {IF b THEN "value" ELSE "error" : b \in gives}
<1>1. /\ call' = [op |-> op, on |-> x, of |-> y, arg |-> Null, end |-> out.end, got |-> Null]
      /\ T' = T
  BY DEF Ends
<1>2. TypesOK /\ Good(r) /\ obj[x] = Null /\ x # y
  BY ExistingIsGood DEF IInv, Exists
<1>3. /\ Shown' = [Shown EXCEPT ![x] = Abstract(out.o), ![y] = Abstract(out.r)]
      /\ obj'[x] = out.o /\ obj'[y] = out.r
      /\ \A z \in Objs \ {x, y} : obj'[z] = obj[z]
  BY <1>2, TwoChange
<1>4. Shown[x] = Null /\ Shown[y] = Abstract(r) /\ DOMAIN Shown = Objs
  BY <1>2 DEF Shown, Abstract
<1>t. MadeOf(r, sees, gives, out)
  OBVIOUS
<1> HIDE DEF r
<1>5. Fades(r, out.r) /\ Stored(out.r)
  BY <1>2, <1>t, FadedIsStored DEF MadeOf, Good
<1>6. /\ Whole!Blurred(Shown[y], Shown'[y])
      /\ \A z \in Objs \ {x, y} : Shown'[z] = Shown[z]
      /\ Shown'[x] = Abstract(out.o)
  BY <1>2, <1>3, <1>4, <1>5, FadedIsBlurred
<1>7. CASE out.end = "returned"
  <2>1. IF r.has = sees THEN Good(out.o) /\ out.o.has \in gives ELSE out.o = r
    BY <1>7, <1>t DEF MadeOf
  <2>2. Shown[y].is = seen <=> r.has = sees
    BY <1>2, <1>4, GoodShows
  <2>3. IF Shown[y].is = seen THEN Shown'[x] # Null /\ Shown'[x].is \in given
                              ELSE Shown'[x] = Shown[y]
    <3>1. ASSUME r.has = sees PROVE Shown'[x] # Null /\ Shown'[x].is \in given
      BY <1>6, <2>1, <3>1, GoodShows
    <3>2. ASSUME r.has # sees PROVE Shown'[x] = Shown[y]
      BY <1>4, <1>6, <2>1, <3>2
    <3> QED BY <2>2, <3>1, <3>2
  <2>4. /\ seen = "value" /\ (op = "and_then" => given = {"value", "error"})
           /\ (op = "map" => given = {"value"}) /\ op \in {"and_then", "map"}
        \/ /\ seen = "error" /\ (op = "or_else" => given = {"value", "error"})
           /\ (op = "map_error" => given = {"error"}) /\ op \in {"or_else", "map_error"}
    OBVIOUS
  <2> HIDE DEF seen, given
  <2>5. Whole!Derive(op, seen, given)
    BY <1>1, <1>6, <2>3 DEF Whole!Derive, Whole!SameBut, Shown
  <2>6. \/ Whole!Derive("and_then", "value", {"value", "error"})
        \/ Whole!Derive("map", "value", {"value"})
        \/ Whole!Derive("map_error", "error", {"error"})
        \/ Whole!Derive("or_else", "error", {"value", "error"})
    BY <2>4, <2>5
  <2>7. Whole!Returned
    BY <1>1, <1>7, <2>6 DEF Whole!Returned
  <2>8. Stored(out.o)
    BY <1>2, <2>1 DEF Good
  <2>9. Keeping'
    BY <1>1, <1>3, <1>5, <2>8, ChangesKeep
  <2> QED BY <2>7, <2>9 DEF Ended
<1>8. CASE out.end = "threw"
  <2>1. out.o = Null /\ Abstract(Null) = Null
    BY <1>8, <1>t DEF MadeOf, Abstract
  <2>2. \A z \in Objs : Whole!Blurred(Shown[z], Shown'[z])
    BY <1>4, <1>6, <2>1 DEF Whole!Blurred
  <2>3. Whole!Threw
    BY <1>1, <1>8, <2>2 DEF Whole!Threw, Shown
  <2>4. Stored(out.o)
    BY <2>1 DEF Stored
  <2>5. Keeping'
    BY <1>1, <1>3, <1>5, <2>4, ChangesKeep
  <2> QED BY <2>3, <2>5 DEF Ended
<1> QED BY <1>7, <1>8, <1>t DEF MadeOf

\* An observer, which may be given an rvalue's data.
LEMMA SeesShows ==
  ASSUME IInv, Ready, Keeping, NEW x \in Objs, Exists(x), value(x) \/ value_or(x)
  PROVE  Ended /\ Keeping'
<1> DEFINE o == obj[x]
<1>1. TypesOK /\ Good(o)
  BY ExistingIsGood DEF IInv, Exists
<1>2. /\ Shown[x] = Abstract(o) /\ Abstract(o).data = o.data /\ o.has \in BOOLEAN
      /\ Abstract(o).is = IF o.has THEN "value" ELSE "error"
  BY <1>1, GoodShows DEF Shown
<1>3. Fades(o, obj'[x]) /\ \A z \in Objs \ {x} : obj'[z] = obj[z]
  <2>1. Fades(o, o) /\ \A rv : Fades(o, Left(o, rv))
    BY <1>1, LeftFades
  <2>2. CASE UNCHANGED obj
    BY <2>1, <2>2
  <2>3. CASE \E rv \in BOOLEAN : obj' = [obj EXCEPT ![x] = Left(@, rv)]
    BY <1>1, <2>1, <2>3 DEF TypesOK
  <2> QED BY <2>2, <2>3 DEF value, value_or
<1>4. Whole!Blurred(Shown[x], Shown'[x]) /\ \A z \in Objs \ {x} : Shown'[z] = Shown[z]
  BY <1>1, <1>3, FadedIsBlurred DEF Shown
<1>5. \A z \in Objs : Whole!Blurred(Shown[z], Shown'[z])
  BY <1>4 DEF Whole!Blurred
<1>6. Stored(obj'[x]) /\ UNCHANGED T
  BY <1>1, <1>3, FadedIsStored DEF Good, value, value_or, Sees
<1>7. Keeping'
  BY <1>3, <1>6, ChangesKeep
<1>8. CASE value(x) /\ o.has
  <2>1. /\ call'.op = "value" /\ call'.on = x /\ call'.end = "returned"
        /\ call'.got = o.data
    BY <1>8 DEF value, Sees
  <2>2. Whole!Observe
    BY <1>2, <1>4, <1>8, <2>1 DEF Whole!Observe, Whole!SameBut, Shown
  <2> QED BY <1>7, <2>1, <2>2 DEF Whole!Returned, Ended
<1>9. CASE value(x) /\ ~o.has
  <2>1. call'.op = "value" /\ call'.on = x /\ call'.end = "threw"
    BY <1>9 DEF value, Sees
  <2>2. Whole!Threw
    BY <1>2, <1>4, <1>5, <1>9, <2>1 DEF Whole!Threw, Whole!SameBut, Shown
  <2> QED BY <1>7, <2>2 DEF Ended
<1>10. CASE value_or(x)
  <2>1. PICK v \in Data :
          /\ call'.op = "value_or" /\ call'.on = x
          /\ \/ /\ call'.end = "returned"
                /\ call'.got = IF o.has THEN o.data ELSE call'.arg
             \/ call'.end = "threw"
    <3>1. PICK v \in Data, rv \in BOOLEAN :
            IF obj[x].has
            THEN \/ Sees("value_or", x, x, v, "returned", obj[x].data)
                 \/ Sees("value_or", x, x, v, "threw", Null)
            ELSE Sees("value_or", x, x, v, "returned", v)
      BY <1>10 DEF value_or
    <3> QED BY <3>1 DEF Sees
  <2>2. CASE call'.end = "returned"
    <3>1. Whole!Observe
      BY <1>2, <1>4, <2>1, <2>2 DEF Whole!Observe, Whole!SameBut, Shown
    <3> QED BY <1>7, <2>2, <3>1 DEF Whole!Returned, Ended
  <2>3. CASE call'.end = "threw"
    <3>1. Whole!Threw
      BY <1>5, <2>1, <2>3 DEF Whole!Threw, Shown
    <3> QED BY <1>7, <3>1 DEF Ended
  <2> QED BY <2>1, <2>2, <2>3
<1> QED BY <1>2, <1>8, <1>9, <1>10

\* A comparison.
LEMMA CompareShows ==
  ASSUME IInv, Ready, Keeping, NEW x \in Objs, NEW y \in Objs, Compare(x, y)
  PROVE  Ended /\ Keeping'
<1> DEFINE o == obj[x]
           r == obj[y]
<1>1. Good(o) /\ Good(r)
  BY ExistingIsGood DEF Compare, Exists
<1>2. /\ Shown[x] = [is |-> IF o.has THEN "value" ELSE "error", data |-> o.data]
      /\ Shown[y] = [is |-> IF r.has THEN "value" ELSE "error", data |-> r.data]
      /\ o.has \in BOOLEAN /\ r.has \in BOOLEAN
  BY <1>1, GoodShows DEF Shown
<1>3. PICK b \in Equal(o, r) : Sees("equal", x, y, Null, "returned", b)
  BY DEF Compare
<1>4. /\ call'.op = "equal" /\ call'.on = x /\ call'.of = y /\ call'.end = "returned"
      /\ call'.got = b
  BY <1>3 DEF Sees
<1>5. obj' = obj /\ T' = T /\ Shown' = Shown
  BY <1>3 DEF Compare, Sees, Shown
<1>6. \/ b = (Shown[x] = Shown[y])
      \/ Shown[x].is = Shown[y].is /\ Unspecified \in {Shown[x].data, Shown[y].data}
  <2>1. CASE o.has # r.has
    <3>1. b = FALSE
      BY <2>1 DEF Equal
    <3>2. Shown[x] # Shown[y]
      BY <1>2, <2>1
    <3> QED BY <3>1, <3>2
  <2>2. CASE o.has = r.has /\ Unspecified \in {o.data, r.data}
    BY <1>2, <2>2
  <2>3. CASE o.has = r.has /\ Unspecified \notin {o.data, r.data}
    <3>1. b = (o.data = r.data)
      BY <2>3 DEF Equal
    <3>2. (Shown[x] = Shown[y]) <=> (o.data = r.data)
      BY <1>2, <2>3
    <3> QED BY <3>1, <3>2
  <2> QED BY <2>1, <2>2, <2>3
<1>7. Whole!Observe
  BY <1>4, <1>5, <1>6 DEF Whole!Observe, Whole!SameBut, Whole!Blurred, Shown
<1>8. Keeping'
  BY <1>5, ChangesKeep
<1> QED BY <1>4, <1>7, <1>8 DEF Whole!Returned, Ended

-----------------------------------------------------------------------------
(* Every step is one of the specification's.                               *)

\* Where nothing undefined has happened and the program goes on, its outcome was
\* a fine one.
LEMMA ReadyIsFine ==
  ASSUME NEW op, NEW x, NEW y, NEW arg, NEW out, Ends(op, x, y, arg, out), Ready'
  PROVE  Fine(out)
BY DEF Ends, Ready, Fine

\* An operation with an argument.
LEMMA OnShows ==
  ASSUME IInv, Ready, Ready', Keeping, NEW x \in Objs, NEW op \in {"make", "set"},
         NEW n, Good(n), op = "set" => Exists(x),
         NEW outs, \A out \in outs : Fine(out) => SetsTo(obj[x], n, out),
         On(op, x, Abstract(n), outs)
  PROVE  Ended /\ Keeping'
<1>1. PICK out \in outs : obj' = [obj EXCEPT ![x] = out.o] /\ Ends(op, x, x, Abstract(n), out)
  BY DEF On
<1>2. SetsTo(obj[x], n, out)
  BY <1>1, ReadyIsFine
<1> QED BY <1>1, <1>2, SetsShows DEF Exists

\* What arguments are to make of an object.
LEMMA ArgumentsShow ==
  ASSUME NEW d \in Data
  PROVE  /\ AsValue(d) = Abstract(Value(IF T.void THEN Null ELSE d))
         /\ ~T.void => AsValue(d) = Abstract(Value(d))
         /\ AsError(d) = Abstract(Error(d))
<1>1. /\ Good(Error(d)) /\ Good(Value(IF T.void THEN Null ELSE d))
  BY NewIsGood
<1> QED BY <1>1 DEF Good, AsValue, AsError, Abstract, Value, Error

\* Construction from an argument or from nothing.
LEMMA MakeImplements ==
  ASSUME IInv, Ready', Keeping, NEW x \in Objs, Make(x) \/ Default(x)
  PROVE  Ended /\ Keeping'
<1>1. Ready /\ obj[x] = Null
  BY DEF Make, Default, Exists
<1>2. ASSUME NEW d \in Data, NEW n \in {Error(d), Value(IF T.void THEN Null ELSE d)}, NEW out,
             out = Returns(n, Null) \/ out = Fails(Null, Null)
      PROVE  SetsTo(obj[x], n, out)
  BY <1>1, <1>2 DEF Returns, Fails, Outcome, SetsTo, Fades
<1>3. CASE Make(x)
  <2>1. PICK d \in Data : \/ On("make", x, AsValue(d), InPlace(d))
                          \/ On("make", x, AsError(d), FromUnexpected(d))
    BY <1>3 DEF Make
  <2>2. CASE On("make", x, AsValue(d), InPlace(d))
    <3> DEFINE n == Value(IF T.void THEN Null ELSE d)
    <3>1. Good(n) /\ AsValue(d) = Abstract(n)
      BY NewIsGood, ArgumentsShow
    <3>2. \A out \in InPlace(d) : out = Returns(n, Null) \/ out = Fails(Null, Null)
      BY DEF InPlace, If
    <3>3. \A out \in InPlace(d) : SetsTo(obj[x], n, out)
      BY <1>2, <3>2
    <3> HIDE DEF n
    <3> QED BY <1>1, <2>2, <3>1, <3>3, OnShows
  <2>3. CASE On("make", x, AsError(d), FromUnexpected(d))
    <3> DEFINE n == Error(d)
    <3>1. Good(n) /\ AsError(d) = Abstract(n)
      BY NewIsGood, ArgumentsShow
    <3>2. \A out \in FromUnexpected(d) : out = Returns(n, Null) \/ out = Fails(Null, Null)
      BY DEF FromUnexpected, If
    <3>3. \A out \in FromUnexpected(d) : SetsTo(obj[x], n, out)
      BY <1>2, <3>2
    <3> HIDE DEF n
    <3> QED BY <1>1, <2>3, <3>1, <3>3, OnShows
  <2> QED BY <2>1, <2>2, <2>3
<1>4. CASE Default(x)
  <2>1. PICK out \in DefaultConstructed :
          /\ obj' = [obj EXCEPT ![x] = out.o]
          /\ Ends("make", x, x, IF out.o = Null THEN Null ELSE AsValue(out.o.data), out)
    BY <1>4 DEF Default
  <2>2. CASE out = Fails(Null, Null)
    <3>1. out.end = "threw" /\ out.o = Null
      BY <2>2 DEF Fails, Outcome
    <3>2. call'.op = "make" /\ call'.end = "threw" /\ T' = T
      BY <2>1, <3>1 DEF Ends
    <3>3. /\ Shown' = [Shown EXCEPT ![x] = Abstract(Null)]
          /\ obj'[x] = Null /\ \A z \in Objs \ {x} : obj'[z] = obj[z]
      BY <2>1, <3>1, OneChanges DEF IInv
    <3>4. \A z \in Objs : Shown'[z] = Shown[z]
      BY <1>1, <3>3 DEF Shown
    <3>5. Whole!Threw
      BY <3>2, <3>4 DEF Whole!Threw, Whole!Blurred, Shown
    <3>6. Keeping'
      BY <1>1, <3>2, <3>3, ChangesKeep
    <3> QED BY <3>5, <3>6 DEF Ended
  <2>3. ASSUME NEW d \in Data, out = Returns(Value(IF T.void THEN Null ELSE d), Null)
        PROVE  Ended /\ Keeping'
    <3> DEFINE n == Value(IF T.void THEN Null ELSE d)
    <3>1. Good(n) /\ AsValue(d) = Abstract(n) /\ SetsTo(obj[x], n, out)
      BY <1>2, <2>3, NewIsGood, ArgumentsShow
    <3>2. out.o = n /\ n # Null
      BY <2>3, <3>1 DEF Returns, Outcome, Good
    <3>3. AsValue(n.data) = AsValue(d)
      BY DEF AsValue, Value
    <3> HIDE DEF n
    <3>4. Ends("make", x, x, Abstract(n), out)
      BY <2>1, <3>1, <3>2, <3>3
    <3> QED BY <1>1, <2>1, <3>1, <3>4, SetsShows
  <2> QED BY <2>1, <2>2, <2>3 DEF DefaultConstructed, If
<1> QED BY <1>3, <1>4

\* Assignment of a value or an error, and emplace.
LEMMA SetImplements ==
  ASSUME IInv, Ready', Keeping, NEW x \in Objs, Set(x)
  PROVE  Ended /\ Keeping'
<1>1. Ready /\ Exists(x) /\ Good(obj[x])
  BY ExistingIsGood DEF Set, Exists
<1>2. PICK d \in Data :
        \/ ~T.void /\ On("set", x, AsValue(d), assign_value(obj[x], d))
        \/ ~T.void /\ On("set", x, AsValue(d), emplace(obj[x], d))
        \/ On("set", x, AsError(d), assign_unexpected(obj[x], d))
  BY DEF Set
<1>3. /\ ~T.void => Good(Value(d)) /\ AsValue(d) = Abstract(Value(d))
      /\ Good(Error(d)) /\ AsError(d) = Abstract(Error(d))
  BY NewIsGood, ArgumentsShow
<1>4. \A out : Fine(out) =>
        /\ ~T.void /\ out \in assign_value(obj[x], d) => SetsTo(obj[x], Value(d), out)
        /\ ~T.void /\ out \in emplace(obj[x], d) => SetsTo(obj[x], Value(d), out)
        /\ out \in assign_unexpected(obj[x], d) => SetsTo(obj[x], Error(d), out)
  BY <1>1, SetSetsTo
<1>5. CASE ~T.void /\ On("set", x, AsValue(d), assign_value(obj[x], d))
  BY <1>1, <1>3, <1>4, <1>5, OnShows
<1>6. CASE ~T.void /\ On("set", x, AsValue(d), emplace(obj[x], d))
  BY <1>1, <1>3, <1>4, <1>6, OnShows
<1>7. CASE On("set", x, AsError(d), assign_unexpected(obj[x], d))
  BY <1>1, <1>3, <1>4, <1>7, OnShows
<1> QED BY <1>2, <1>5, <1>6, <1>7

\* An operation with another object whose fine outcomes transfer it.
LEMMA WithTransfers ==
  ASSUME IInv, Ready, Ready', Keeping, NEW x \in Objs, NEW y \in Objs, x # y, Exists(y),
         NEW rv \in BOOLEAN, NEW outs,
         \A out \in outs : Fine(out) => Transfers(obj[x], obj[y], rv, out),
         With(IF rv THEN "move" ELSE "copy", x, y, outs)
  PROVE  Ended /\ Keeping'
<1> DEFINE op == IF rv THEN "move" ELSE "copy"
<1>1. PICK out \in outs : /\ obj' = [obj EXCEPT ![x] = out.o, ![y] = out.r]
                          /\ Ends(op, x, y, Null, out)
  BY DEF With
<1>2. op = IF rv THEN "move" ELSE "copy"
  OBVIOUS
<1> HIDE DEF op
<1>3. Transfers(obj[x], obj[y], rv, out)
  BY <1>1, ReadyIsFine
<1> QED BY <1>1, <1>2, <1>3, TransferShows

\* Construction, conversion and assignment from another object.
LEMMA TransferImplements ==
  ASSUME IInv, Ready', Keeping, NEW x \in Objs, NEW y \in Objs,
         Construct(x, y) \/ Convert(x, y) \/ Assign(x, y)
  PROVE  Ended /\ Keeping'
<1>1. Ready /\ x # y /\ Exists(y) /\ Good(obj[y])
  BY ExistingIsGood DEF Construct, Convert, Assign, Exists
<1>2. ASSUME NEW rv \in BOOLEAN, NEW outs,
             \A out \in outs : Fine(out) => Transfers(obj[x], obj[y], rv, out),
             With(IF rv THEN "move" ELSE "copy", x, y, outs)
      PROVE  Ended /\ Keeping'
  BY <1>1, <1>2, WithTransfers
<1>3. CASE Construct(x, y)
  <2> DEFINE outs(rv) == Constructed(obj[y], rv)
  <2>1. ASSUME NEW rv \in BOOLEAN, NEW out \in outs(rv), Fine(out)
        PROVE  Transfers(obj[x], obj[y], rv, out)
    BY <1>1, <2>1, ConstructedTransfers DEF Transfers
  <2>2. PICK rv \in BOOLEAN : With(IF rv THEN "move" ELSE "copy", x, y, outs(rv))
    BY <1>3 DEF Construct, expected_copy_base, expected_move_base
  <2> DEFINE seen == outs(rv)
  <2>3. /\ \A out \in seen : Fine(out) => Transfers(obj[x], obj[y], rv, out)
        /\ With(IF rv THEN "move" ELSE "copy", x, y, seen)
    BY <2>1, <2>2
  <2> HIDE DEF seen
  <2> QED BY <1>2, <2>3
<1>4. CASE Convert(x, y)
  <2> DEFINE outs(rv) == Converted(obj[y], rv)
  <2>0. obj[x] = Null
    BY <1>4 DEF Convert, Exists
  <2>1. ASSUME NEW rv \in BOOLEAN, NEW out \in outs(rv), Fine(out)
        PROVE  Transfers(obj[x], obj[y], rv, out)
    BY <1>1, <2>0, <2>1, ConvertedTransfers
  <2>2. PICK rv \in BOOLEAN : With(IF rv THEN "move" ELSE "copy", x, y, outs(rv))
    BY <1>4 DEF Convert
  <2> DEFINE seen == outs(rv)
  <2>3. /\ \A out \in seen : Fine(out) => Transfers(obj[x], obj[y], rv, out)
        /\ With(IF rv THEN "move" ELSE "copy", x, y, seen)
    BY <2>1, <2>2
  <2> HIDE DEF seen
  <2> QED BY <1>2, <2>3
<1>5. CASE Assign(x, y)
  <2> DEFINE outs(rv) == assign(obj[x], obj[y], rv)
  <2>0. Good(obj[x]) /\ TypesOK
    BY <1>1, <1>5, ExistingIsGood DEF Assign, Exists, IInv
  <2>1. ASSUME NEW rv \in BOOLEAN, NEW out \in outs(rv), Fine(out)
        PROVE  Transfers(obj[x], obj[y], rv, out)
    BY <1>1, <2>0, <2>1, AssignTransfers
  <2>2. PICK rv \in BOOLEAN : With(IF rv THEN "move" ELSE "copy", x, y, outs(rv))
    BY <1>5 DEF Assign
  <2> DEFINE seen == outs(rv)
  <2>3. /\ \A out \in seen : Fine(out) => Transfers(obj[x], obj[y], rv, out)
        /\ With(IF rv THEN "move" ELSE "copy", x, y, seen)
    BY <2>1, <2>2
  <2> HIDE DEF seen
  <2> QED BY <1>2, <2>3
<1> QED BY <1>3, <1>4, <1>5

\* swap.
LEMMA SwapImplements ==
  ASSUME IInv, Ready', Keeping, NEW x \in Objs, NEW y \in Objs, Swap(x, y)
  PROVE  Ended /\ Keeping'
<1>1. /\ Ready /\ x # y /\ Exists(x) /\ Exists(y) /\ ~T.void
      /\ Good(obj[x]) /\ Good(obj[y])
  BY ExistingIsGood DEF Swap, Exists
<1>2. PICK out \in swap(obj[x], obj[y]) :
        /\ obj' = [obj EXCEPT ![x] = out.o, ![y] = out.r]
        /\ Ends("swap", x, y, Null, out)
  BY DEF Swap, With
<1>3. Exchanges(obj[x], obj[y], out)
  BY <1>1, SwapExchanges
<1> QED BY <1>1, <1>2, <1>3, ExchangeShows

\* The destructor.
LEMMA DestroyImplements ==
  ASSUME IInv, Ready', Keeping, NEW x \in Objs, Destroy(x)
  PROVE  Ended /\ Keeping'
<1> DEFINE m == IF obj[x].has THEN "value" ELSE "error"
           out == Switches(obj[x], m, Null, Null)
<1>1. obj' = [obj EXCEPT ![x] = out.o] /\ Ends("destroy", x, x, Null, out)
  BY DEF Destroy, On
<1>2. out.end = "returned" /\ out.o = Null
  BY DEF Switches, Outcome
<1> HIDE DEF out
<1>3. call'.op = "destroy" /\ call'.on = x /\ call'.end = "returned" /\ T' = T
  BY <1>1, <1>2 DEF Ends
<1>4. /\ Shown' = [Shown EXCEPT ![x] = Abstract(Null)]
      /\ obj'[x] = Null /\ \A z \in Objs \ {x} : obj'[z] = obj[z]
  BY <1>1, <1>2, OneChanges DEF IInv
<1>5. Abstract(Null) = Null /\ Stored(Null)
  BY DEF Abstract, Stored
<1>6. Whole!Destroy
  BY <1>3, <1>4, <1>5 DEF Whole!Destroy, Shown
<1>7. Keeping'
  BY <1>3, <1>4, <1>5, ChangesKeep
<1> QED BY <1>3, <1>6, <1>7 DEF Whole!Returned, Ended

\* The monadic operations.
LEMMA DeriveImplements ==
  ASSUME IInv, Ready', Keeping, NEW x \in Objs, NEW y \in Objs,
         and_then(x, y) \/ map(x, y) \/ map_error(x, y) \/ or_else(x, y)
  PROVE  Ended /\ Keeping'
<1>1. Ready /\ ~Exists(x) /\ Exists(y) /\ Good(obj[y])
  BY ExistingIsGood DEF and_then, map, map_error, or_else, Derive, Exists
<1>2. ASSUME NEW op, NEW rv \in BOOLEAN, NEW outs, With(op, x, y, outs), NEW sees, NEW gives,
             \A out \in outs : Fine(out) => MadeOf(obj[y], sees, gives, out),
             \/ op = "and_then" /\ sees = TRUE /\ gives = BOOLEAN
             \/ op = "map" /\ sees = TRUE /\ gives = {TRUE}
             \/ op = "map_error" /\ sees = FALSE /\ gives = {FALSE}
             \/ op = "or_else" /\ sees = FALSE /\ gives = BOOLEAN
      PROVE  Ended /\ Keeping'
  <2>1. PICK out \in outs : /\ obj' = [obj EXCEPT ![x] = out.o, ![y] = out.r]
                            /\ Ends(op, x, y, Null, out)
    BY <1>2 DEF With
  <2>2. MadeOf(obj[y], sees, gives, out)
    BY <1>2, <2>1, ReadyIsFine
  <2> QED BY <1>1, <1>2, <2>1, <2>2, MadeShows
<1>3. \A rv \in BOOLEAN : \A out :
        Fine(out) =>
          /\ out \in and_then_impl(obj[y], rv) => MadeOf(obj[y], TRUE, BOOLEAN, out)
          /\ out \in expected_map_impl(obj[y], rv) => MadeOf(obj[y], TRUE, {TRUE}, out)
          /\ out \in map_error_impl(obj[y], rv) => MadeOf(obj[y], FALSE, {FALSE}, out)
          /\ out \in or_else_impl(obj[y], rv) => MadeOf(obj[y], FALSE, BOOLEAN, out)
  BY <1>1, MonadicIsMade
<1>4. CASE and_then(x, y)
  <2>1. PICK rv \in BOOLEAN : With("and_then", x, y, and_then_impl(obj[y], rv))
    BY <1>4 DEF and_then, Derive
  <2> DEFINE outs == and_then_impl(obj[y], rv)
  <2>2. \A out \in outs : Fine(out) => MadeOf(obj[y], TRUE, BOOLEAN, out)
    BY <1>3
  <2>3. With("and_then", x, y, outs)
    BY <2>1
  <2> HIDE DEF outs
  <2> QED BY <1>2, <2>2, <2>3
<1>5. CASE map(x, y)
  <2>1. PICK rv \in BOOLEAN : With("map", x, y, expected_map_impl(obj[y], rv))
    BY <1>5 DEF map, Derive
  <2> DEFINE outs == expected_map_impl(obj[y], rv)
  <2>2. \A out \in outs : Fine(out) => MadeOf(obj[y], TRUE, {TRUE}, out)
    BY <1>3
  <2>3. With("map", x, y, outs)
    BY <2>1
  <2> HIDE DEF outs
  <2> QED BY <1>2, <2>2, <2>3
<1>6. CASE map_error(x, y)
  <2>1. PICK rv \in BOOLEAN : With("map_error", x, y, map_error_impl(obj[y], rv))
    BY <1>6 DEF map_error, Derive
  <2> DEFINE outs == map_error_impl(obj[y], rv)
  <2>2. \A out \in outs : Fine(out) => MadeOf(obj[y], FALSE, {FALSE}, out)
    BY <1>3
  <2>3. With("map_error", x, y, outs)
    BY <2>1
  <2> HIDE DEF outs
  <2> QED BY <1>2, <2>2, <2>3
<1>7. CASE or_else(x, y)
  <2>1. PICK rv \in BOOLEAN : With("or_else", x, y, or_else_impl(obj[y], rv))
    BY <1>7 DEF or_else, Derive
  <2> DEFINE outs == or_else_impl(obj[y], rv)
  <2>2. \A out \in outs : Fine(out) => MadeOf(obj[y], FALSE, BOOLEAN, out)
    BY <1>3
  <2>3. With("or_else", x, y, outs)
    BY <2>1
  <2> HIDE DEF outs
  <2> QED BY <1>2, <2>2, <2>3
<1> QED BY <1>4, <1>5, <1>6, <1>7

\* At the start there is no object, for either.
LEMMA InitImplements == Init => (Ready => Keeping) /\ Whole!Init
BY DEF Init, Keeping, Stored, Whole!Init, Abstract, Ready

\* Every step is one of the specification's or a stutter; what follows something
\* undefined or the end of the program is over.
LEMMA StepImplements ==
  IInv /\ (Ready => Keeping) /\ [Next]_vars => (Ready => Keeping)' /\ [Whole!Next]_Whole!vars
<1> SUFFICES ASSUME IInv, Ready => Keeping, [Next]_vars
             PROVE  (Ready => Keeping)' /\ [Whole!Next]_Whole!vars
  OBVIOUS
<1>1. CASE UNCHANGED vars
  BY <1>1 DEF vars, Ready, Keeping, Stored, Whole!vars
<1>2. CASE Next
  <2>1. Ready
    BY <1>2 DEF Next, Make, Default, Set, Destroy, value, value_or, Construct, Convert, Assign,
                Swap, Compare, and_then, map, map_error, or_else, Derive
  <2>2. ASSUME Ready' PROVE Ended /\ Keeping'
    <3>1. ASSUME NEW x \in Objs,
                 Make(x) \/ Default(x) \/ Set(x) \/ Destroy(x) \/ value(x) \/ value_or(x)
          PROVE  Ended /\ Keeping'
      <4>1. value(x) \/ value_or(x) => Exists(x)
        BY DEF value, value_or
      <4> QED BY <2>1, <2>2, <3>1, <4>1, MakeImplements, SetImplements, DestroyImplements,
                 SeesShows
    <3>2. ASSUME NEW x \in Objs, NEW y \in Objs,
                 \/ Construct(x, y) \/ Convert(x, y) \/ Assign(x, y)
                 \/ Swap(x, y) \/ Compare(x, y)
                 \/ and_then(x, y) \/ map(x, y) \/ map_error(x, y) \/ or_else(x, y)
          PROVE  Ended /\ Keeping'
      BY <2>1, <2>2, <3>2, TransferImplements, SwapImplements, CompareShows, DeriveImplements
    <3> QED BY <1>2, <3>1, <3>2 DEF Next
  <2>3. Whole!Next
    BY <2>1, <2>2, EndedIsNext
  <2> QED BY <2>2, <2>3
<1> QED BY <1>1, <1>2

\* For any types, objects and data, tl::expected is a value or an error that changes
\* as a whole: an operation that throws has changed nothing but data of the
\* alternative it was assigning, or the program has ended (expected.hpp:703-706).
THEOREM ChangesAsAWhole == Spec => ImplementsResult
<1> QED
  BY InitImplements, StepImplements, Invariance, PTL DEF Spec, ImplementsResult, Whole!Spec

=============================================================================
