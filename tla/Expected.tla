------------------------------ MODULE Expected ------------------------------
(***************************************************************************)
(* tl::expected<T, E> (expected.hpp), which rpc_result is: a union of a    *)
(* value and an error, the flag that says which of them is live, and the   *)
(* operations that end one's lifetime and begin the other's by hand, while *)
(* copies and moves may throw.                                             *)
(*                                                                         *)
(* The types are given by their traits, the conditions the overloads are   *)
(* chosen by.  Two things are undefined or lose a destructor call: to      *)
(* destroy or assign to a member that is not live ("dead"), and to         *)
(* construct over one that is ("leak").  A constructor that throws leaves  *)
(* its argument as it was; an assignment that throws may lose the data of  *)
(* its target.  Self-assignment, and swap of void values, which            *)
(* is_swappable excludes, are left out.                                    *)
(***************************************************************************)
CONSTANTS
  Objs,
  Data,         \* values and errors
  Unspecified,  \* the data of what has been moved from
  Null,         \* no object; the data of void
  ValueTypes,   \* T: void; trivially destructible; default constructible; whether
                \* construction from an argument, copy and move throw
  ErrorTypes    \* E: trivially destructible; copy, move

Throws == {"never", "maybe", "deleted"}

ASSUME ExpectedAssumption ==
  /\ Null \notin Data \cup {Unspecified}
  /\ ValueTypes \subseteq [void : BOOLEAN, trivial : BOOLEAN, default : BOOLEAN,
                           build : Throws, copy : Throws, move : Throws]
  /\ ErrorTypes \subseteq [trivial : BOOLEAN, copy : Throws, move : Throws]

VARIABLES
  T, E,  \* the types
  obj,   \* of each object: Null or m_has_val, the live member and its data
  call,  \* the last operation, see module Result
  harm   \* history: what it did that it must not

vars == <<T, E, obj, call, harm>>

Storage == [has : BOOLEAN, holds : {"value", "error", "raw"},
            data : Data \cup {Unspecified, Null}]

\* Null is no object, and nothing that an object shows.
ASSUME NullAssumption ==
  /\ Null \notin Storage
  /\ Null \notin [is : {"value", "error"}, data : Data \cup {Unspecified, Null}]

Init ==
  /\ T \in ValueTypes /\ E \in ErrorTypes
  /\ obj = [x \in Objs |-> Null]
  /\ call = [op |-> "none", on |-> Null, of |-> Null, arg |-> Null,
             end |-> "returned", got |-> Null]
  /\ harm = {}

-----------------------------------------------------------------------------
(* Storage, destructors, and what an operation may come to.                *)

Value(d) == [has |-> TRUE, holds |-> "value", data |-> d]
Error(d) == [has |-> FALSE, holds |-> "error", data |-> d]

\* no_init; a member destroyed.
Raw(o) == [has |-> o.has, holds |-> "raw", data |-> o.data]

NeitherTrivial == {"value", "error"}
BothTrivial == {}
ValueTrivial == {"error"}
ErrorTrivial == {"value"}
VoidErrorTrivial == {}
Void == {"error"}

\* The members whose destructor ~expected_storage_base calls.
Destructible ==
  CASE T.void /\ E.trivial -> VoidErrorTrivial
    [] T.void /\ ~E.trivial -> Void
    [] ~T.void /\ T.trivial /\ E.trivial -> BothTrivial
    [] ~T.void /\ T.trivial /\ ~E.trivial -> ValueTrivial
    [] ~T.void /\ ~T.trivial /\ E.trivial -> ErrorTrivial
    [] ~T.void /\ ~T.trivial /\ ~E.trivial -> NeitherTrivial

Named(m, why) == {w \in {why} : m \in Destructible}

\* The object, the one the operation is called with, and what it has done to them.
Outcome(end, o, r, harms) == [end |-> end, o |-> o, r |-> r, harm |-> harms]
Returns(o, r) == Outcome("returned", o, r, {})
Fails(o, r) == Outcome("threw", o, r, {})
Dies(o, r) == Outcome("terminated", o, r, {})

\* Member m destroyed and another object constructed in its place.
Switches(o, m, new, r) ==
  Outcome("returned", new, r, IF o.holds = m THEN {} ELSE Named(m, "dead"))

If(can, outs) == IF can = "maybe" THEN outs ELSE {}

\* An exception that leaves a noexcept function.
NoExcept(outs) ==
  {Outcome(IF out.end = "threw" THEN "terminated" ELSE out.end, out.o, out.r, out.harm) :
     out \in outs}

\* How T and E throw when they are copied or, from an rvalue, moved; what an
\* object that was used as an rvalue holds; what a failed assignment may leave.
ByT(rv) == IF rv THEN T.move ELSE T.copy
ByE(rv) == IF rv THEN E.move ELSE E.copy
Lost(o) == [has |-> o.has, holds |-> o.holds, data |-> Unspecified]
Left(r, rv) == IF rv /\ r.holds \in Destructible THEN Lost(r) ELSE r
Spoilt(o) == {o, Lost(o)}

-----------------------------------------------------------------------------
(* Construction.                                                           *)

DefaultConstructed ==
  {Returns(Value(IF T.void THEN Null ELSE d), Null) : d \in Data}
    \cup If(T.build, {Fails(Null, Null)})

InPlace(d) ==
  {Returns(Value(IF T.void THEN Null ELSE d), Null)} \cup If(T.build, {Fails(Null, Null)})

FromUnexpected(d) == {Returns(Error(d), Null)} \cup If(E.copy, {Fails(Null, Null)})

\* construct_with and construct_error are noexcept, whatever T and E say.
Constructed(r, rv) ==
  IF r.has
  THEN {Returns(Value(r.data), Left(r, rv))} \cup If(ByT(rv), {Dies(Raw(r), r)})
  ELSE {Returns(Error(r.data), Left(r, rv))} \cup If(ByE(rv), {Dies(Raw(r), r)})

expected_copy_base(r) == Constructed(r, FALSE)
expected_move_base(r) == Constructed(r, TRUE)

\* From an expected of other types: the base has already constructed T{}, over
\* which the value or the error goes.
Converted(r, rv) ==
  {Outcome(out.end, out.o, out.r,
           IF out.end = "returned" THEN Named("value", "leak") ELSE {}) :
     out \in Constructed(r, rv)}
  \cup If(T.build, {Fails(Null, r)})

-----------------------------------------------------------------------------
(* Assignment.                                                             *)

assign_common(o, r, rv) ==
  CASE o.has /\ r.has ->
         {Returns(Value(r.data), Left(r, rv))}
           \cup If(ByT(rv), {Fails(s, r) : s \in Spoilt(o)})
    [] o.has /\ ~r.has ->
         {Switches(o, "value", Error(r.data), Left(r, rv))} \cup If(ByE(rv), {Dies(Raw(o), r)})
    [] ~o.has /\ r.has -> {Returns(o, r)}
    [] ~o.has /\ ~r.has ->
         {Returns(Error(r.data), Left(r, rv))}
           \cup If(ByE(rv), {Fails(s, r) : s \in Spoilt(o)})

\* geterr().~unexpected<E>(), construct: without an exception.
Switched(o, r, rv) == {Switches(o, "error", Value(r.data), Left(r, rv))}

assign_nothrow_copy(o, r) ==
  NoExcept(IF ~o.has /\ r.has THEN Switched(o, r, FALSE) ELSE assign_common(o, r, FALSE))

\* T tmp = rhs.get() throws before anything has changed, but out of a noexcept
\* function.
assign_through_copy(o, r) ==
  NoExcept(IF ~o.has /\ r.has THEN Switched(o, r, FALSE) \cup {Fails(o, r)}
                              ELSE assign_common(o, r, FALSE))

\* construct is noexcept: the handler that would move the error back is not reached.
assign_worst_case(o, r) ==
  IF ~o.has /\ r.has
  THEN Switched(o, r, FALSE) \cup {Dies(Raw(o), r)} \cup If(E.move, {Fails(o, r)})
  ELSE assign_common(o, r, FALSE)

assign_nothrow_move(o, r) ==
  NoExcept(IF ~o.has /\ r.has THEN Switched(o, r, TRUE) ELSE assign_common(o, r, TRUE))

assign_throwing_move(o, r) ==
  IF ~o.has /\ r.has
  THEN Switched(o, r, TRUE) \cup {Dies(Raw(o), r)} \cup If(E.move, {Fails(o, r)})
  ELSE assign_common(o, r, TRUE)

assign_void(o, r, rv) ==
  NoExcept(CASE o.has /\ r.has -> {Returns(o, r)}
             [] ~o.has /\ r.has -> Switched(o, r, FALSE)
             [] ~r.has -> assign_common(o, r, rv))

assign(o, r, rv) ==
  CASE T.void -> assign_void(o, r, rv)
    [] ~T.void /\ ~rv /\ T.copy = "never" -> assign_nothrow_copy(o, r)
    [] ~T.void /\ ~rv /\ T.copy # "never" /\ T.move = "never" -> assign_through_copy(o, r)
    [] ~T.void /\ ~rv /\ T.copy # "never" /\ T.move # "never" -> assign_worst_case(o, r)
    [] ~T.void /\ rv /\ T.move = "never" -> assign_nothrow_move(o, r)
    [] ~T.void /\ rv /\ T.move # "never" -> assign_throwing_move(o, r)

\* The flag left as it was.
SetValueKeepsFlag(o, d) ==
  Switches(o, "error", [has |-> o.has, holds |-> "value", data |-> d], Null)

SetValue(o, d) == Switches(o, "error", Value(d), Null)

\* The error aside not moved back.
ErrorNotRestored(o, d) ==
  {SetValue(o, d)} \cup If(T.build, {Fails(Lost(o), Null)})

\* A new value over an error: the error is moved aside and destroyed; if T throws
\* then, it is assigned back to what has been destroyed.
OverError(o, d) ==
  {SetValue(o, d)} \cup If(T.build, {Outcome("threw", o, Null, Named("error", "dead"))})

\* operator=(U&&): for an E whose move does not throw.
assign_value(o, d) ==
  IF o.has THEN {Returns(Value(d), Null)} \cup If(T.build, {Fails(s, Null) : s \in Spoilt(o)})
           ELSE OverError(o, d)

\* With a value, T is built aside and moved in.
emplace(o, d) ==
  IF o.has
  THEN {Returns(Value(d), Null)} \cup If(T.build, {Fails(o, Null)})
         \cup If(T.move, {Fails(s, Null) : s \in Spoilt(o)})
  ELSE OverError(o, d) \cup (IF T.build = "maybe" THEN If(E.move, {Fails(o, Null)}) ELSE {})

\* operator=(unexpected<G>): for an E whose copy or move does not throw.
assign_unexpected(o, d) ==
  IF o.has THEN {Switches(o, "value", Error(d), Null)} ELSE {Returns(Error(d), Null)}

-----------------------------------------------------------------------------
(* swap: o has the value where only one has.                               *)

SwapsOf(o, r) == {Fails(s, q) : s \in Spoilt(o), q \in Spoilt(r)}

swap_same(o, r) == {Returns(r, o)} \cup If(IF o.has THEN T.move ELSE E.move, SwapsOf(o, r))

swap_nothrow(o, r) == {Switches(o, "value", Error(r.data), Value(o.data))}

\* The value has been destroyed when E throws, and is assigned back.
swap_error_throws(o, r) ==
  swap_nothrow(o, r)
    \cup If(E.move, {Outcome("threw", o, r, Named("value", "dead"))})

\* The handler forgotten.
swap_not_restored(o, r) ==
  swap_nothrow(o, r) \cup If(T.copy, {Fails(o, Raw(r))})

\* T(val()) is a copy; if it throws the error has been destroyed, and is assigned
\* back.
swap_value_throws(o, r) ==
  swap_nothrow(o, r)
    \cup If(T.copy, {Outcome("threw", o, r, Named("error", "dead"))})

swap_one(o, r) ==
  CASE T.move = "never" /\ E.move = "never" -> swap_nothrow(o, r)
    [] T.move = "never" /\ E.move # "never" -> swap_error_throws(o, r)
    [] T.move # "never" -> swap_value_throws(o, r)

Turned(outs) == {Outcome(out.end, out.r, out.o, out.harm) : out \in outs}

swap(o, r) ==
  CASE o.has = r.has -> swap_same(o, r)
    [] ~o.has /\ r.has -> Turned(swap_one(r, o))
    [] o.has /\ ~r.has -> swap_one(o, r)

-----------------------------------------------------------------------------
(* Monadic operations: a new object of r and of what the function returns  *)
(* or throws.  The function may use up the rvalue it is given.             *)

Used(r, rv) == {r, Left(r, rv)}
Given(alternatives) ==
  {Value(IF T.void THEN Null ELSE d) : d \in {d \in Data : "value" \in alternatives}}
    \cup {Error(d) : d \in {d \in Data : "error" \in alternatives}}
Applied(r, rv, alternatives) ==
  {Returns(n, q) : n \in Given(alternatives), q \in Used(r, rv)}
    \cup {Fails(Null, q) : q \in Used(r, rv)}

\* What is not for the function is copied or moved into the result.
Passed(r, rv, can) ==
  {Returns(r, Left(r, rv))} \cup If(can, {Fails(Null, r)})

and_then_impl(r, rv) ==
  IF r.has THEN Applied(r, rv, {"value", "error"}) ELSE Passed(r, rv, ByE(rv))

expected_map_impl(r, rv) ==
  IF r.has THEN Applied(r, rv, {"value"}) ELSE Passed(r, rv, ByE(rv))

map_error_impl(r, rv) ==
  IF r.has THEN Passed(r, rv, ByT(rv)) ELSE Applied(r, rv, {"error"})

\* A function that returns nothing gets the error first, and may use it up; then
\* the object itself is passed on.
or_else_impl(r, rv) ==
  IF r.has
  THEN Constructed(r, rv)
  ELSE Applied(r, rv, {"value", "error"}) \cup UNION {Constructed(q, rv) : q \in Used(r, rv)}

-----------------------------------------------------------------------------
(* The operations.                                                         *)

Ready == call.end # "terminated" /\ harm = {}
Exists(x) == obj[x] # Null

Ends(op, x, y, arg, out) ==
  /\ call' = [op |-> op, on |-> x, of |-> y, arg |-> arg, end |-> out.end, got |-> Null]
  /\ harm' = out.harm
  /\ UNCHANGED <<T, E>>

On(op, x, arg, outs) ==
  \E out \in outs : /\ obj' = [obj EXCEPT ![x] = out.o]
                    /\ Ends(op, x, x, arg, out)

With(op, x, y, outs) ==
  \E out \in outs : /\ obj' = [obj EXCEPT ![x] = out.o, ![y] = out.r]
                    /\ Ends(op, x, y, Null, out)

\* What an operation with an argument is to make of its object.
AsValue(d) == [is |-> "value", data |-> IF T.void THEN Null ELSE d]
AsError(d) == [is |-> "error", data |-> d]

EnableCopy == T.copy # "deleted" /\ E.copy # "deleted"
EnableMove == T.move # "deleted" /\ E.move # "deleted"

Make(x) ==
  /\ Ready /\ ~Exists(x)
  /\ \E d \in Data : \/ On("make", x, AsValue(d), InPlace(d))
                     \/ On("make", x, AsError(d), FromUnexpected(d))

Default(x) ==
  /\ Ready /\ ~Exists(x) /\ T.default
  /\ \E out \in DefaultConstructed :
       /\ obj' = [obj EXCEPT ![x] = out.o]
       /\ Ends("make", x, x, IF out.o = Null THEN Null ELSE AsValue(out.o.data), out)

Construct(x, y) ==
  /\ Ready /\ ~Exists(x) /\ Exists(y)
  /\ \/ EnableCopy /\ With("copy", x, y, expected_copy_base(obj[y]))
     \/ EnableMove /\ With("move", x, y, expected_move_base(obj[y]))

Convert(x, y) ==
  /\ Ready /\ ~Exists(x) /\ Exists(y) /\ T.default /\ ~T.void
  /\ \/ EnableCopy /\ With("copy", x, y, Converted(obj[y], FALSE))
     \/ EnableMove /\ With("move", x, y, Converted(obj[y], TRUE))

Assign(x, y) ==
  /\ Ready /\ x # y /\ Exists(x) /\ Exists(y)
  /\ \/ EnableCopy /\ With("copy", x, y, assign(obj[x], obj[y], FALSE))
     \/ EnableMove /\ With("move", x, y, assign(obj[x], obj[y], TRUE))

Set(x) ==
  /\ Ready /\ Exists(x)
  /\ \E d \in Data :
       \/ ~T.void /\ T.move # "deleted" /\ E.move = "never"
            /\ On("set", x, AsValue(d), assign_value(obj[x], d))
       \/ ~T.void /\ T.move # "deleted" /\ E.move # "deleted"
            /\ On("set", x, AsValue(d), emplace(obj[x], d))
       \/ "never" \in {E.copy, E.move}
            /\ On("set", x, AsError(d), assign_unexpected(obj[x], d))

Swap(x, y) ==
  /\ Ready /\ x # y /\ Exists(x) /\ Exists(y)
  /\ ~T.void /\ EnableMove /\ "never" \in {T.move, E.move}
  /\ T.move # "never" => T.copy # "deleted"
  /\ With("swap", x, y, swap(obj[x], obj[y]))

\* The destructor goes by the flag.
Destroy(x) ==
  /\ Ready /\ Exists(x)
  /\ LET m == IF obj[x].has THEN "value" ELSE "error"
     IN  On("destroy", x, Null, {Switches(obj[x], m, Null, Null)})

\* The four overloads of each: an lvalue is copied from, an rvalue moved.
Derive(op, x, y, impl(_, _)) ==
  /\ Ready /\ ~Exists(x) /\ Exists(y)
  /\ \E rv \in BOOLEAN : /\ IF rv THEN EnableMove ELSE EnableCopy
                        /\ With(op, x, y, impl(obj[y], rv))

and_then(x, y) == Derive("and_then", x, y, and_then_impl)

\* map and transform.
map(x, y) == Derive("map", x, y, expected_map_impl)

map_error(x, y) == Derive("map_error", x, y, map_error_impl)

or_else(x, y) == Derive("or_else", x, y, or_else_impl)

-----------------------------------------------------------------------------
(* Observers.  What an rvalue's gives may be moved from.                   *)

Sees(op, x, y, arg, end, got) ==
  /\ call' = [op |-> op, on |-> x, of |-> y, arg |-> arg, end |-> end, got |-> got]
  /\ UNCHANGED <<T, E, harm>>

\* value() throws bad_expected_access, made of the error.
value(x) ==
  /\ Ready /\ Exists(x) /\ ~T.void
  /\ \E rv \in BOOLEAN : obj' = [obj EXCEPT ![x] = Left(@, rv)]
  /\ IF obj[x].has THEN Sees("value", x, x, Null, "returned", obj[x].data)
                   ELSE Sees("value", x, x, Null, "threw", Null)

value_or(x) ==
  /\ Ready /\ Exists(x) /\ ~T.void
  /\ \E v \in Data, rv \in BOOLEAN :
       /\ IF rv THEN EnableMove ELSE EnableCopy
       /\ IF obj[x].has
          THEN \/ /\ obj' = [obj EXCEPT ![x] = Left(@, rv)]
                  /\ Sees("value_or", x, x, v, "returned", obj[x].data)
               \/ /\ ByT(rv) = "maybe" /\ UNCHANGED obj
                  /\ Sees("value_or", x, x, v, "threw", Null)
          ELSE UNCHANGED obj /\ Sees("value_or", x, x, v, "returned", v)

\* operator==, where that of the members holds if their data are equal.
Equal(o, r) ==
  CASE o.has # r.has -> {FALSE}
    [] o.has = r.has /\ Unspecified \in {o.data, r.data} -> BOOLEAN
    [] o.has = r.has /\ Unspecified \notin {o.data, r.data} -> {o.data = r.data}

Compare(x, y) ==
  /\ Ready /\ Exists(x) /\ Exists(y) /\ UNCHANGED obj
  /\ \E b \in Equal(obj[x], obj[y]) : Sees("equal", x, y, Null, "returned", b)

Next ==
  \/ \E x \in Objs : \/ Make(x) \/ Default(x) \/ Set(x) \/ Destroy(x)
                     \/ value(x) \/ value_or(x)
  \/ \E x, y \in Objs : \/ Construct(x, y) \/ Convert(x, y) \/ Assign(x, y)
                        \/ Swap(x, y) \/ Compare(x, y)
                        \/ and_then(x, y) \/ map(x, y)
                        \/ map_error(x, y) \/ or_else(x, y)

Spec == Init /\ [][Next]_vars

-----------------------------------------------------------------------------
(* Properties.                                                             *)

\* Between two operations the flag says which member is live, on every overload
\* and whatever the types throw, unless something undefined has happened:
\* m_has_val is set by hand wherever a member is constructed, and an exception may
\* come between a destructor and the constructor after it.
FlagMatchesMember ==
  Ready => \A x \in Objs : Exists(x) => obj[x].holds = IF obj[x].has THEN "value" ELSE "error"

\* Seen from outside, an expected is a value or an error that changes as a whole:
\* an operation that throws has changed nothing, except for data of the
\* alternative that was being assigned, or else the program has ended.
Abstract(o) ==
  IF o = Null THEN Null ELSE [is |-> IF o.has THEN "value" ELSE "error", data |-> o.data]
Whole == INSTANCE Result WITH result <- [x \in Objs |-> Abstract(obj[x])],
                              over <- ~Ready
ImplementsResult == Whole!Spec

=============================================================================
