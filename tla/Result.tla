------------------------------- MODULE Result -------------------------------
(***************************************************************************)
(* What expected<T, E> promises, without its storage: each object that     *)
(* exists is a value or an error with its data, and an operation takes     *)
(* effect as a whole or leaves everything as it was.  Data of an object    *)
(* moved from, or of one whose own assignment has failed, are Unspecified. *)
(***************************************************************************)
CONSTANTS
  Objs,
  Data,
  Unspecified,
  Null  \* no object; no data, as those of void

VARIABLES
  result,  \* of each object: Null or its alternative and data
  call,    \* the last operation: its name, the objects it was called on and
           \* with, its argument, how it ended, and what it gave
  over     \* the program was terminated, or its behaviour is undefined

vars == <<result, call, over>>

SameBut(X) == \A z \in Objs \ X : result'[z] = result[z]

\* Data may be lost, the alternative not.
Blurred(r, s) == r = s \/ (r # Null /\ s = [r EXCEPT !.data = Unspecified])

Init ==
  /\ result = [x \in Objs |-> Null]
  /\ call.op = "none"
  /\ over = FALSE

\* Construction and assignment from an argument.
Set == /\ call'.op \in {"make", "set"}
       /\ result' = [result EXCEPT ![call'.on] = call'.arg]

\* Construction and assignment from another object, which rvalues empty.
Copy == /\ call'.op = "copy"
        /\ result' = [result EXCEPT ![call'.on] = result[call'.of]]

Move == /\ call'.op = "move"
        /\ result'[call'.on] = result[call'.of]
        /\ Blurred(result[call'.of], result'[call'.of])
        /\ SameBut({call'.on, call'.of})

Swap == /\ call'.op = "swap"
        /\ result' = [result EXCEPT ![call'.on] = result[call'.of],
                                    ![call'.of] = result[call'.on]]

Destroy == /\ call'.op = "destroy"
           /\ result' = [result EXCEPT ![call'.on] = Null]

\* What an rvalue's observer gives is moved out of it.
Observe ==
  LET x == result[call'.on] y == result[call'.of]
  IN  /\ \/ /\ call'.op = "value" /\ x.is = "value" /\ call'.got = x.data
         \/ /\ call'.op = "value_or"
            /\ call'.got = IF x.is = "value" THEN x.data ELSE call'.arg
         \/ /\ call'.op = "equal" /\ UNCHANGED result
            /\ \/ call'.got = (x = y)
               \/ x.is = y.is /\ Unspecified \in {x.data, y.data}
      /\ Blurred(x, result'[call'.on])
      /\ SameBut({call'.on})

\* and_then, map, map_error and or_else make a new object of another one: their
\* function sees the alternative they are named for, the other passes through.
Derive(op, seen, given) ==
  /\ call'.op = op
  /\ LET from == result[call'.of] made == result'[call'.on]
     IN  IF from.is = seen THEN made # Null /\ made.is \in given
                           ELSE made = from
  /\ Blurred(result[call'.of], result'[call'.of])
  /\ SameBut({call'.on, call'.of})

Returned ==
  /\ call'.end = "returned"
  /\ \/ Set \/ Copy \/ Move \/ Swap \/ Destroy \/ Observe
     \/ Derive("and_then", "value", {"value", "error"})
     \/ Derive("map", "value", {"value"})
     \/ Derive("map_error", "error", {"error"})
     \/ Derive("or_else", "error", {"value", "error"})

\* Nothing has happened, also when the operation was to change one alternative to
\* the other; but the data of what was being assigned or moved may be lost.
Threw ==
  /\ call'.end = "threw"
  /\ \A z \in Objs : Blurred(result[z], result'[z])
  /\ call'.op = "set" /\ call'.arg.is # result[call'.on].is => UNCHANGED result
  /\ call'.op \in {"copy", "swap"} /\ result[call'.on] # Null
     /\ result[call'.on].is # result[call'.of].is => UNCHANGED result
  /\ call'.op = "value" => result[call'.on].is = "error" /\ SameBut({call'.on})

Next ==
  /\ ~over
  /\ \/ (Returned \/ Threw) /\ over' = FALSE
     \/ over' = TRUE

Spec == Init /\ [][Next]_vars

=============================================================================
