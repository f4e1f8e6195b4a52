----------------------------- MODULE MCExpected -----------------------------
(***************************************************************************)
(* Expected for TLC: the kinds of types the overloads tell apart.          *)
(***************************************************************************)
EXTENDS Expected

Type(void, trivial, default, build, copy, move) ==
  [void |-> void, trivial |-> trivial, default |-> default,
   build |-> build, copy |-> copy, move |-> move]

\* void, an integer, a protobuf message, a type whose move throws too, one whose
\* copy does not, a unique_ptr, one that cannot be moved.
MCValueTypes == {
  Type(TRUE,  TRUE,  TRUE,  "never", "never",   "never"),
  Type(FALSE, TRUE,  TRUE,  "never", "never",   "never"),
  Type(FALSE, FALSE, TRUE,  "maybe", "maybe",   "never"),
  Type(FALSE, FALSE, TRUE,  "maybe", "maybe",   "maybe"),
  Type(FALSE, FALSE, FALSE, "never", "never",   "never"),
  Type(FALSE, FALSE, TRUE,  "never", "deleted", "never"),
  Type(FALSE, FALSE, FALSE, "maybe", "deleted", "deleted")}

\* An integer, a string, a type whose move throws too.
MCErrorTypes == {
  [trivial |-> TRUE,  copy |-> "never", move |-> "never"],
  [trivial |-> FALSE, copy |-> "maybe", move |-> "never"],
  [trivial |-> FALSE, copy |-> "maybe", move |-> "maybe"]}

=============================================================================
