---------------------------- MODULE FapiStruct ----------------------------
(***************************************************************************)
(* A C++ struct as glaze sees it: the members that a JSON object must have,*)
(* the std::optional ones, and the key that stands for each (its own name, *)
(* unless a glz::meta says otherwise).  A glz::meta that is an array names *)
(* the members in the order of their positions.                            *)
(***************************************************************************)
EXTENDS Sequences, SequencesExt, Functions

Struct(required, optional) == [required |-> required, optional |-> optional]
Extend(base, required, optional) ==
    Struct(base.required \cup required, base.optional \cup optional)
Members(t) == t.required \cup t.optional

\* The keys of a meta, or of plain reflection, that are the members' names.
Same(members) == [m \in members |-> m]
Reflected(t) == Same(Members(t))
=============================================================================
