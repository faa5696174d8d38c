----------------------------- MODULE ErrorDetails -----------------------------
(***************************************************************************)
(* grd_error_details: what a caller is told of a refusal, in up to three   *)
(* strings.  Each is copied into memory of the caller's allocator, or of   *)
(* the host when the allocator has no room, and goes back to where it came *)
(* from; a flag for each says which that is.                               *)
(*                                                                         *)
(* The wording is left out.  That the host has room is taken as given: the *)
(* code copies into whatever malloc answered.                              *)
(***************************************************************************)
EXTENDS Integers, FiniteSets

Fields == {"message", "actual", "expected"}

VARIABLES
  details,  \* the struct: which pointers are set, and used_default_malloc_flag
  strings   \* the copies that are live: <<field, where it was taken from>>

detailsVars == <<details, strings>>

Details == [set : SUBSET Fields, malloced : SUBSET Fields]

EmptyDetails == [set |-> {}, malloced |-> {}]

IsEmpty == details.set = {} /\ details.malloced = {}

\* The copies the pointers in the struct point at, wherever they are.
Pointed == {s \in strings : s[1] \in details.set}

\* grd_error_details_init: whatever was there is forgotten, not released.
DetailsInit ==
  /\ Pointed = {}
  /\ details' = EmptyDetails
  /\ UNCHANGED strings

\* A slip: assigned anew for each copy, the flag is that of the last.
FlagsOfTheLast(fields, refused) ==
  IF "expected" \in fields THEN refused \cap {"expected"} ELSE refused

FlagsWith(fields, refused) == details.malloced \cup refused

\* grd_error_details_fill of an empty struct: every field given is copied, by
\* malloc where the allocator refused it.
Filled(fields) ==
  \E refused \in SUBSET fields :
    /\ details' = [set |-> fields, malloced |-> FlagsWith(fields, refused)]
    /\ strings' = strings \cup {<<f, IF f \in refused THEN "host" ELSE "allocator">>
                                : f \in fields}

\* A second fill is refused while any pointer is set.
Fill(fields) ==
  IF details.set = {} THEN Filled(fields) ELSE UNCHANGED detailsVars

\* grd_error_details_release: each copy back to where its flag says.  The
\* pointers stay; a caller releases the copies once.
DetailsRelease ==
  /\ Pointed # {}
  /\ strings' = strings \ {<<f, IF f \in details.malloced THEN "host" ELSE "allocator">>
                           : f \in details.set}
  /\ UNCHANGED details

=============================================================================
