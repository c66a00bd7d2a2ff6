---------------------------- MODULE EndpointHooks ----------------------------
(***************************************************************************)
(* ExtraArchivedLogDestIDs, the one field of an endpoint that is compared  *)
(* by hand (pkg/resource/endpoint/hooks.go): a list of numbers in          *)
(* OracleSettings.  A list that is nil is taken as an empty one.           *)
(***************************************************************************)
EXTENDS Naturals, Sequences, Functions, SequencesExt

CONSTANTS
  Number,    \* the numbers that occur
  MaxLength  \* bound: the length of a list

VARIABLES
  desired,  \* the list in Spec
  stored    \* the list that AWS has

vars == <<desired, stored>>

List == SeqOf(Number, MaxLength)

Init == desired = <<>> /\ stored = <<>>

\* Whether the lists count as different.
compareExtraArchivedLogDestIDs(a, b) ==
  Len(a) # Len(b) \/ ~(Range(b) \subseteq Range(a))

UserEdits == desired' \in List /\ UNCHANGED stored

\* AWS is given the whole list.
ModifyEndpoint ==
  /\ compareExtraArchivedLogDestIDs(desired, stored)
  /\ stored' = desired /\ UNCHANGED desired

Next == UserEdits \/ ModifyEndpoint

Spec == Init /\ [][Next]_vars

-----------------------------------------------------------------------------
Same(a, b) == Range(a) = Range(b)

\* Without duplicates a difference is found if and only if the lists have different elements.
DifferenceIsOfElements ==
  IsInjective(desired) /\ IsInjective(stored)
  => (compareExtraArchivedLogDestIDs(desired, stored) <=> ~Same(desired, stored))

\* "The order of the values in the list and any duplicate values are not important": lists that
\* differ in nothing else count as equal.
DuplicatesDoNotMatter ==
  Same(desired, stored) => ~compareExtraArchivedLogDestIDs(desired, stored)

\* A function "for comparing lists" of values whose duplicates are not important finds lists
\* different that do not have the same values.
DifferenceIsFound ==
  ~Same(desired, stored) => compareExtraArchivedLogDestIDs(desired, stored)
=============================================================================
