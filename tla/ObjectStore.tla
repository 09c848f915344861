---------------------------- MODULE ObjectStore ----------------------------
(***************************************************************************)
(* A Keptn resource in the store of the API server, which clients of all   *)
(* API versions read and update: the conversion webhook converts it from   *)
(* the storage version and back.                                           *)
(***************************************************************************)
EXTENDS ApiConversion

CONSTANTS
    MaxWrites         \* bound: writes to the object

VARIABLES
    kind,     \* the kind of the object
    stored,   \* the object in its storage version
    edit,     \* the last edit of it: through which version, and which field
    writes    \* the number of writes so far

storeVars == <<kind, stored, edit, writes>>

NoEdit == [version |-> "v1", field |-> <<"none", "none">>]

\* A client of some version has created the object with every field set.
InitStore ==
    /\ kind \in Kinds
    /\ \E v \in Versions(kind) : stored = ConvertTo(kind, v, Filled(kind, v, 2))
    /\ edit = NoEdit
    /\ writes = 0

\* The object with one field changed: of a list, one field of its item.
Edited(o, f) == IF IsList(kind, f) THEN [o EXCEPT ![f]["status"] = 3] ELSE [o EXCEPT ![f] = 3]

\* The API server: an update of an object leaves its status alone, an update of
\* its status subresource leaves the rest alone.
Update(new, f) ==
    [g \in DOMAIN stored |-> IF InStatus(g) = InStatus(f) THEN new[g] ELSE stored[g]]

\* A client of version v reads the object, changes a field and writes it back.
\* The resource version makes the whole atomic.
ReadModifyWrite(v, f) ==
    /\ writes < MaxWrites
    /\ LET read == ConvertFrom(kind, v, stored)
       IN  stored' = Update(ConvertTo(kind, v, Edited(read, f)), f)
    /\ edit' = [version |-> v, field |-> f]
    /\ writes' = writes + 1
    /\ UNCHANGED kind

NextStore == \E v \in Versions(kind) : \E f \in Fields(kind, v) : ReadModifyWrite(v, f)

-----------------------------------------------------------------------------
\* The fields that a version shares with the storage version and that its conversions
\* lose all the same: the revision, which v1alpha2 resets, the metadata and span links
\* of an app version, and the items of a v1alpha1 workload instance, whose fields
\* nothing renames.
KnownLosses(v) ==
    CASE kind = "KeptnAppVersion" /\ v = "v1alpha2" -> {<<"spec", "revision">>}
      [] kind = "KeptnAppVersion" /\ v = "v1beta1"  -> {<<"spec", "metadata">>, <<"spec", "spanLinks">>}
      [] kind = "KeptnWorkloadInstance" /\ v = "v1alpha1" ->
            {<<"status", l>> : l \in CheckItems}
      [] OTHER                                      -> {}

(***************************************************************************)
(* A client of an older version that changes one field of an object        *)
(* changes that field as intended, and no other field that its version     *)
(* knows: a revision that nobody touched does not restart an app, a status *)
(* that nobody touched does not move an app version to another phase.      *)
(***************************************************************************)
OthersSurvive ==
    [][ stored' # stored \/ edit' # edit =>
           LET v     == edit'.version
               known == Fields(kind, v) \cap DOMAIN stored
               want  == Edited(stored, edit'.field)
           IN  \A f \in known \ KnownLosses(v) :
                  stored'[f] = IF f = edit'.field THEN want[f] ELSE stored[f] ]_storeVars
=============================================================================
