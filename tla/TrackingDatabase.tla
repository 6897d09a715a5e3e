-------------------------- MODULE TrackingDatabase --------------------------
(***************************************************************************)
(* What the transaction code promises its callers: tracking-database.json  *)
(* behaves as one register.  A toolkit command replaces the whole value by *)
(* one that differs from it only in the command's own entry and leaves the *)
(* permissions alone; initialization only ever creates; a power loss       *)
(* returns to a value no older than the last durable one.  Editors, where  *)
(* there are any, do as they please.  TrackingDatabaseIO implements this   *)
(* with a lock, staged files and re-checks.                                *)
(***************************************************************************)
CONSTANTS
    Writer,  \* toolkit processes
    Editor,  \* the author of edits made outside the toolkit
    Missing, \* no database
    Garbage, \* bytes that are not a database
    Edited   \* the kinds of outside edits to expect; none if empty

VARIABLES
    value,   \* the database: its entries and its mode, or Missing
    older    \* values a power loss may bring back

Entries == SUBSET (Writer \union {Editor})
Modes == {"shared", "private"}
Value == [bytes : {Garbage} \union Entries, mode : Modes]

Init ==
    /\ value \in {Missing, [bytes |-> {}, mode |-> "shared"]}
    /\ older = {}

(* A command's candidate, computed from the very value it replaces. *)
Commit(w) ==
    /\ value # Missing
    /\ value.bytes # Garbage
    /\ \E b \in {value.bytes \union {w}, value.bytes \ {w}} :
           value' = [value EXCEPT !.bytes = b]
    /\ older' = older \union {value}

Initialize ==
    /\ value = Missing
    /\ value' = [bytes |-> {}, mode |-> "private"]
    /\ older' = older \union {value}

(* A directory fsync: what is visible is now what survives. *)
Settle == older' = {} /\ UNCHANGED value

Edit == Edited # {} /\ value' \in Value /\ UNCHANGED older

PowerLoss == value' \in older \union {value} /\ older' = {}

Next == Initialize \/ Settle \/ Edit \/ PowerLoss \/ \E w \in Writer : Commit(w)

Spec == Init /\ [][Next]_<<value, older>>

=============================================================================
