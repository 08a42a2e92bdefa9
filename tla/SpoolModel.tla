------------------------------ MODULE SpoolModel ------------------------------
(***************************************************************************)
(* The spool aggregate of crates/domain/src/spools/model.rs: what one      *)
(* lifecycle operation does to one spool, as pure operators.  A spool keeps*)
(* the columns that operations read or that they may lose; its colour,     *)
(* price, notes, dates and references other than the location are written  *)
(* and read together with them and are left out.  Weights are grams, an    *)
(* f64 in the code, of which only the order, the zero and the subtraction  *)
(* matter here: natural numbers.                                           *)
(***************************************************************************)
EXTENDS Naturals

CONSTANTS
    MaxNet,       \* bound on the net weights and the grams a user enters
    Locations,    \* storage locations a spool may be assigned to
    NoLocation,   \* location_id = None
    Tags,         \* AMS tag uids that normalize_ams_tag_uid accepts
    NoTag         \* ams_tag_uid = None

ASSUME MaxNetAssumption == MaxNet \in Nat \ {0}

-------------------------------------------------------------------------------

Statuses == {"Sealed", "Open", "Empty", "Archived"}
Conditions == {"New", "Opened", "Refill"}

Grams == 0 .. MaxNet
NetWeights == 1 .. MaxNet

Spool == [net : NetWeights, remaining : Grams, status : Statuses,
          location : Locations \cup {NoLocation}, tag : Tags \cup {NoTag}]

(* Only a Sealed or Open spool may sit in a printer slot. *)
Loadable(sp) == sp.status \in {"Sealed", "Open"}

StatusFor(remaining, net) ==
    IF remaining = 0 THEN "Empty"
    ELSE IF remaining >= net THEN "Sealed"
    ELSE "Open"

WithRemaining(sp, grams) ==
    [sp EXCEPT !.remaining = grams, !.status = StatusFor(grams, sp.net)]

(* Variant: no floor.                                                      *)
DrawnUnfloored(remaining, amount) == remaining - amount

(* Subtraction with a floor at zero. *)
Drawn(remaining, amount) == IF amount < remaining THEN remaining - amount ELSE 0

-------------------------------------------------------------------------------
(* What the add form and the edit form derive from the chosen condition.   *)
(* The entered weight is read for an opened spool only.                    *)

ConditionStatus(condition) == IF condition = "Opened" THEN "Open" ELSE "Sealed"

ConditionRemaining(condition, net, entered) ==
    IF condition = "Opened" /\ entered < net THEN entered ELSE net

(* The row a create request inserts: the form never sets a tag.            *)
NewSpool(condition, net, entered, location) ==
    [net |-> net, remaining |-> ConditionRemaining(condition, net, entered),
     status |-> ConditionStatus(condition), location |-> location, tag |-> NoTag]

-------------------------------------------------------------------------------
(* The commands a request carries, one per mutating use case.              *)

SetRemaining == [op : {"set_remaining"}, grams : Grams]
Consume      == [op : {"consume"}, grams : Grams]
Archive      == [op : {"archive"}]
Restore      == [op : {"restore"}]
AssignLocation == [op : {"assign_location"}, location : Locations \cup {NoLocation}]
MemorizeTag  == [op : {"memorize_ams_tag"}, tag : Tags]
Edit         == [op : {"edit"}, condition : Conditions, net : NetWeights,
                 entered : Grams, location : Locations \cup {NoLocation}]

Commands == SetRemaining \cup Consume \cup Archive \cup Restore
              \cup AssignLocation \cup MemorizeTag \cup Edit

RowOps == {"set_remaining", "consume", "archive", "restore", "assign_location",
           "memorize_ams_tag", "edit"}

WeightOps == {"set_remaining", "consume"}

(* The operations whose handler ends in finish_op.                         *)
FinishedOps == {"set_remaining", "consume", "archive", "restore"}

(* Whether the command goes on to save the spool it found: the domain      *)
(* rejects the others, and a tag already memorized returns early.          *)
Accepts(cmd, sp) ==
    /\ cmd.op \in WeightOps \cup {"archive"} => sp.status # "Archived"
    /\ cmd.op = "set_remaining" => cmd.grams <= sp.net
    /\ cmd.op = "restore" => sp.status = "Archived"
    /\ cmd.op = "memorize_ams_tag" => sp.tag # cmd.tag

Edited(sp, cmd) ==
    [sp EXCEPT !.net = cmd.net,
               !.remaining = ConditionRemaining(cmd.condition, cmd.net, cmd.entered),
               !.status = ConditionStatus(cmd.condition),
               !.location = cmd.location]

(* The spool after the command, in memory.                                 *)
Apply(cmd, sp) ==
    CASE cmd.op = "set_remaining"    -> WithRemaining(sp, cmd.grams)
      [] cmd.op = "consume"          -> WithRemaining(sp, Drawn(sp.remaining, cmd.grams))
      [] cmd.op = "archive"          -> [sp EXCEPT !.status = "Archived"]
      [] cmd.op = "restore"          -> WithRemaining(sp, sp.remaining)
      [] cmd.op = "assign_location"  -> [sp EXCEPT !.location = cmd.location]
      [] cmd.op = "memorize_ams_tag" -> [sp EXCEPT !.tag = cmd.tag]
      [] cmd.op = "edit"             -> Edited(sp, cmd)

(* Variant: archiving does not unload.                                     *)
UnloadsWhenEmpty(cmd, sp) == cmd.op \in FinishedOps \cup {"edit"} /\ sp.status = "Empty"

(* Whether the handler calls unload_spool once the row is saved: finish_op *)
(* on Empty and Archived, the edit handler on Empty, the others never.     *)
Unloads(cmd, sp) ==
    \/ cmd.op \in FinishedOps /\ sp.status \in {"Empty", "Archived"}
    \/ cmd.op = "edit" /\ sp.status = "Empty"

-------------------------------------------------------------------------------

(* The weight and the status of a spool agree: the weight never exceeds    *)
(* the net weight, a sealed spool is full and an empty one has nothing     *)
(* left.  (Open says nothing: the forms may open a full or a spent spool.) *)
Consistent(sp) ==
    /\ sp.remaining <= sp.net
    /\ sp.status = "Sealed" => sp.remaining = sp.net
    /\ sp.status = "Empty" => sp.remaining = 0
===============================================================================
