----------------------------- MODULE AtomicFile -----------------------------
(***************************************************************************)
(* What the editor of the configuration file promises the programs that    *)
(* read it: whoever edits at the same time, is killed or loses power, what *)
(* the file says changes by one whole edit of what it said before, by a    *)
(* replacement of the operator, or by a power loss back to what it said    *)
(* when it was last made durable, or after an edit since.                  *)
(*                                                                         *)
(* DirectoryLifecycle counts on it: there, disabling and removing an entry *)
(* are single steps.                                                       *)
(***************************************************************************)
CONSTANT Entry           \* entries of the file

VARIABLES content,       \* what the file says, for each entry
          durable,       \* what it may say after a power loss
          raced          \* the operator replaced the file in the short time
                         \* between an editor's check and its rename

vars == <<content, durable, raced>>

Setting == {"on", "off", "gone"}
AllOn == [e \in Entry |-> "on"]

Init == content = AllOn /\ durable = {AllOn} /\ raced = FALSE

\* An entry that is there is disabled or taken out; the others stay as they are.
Edit(e, setting) ==
    /\ content[e] # "gone"
    /\ content' = [content EXCEPT ![e] = setting]
    /\ durable' = durable \cup {content'}
    /\ UNCHANGED raced

Save ==
    /\ durable' = {content}
    /\ UNCHANGED <<content, raced>>

LosePower ==
    /\ content' \in durable
    /\ durable' = {content'}
    /\ UNCHANGED raced

\* The operator puts a file in place.
Replace ==
    /\ content' = AllOn /\ durable' = {AllOn}
    /\ raced' \in {raced, TRUE}

\* After a race, editors may hold the locks of different files, and one may put
\* back what it read before the other's edit.
Overwrite ==
    /\ raced
    /\ content' \in [Entry -> Setting]
    /\ durable' = durable \cup {content'}
    /\ UNCHANGED raced

Next ==
    \/ \E e \in Entry, setting \in {"off", "gone"} : Edit(e, setting)
    \/ Save \/ LosePower \/ Replace \/ Overwrite

Spec == Init /\ [][Next]_vars
=============================================================================
