------------------------------ MODULE Register ------------------------------
(***************************************************************************)
(* What the server promises to clients that choose the ids of what they    *)
(* create and repeat a write until they are answered, with no statements,  *)
(* copies or retries in it: one id is one register.  The first writer owns *)
(* it, nobody else ever changes it, what cannot be edited is written once. *)
(* A client hears "ok" only of a write that took effect, and "conflict"    *)
(* only when the id or its meaning is taken.  Upserts implements this.     *)
(***************************************************************************)
CONSTANTS Clients, Bodies, Null

VARIABLES
  editable,  \* whether the owner may write again under the same id
  common,    \* whether a client may rely on an equal entry of another client
  twin,      \* who has an entry of which body under another id, or Null
  row,       \* Null, or the owner and the body, and whether it is still live
  wish,      \* what each client last wrote and what it was told of it
  done       \* the clients whose last wish the register has held since

vars == <<editable, common, twin, row, wish, done>>

NoWish     == [body |-> Null, told |-> "nothing"]
Grants(e, c, b) == e # Null /\ e.body = b /\ (e.owner = c \/ common)
DoneWith(e, w) == done \cup {c \in Clients : Grants(e, c, w[c].body)}

Init ==
  /\ editable \in BOOLEAN /\ common \in BOOLEAN /\ twin \in (Clients \X Bodies) \cup {Null}
  /\ row = Null
  /\ wish = [c \in Clients |-> NoWish]
  /\ done = {}

Wish(c, b) ==
  /\ wish' = [wish EXCEPT ![c] = [body |-> b, told |-> "nothing"]]
  /\ done' = (done \ {c}) \cup {d \in {c} : Grants(row, c, b)}
  /\ UNCHANGED row

Store(c, b) ==
  /\ row # Null => editable /\ row.live /\ row.owner = c
  /\ row' = [owner |-> c, body |-> b, live |-> TRUE]
  /\ done' = DoneWith(row', wish)
  /\ UNCHANGED wish

Remove ==
  /\ row # Null
  /\ row' = [row EXCEPT !.live = FALSE]
  /\ UNCHANGED <<wish, done>>

Tell(c, a) ==
  /\ wish[c].told = "nothing"
  /\ a = "ok" => c \in done
  /\ a = "conflict" => row # Null \/ twin = <<c, wish[c].body>>
  /\ wish' = [wish EXCEPT ![c].told = a]
  /\ UNCHANGED <<row, done>>

Next ==
  /\ \/ \E c \in Clients, b \in Bodies : Wish(c, b) \/ Store(c, b)
     \/ \E c \in Clients, a \in {"ok", "conflict", "not found", "bad request"} : Tell(c, a)
     \/ Remove
  /\ UNCHANGED <<editable, common, twin>>

Spec == Init /\ [][Next]_vars
=============================================================================
