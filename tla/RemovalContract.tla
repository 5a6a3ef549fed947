-------------------------- MODULE RemovalContract --------------------------
(***************************************************************************)
(* What one who confirms a deletion may rely on, without previews, plans,  *)
(* second looks, Docker and the world: a confirmation is good for one      *)
(* deletion; a deletion is logged before it takes anything; it takes       *)
(* agreed things only: the containers, then the file, alone or with its    *)
(* directory, then images and volumes; and it may end at any point.        *)
(***************************************************************************)
CONSTANTS
  Tokens,     \* confirmations
  Own,        \* containers
  Resources   \* images and volumes

VARIABLES
  open,     \* a deletion is under way
  spent,    \* confirmations that deletions were begun with
  agreed,   \* what the last of them is about
  logged,   \* it has its audit row and its backup
  gone      \* what it has taken

vars == <<open, spent, agreed, logged, gone>>

Things == Own \cup Resources \cup {"file", "directory"}

Init == open = FALSE /\ spent = {} /\ agreed = {} /\ logged = FALSE /\ gone = {}

Begin(t) ==
  /\ ~open /\ t \notin spent
  /\ open' = TRUE /\ spent' = spent \cup {t}
  /\ agreed' \in SUBSET Things /\ logged' = FALSE /\ gone' = {}

Log ==
  /\ open /\ ~logged /\ gone = {}
  /\ logged' = TRUE /\ UNCHANGED <<open, spent, agreed, gone>>

Take(things) ==
  /\ open /\ logged /\ things \subseteq agreed
  /\ gone' = gone \cup things /\ UNCHANGED <<open, spent, agreed, logged>>

TakeContainer(c) == "file" \notin gone /\ Take({c})

TakeFile ==
  /\ "file" \notin gone /\ agreed \cap Own \subseteq gone
  /\ Take({"file"}) \/ Take({"file", "directory"})

TakeResource(r) == "file" \in gone /\ Take({r})

End == open /\ open' = FALSE /\ UNCHANGED <<spent, agreed, logged, gone>>

Next ==
  \/ \E t \in Tokens : Begin(t)
  \/ Log \/ TakeFile \/ End
  \/ \E c \in Own : TakeContainer(c)
  \/ \E r \in Resources : TakeResource(r)

Spec == Init /\ [][Next]_vars

=============================================================================
