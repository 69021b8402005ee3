----------------------------- MODULE FlagStorage -----------------------------
(***************************************************************************)
(* flagd-ui: the Storage process that owns the file of flags, the          *)
(* dashboard, which writes one flag at a time, and the advanced editor     *)
(* (or a client of the API), which replaces the whole file with the text   *)
(* that it took when it was mounted and that its user has edited since.    *)
(*                                                                         *)
(* Of a file the model keeps which variant each flag in it has on: its     *)
(* default, or the one its targeting rule gives.                           *)
(***************************************************************************)
EXTENDS Naturals, Sequences, Functions

CONSTANTS
  Flags, Variants,
  Shipped,       \* the file at first: a variant for each of Flags
  Editors,       \* editors: each is mounted once
  MaxCasts,      \* bound on the messages ever cast
  MaxCrashes,    \* bound on the deaths of the process from outside
  NoFlags,       \* JSON with no flags in it
  Text,          \* JSON that is no object
  Partial,       \* a file that is being written
  None

VARIABLES
  file,
  state,         \* what the process holds, or None when it cannot start
  mailbox,       \* messages cast to the process
  doing,         \* the message in hand and what becomes of it, or None
  content,       \* for each editor, its text, or None
  casts, crashes,
  stale,         \* for each editor, the flags written since it was mounted,
                 \* and those its user has changed
  due            \* the variants written, as long as no editor may undo them
vars == <<file, state, mailbox, doing, content, casts, crashes, stale, due>>

Init ==
  /\ file = Shipped
  /\ state = file
  /\ mailbox = <<>> /\ doing = None
  /\ content = [e \in Editors |-> None]
  /\ casts = 0 /\ crashes = 0
  /\ stale = [e \in Editors |-> {}]
  /\ due = <<>>

(* A message to a process that is not there is lost, and nobody is told.   *)
Cast(message) ==
  /\ casts < MaxCasts
  /\ casts' = casts + 1
  /\ mailbox' = IF state = None THEN mailbox ELSE Append(mailbox, message)

(* flag_changed of the dashboard.                                          *)
FlagChanged(f, v) ==
  /\ Cast([editor |-> None, flag |-> f, variant |-> v, text |-> None])
  /\ UNCHANGED <<file, state, doing, content, crashes, stale, due>>

(* The call that reads the state waits for its turn among the messages.    *)
Mount(e) ==
  /\ content[e] = None /\ state # None /\ doing = None
  /\ content' = [content EXCEPT ![e] = state]
  /\ UNCHANGED <<file, state, mailbox, doing, casts, crashes, stale, due>>

Edit(e) ==
  /\ content[e] # None
  /\ \/ content[e] \notin {NoFlags, Text} /\
        \E f \in DOMAIN content[e], v \in Variants :
          /\ content' = [content EXCEPT ![e][f] = v]
          /\ stale' = [stale EXCEPT ![e] = @ \cup {f}]
     \/ /\ \E t \in {NoFlags, Text} : content' = [content EXCEPT ![e] = t]
        /\ stale' = [stale EXCEPT ![e] = Flags]
  /\ UNCHANGED <<file, state, mailbox, doing, casts, crashes, due>>

Save(e) ==
  /\ content[e] # None
  /\ Cast([editor |-> e, flag |-> None, variant |-> None, text |-> content[e]])
  /\ UNCHANGED <<file, state, doing, content, crashes, stale, due>>

-----------------------------------------------------------------------------
IsReplace(message) == message.editor # None

(* The new state: a flag that is not there is not added, and a state       *)
(* without flags gets an empty set of them.                                *)
NewState(message) ==
  IF IsReplace(message) THEN message.text
  ELSE IF state = NoFlags THEN <<>>
  ELSE [f \in DOMAIN state |-> IF f = message.flag THEN message.variant ELSE state[f]]

Restarted == /\ state' = IF file = Partial THEN None ELSE file
             /\ mailbox' = <<>> /\ doing' = None

(* A write to a state that is no object ends the process, which the        *)
(* supervisor starts again from the file.                                  *)
Refuse ==
  /\ doing = None /\ mailbox # <<>>
  /\ state = Text /\ ~IsReplace(Head(mailbox))
  /\ Restarted
  /\ UNCHANGED <<file, content, casts, crashes, stale, due>>

(* File.write! empties the file before it fills it.                        *)
Open ==
  /\ doing = None /\ mailbox # <<>>
  /\ state = Text => IsReplace(Head(mailbox))
  /\ doing' = Head(mailbox)
  /\ mailbox' = Tail(mailbox)
  /\ file' = Partial
  /\ UNCHANGED <<state, content, casts, crashes, stale, due>>

Write ==
  /\ doing # None /\ file = Partial
  /\ file' = NewState(doing)
  /\ IF IsReplace(doing)
     THEN /\ due' = Restrict(due, DOMAIN due \ stale[doing.editor])
          /\ UNCHANGED stale
     ELSE /\ due' = IF state # NoFlags /\ doing.flag \in DOMAIN state
                    THEN [f \in DOMAIN due \cup {doing.flag} |->
                            IF f = doing.flag THEN doing.variant ELSE due[f]]
                    ELSE due
          /\ stale' = [e \in Editors |-> IF content[e] = None THEN {}
                                         ELSE stale[e] \cup {doing.flag}]
  /\ UNCHANGED <<state, mailbox, doing, content, casts, crashes>>

(* A mutant: the state that comes with the message goes on.                *)
Finish_OldState ==
  /\ doing # None /\ file # Partial
  /\ state' = IF IsReplace(doing) THEN state ELSE file
  /\ doing' = None
  /\ UNCHANGED <<file, mailbox, content, casts, crashes, stale, due>>

Finish ==
  /\ doing # None /\ file # Partial
  /\ state' = NewState(doing)
  /\ doing' = None
  /\ UNCHANGED <<file, mailbox, content, casts, crashes, stale, due>>

(* The process dies with the messages it has not handled.                  *)
Crash ==
  /\ state # None /\ crashes < MaxCrashes
  /\ crashes' = crashes + 1
  /\ Restarted
  /\ UNCHANGED <<file, content, casts, stale, due>>

Next ==
  \/ \E f \in Flags, v \in Variants : FlagChanged(f, v)
  \/ \E e \in Editors : Mount(e) \/ Edit(e) \/ Save(e)
  \/ Refuse \/ Open \/ Write \/ Finish \/ Crash

Spec == Init /\ [][Next]_vars

-----------------------------------------------------------------------------
(* Between messages the file is what the process holds, and every flag     *)
(* written has its last variant in it, also after a restart, unless an     *)
(* editor was saved that had been mounted before the write, or whose user  *)
(* changed the flag.  A process that died while it wrote may not be back.  *)
HandledWritesLast ==
  state # None /\ doing = None =>
    /\ file = state
    /\ \A f \in DOMAIN due : f \in DOMAIN file /\ file[f] = due[f]

-----------------------------------------------------------------------------
(* What the proofs add.  Whoever holds a file - the process, a message, an *)
(* editor - has the variants that are due in it, but for those that he may *)
(* undo.                                                                   *)
Files == UNION {[some -> Variants] : some \in SUBSET Flags}
Texts == Files \cup {NoFlags, Text}

Messages ==
  [editor : {None}, flag : Flags, variant : Variants, text : {None}]
    \cup [editor : Editors, flag : {None}, variant : {None}, text : Texts]

(* What stands for no file, or for one that is not of flags, is none.       *)
Apart ==
  /\ NoFlags # Text /\ Partial \notin {NoFlags, Text} /\ None \notin {NoFlags, Text, Partial}
  /\ \A t \in {NoFlags, Text, Partial, None} : t \notin Files
  /\ None \notin Editors \cup Messages
  /\ Shipped \in Files

TypeOK ==
  /\ file \in Texts \cup {Partial} /\ state \in Texts \cup {None}
  /\ mailbox \in Seq(Messages) /\ doing \in Messages \cup {None}
  /\ content \in [Editors -> Texts \cup {None}]
  /\ casts \in Nat /\ crashes \in Nat
  /\ stale \in [Editors -> SUBSET Flags]
  /\ due \in Files

HasDue(text, flags) ==
  \A f \in DOMAIN due \ flags : text \in Files /\ f \in DOMAIN text /\ text[f] = due[f]

Sent(message) == IsReplace(message) => /\ content[message.editor] # None
                                       /\ HasDue(message.text, stale[message.editor])

(* Between the two steps of a write the state is still that before it.     *)
StorageInv ==
  /\ doing = None /\ state # None => file = state
  /\ state = None => doing = None /\ mailbox = <<>> /\ file = Partial
  /\ doing # None => /\ state = Text => IsReplace(doing)
                     /\ file \in {Partial, NewState(doing)}
  /\ IF file = Partial THEN state # None => HasDue(state, {}) ELSE HasDue(file, {})

EditorsInv ==
  /\ \A e \in Editors : content[e] # None => HasDue(content[e], stale[e])
  /\ \A k \in DOMAIN mailbox : Sent(mailbox[k])
  /\ doing # None => Sent(doing)

IInv == TypeOK /\ StorageInv /\ EditorsInv
=============================================================================
