------------------------------- MODULE Screen -------------------------------
(***************************************************************************)
(* What printMessage writes: the screen queue of PrintQueue, whose chat    *)
(* lines are messages of the form that Codec describes, in dchat.cpp and   *)
(* in dchat_encrypt.cpp, where a sequencer does not decrypt.  The test of  *)
(* checkLeader comes when a line is written, so that a takeover also       *)
(* counts for the lines queued before it.                                  *)
(*                                                                         *)
(* A behaviour is about one line and one name: all that is typed is the    *)
(* same line, and every user in a list of users has the same name.         *)
(***************************************************************************)
EXTENDS PrintQueue, Codec

CONSTANTS Names, Texts   \* the user names, the lines that may be typed

ASSUME TextAssumption == /\ Names \subseteq Seq(Byte \ {0}) \ {<< >>}
                         /\ Texts \subseteq Seq(Byte \ {0})

VARIABLES
  name, text,    \* who writes, and what
  keepsCipher,   \* the program is dchat_encrypt
  checkLeader,   \* the process is the sequencer
  written,       \* the last chat line written
  asLeader       \* history: checkLeader when it was written

screenVars == <<written, asLeader>>
allVars == <<vars, name, text, keepsCipher, checkLeader, screenVars>>

ScreenInit ==
  /\ Init
  /\ name \in Names
  /\ text \in Texts
  /\ keepsCipher \in BOOLEAN
  /\ checkLeader \in BOOLEAN
  /\ written = << >>
  /\ asLeader = FALSE

-----------------------------------------------------------------------------
(* printMessage's decryption: of two tokens, the second; else of nothing.  *)
Readable(m) ==
  LET tokens == ParseMessage(m, {Colon})
  IN tokens[1] \o <<Colon, Colon>> \o (IF Len(tokens) = 2 THEN Decrypt(tokens[2]) ELSE << >>)

(* Wrong variant: the member's screen is the one left encrypted. *)
PrintedAtLeader(m) == IF keepsCipher /\ ~checkLeader THEN m ELSE Readable(m)

Printed(m) == IF keepsCipher /\ checkLeader THEN m ELSE Readable(m)

(* pop(), and the line is written. *)
Write ==
  /\ Pop
  /\ IF printMsg.kind = "chat"
     THEN /\ written' = Printed(LineMessage(name, text))
          /\ asLeader' = checkLeader
     ELSE UNCHANGED screenVars
  /\ UNCHANGED <<name, text, keepsCipher, checkLeader>>

(* Everything else that happens to the queue. *)
Queueing ==
  /\ \/ Push \/ PushFront \/ (\E k \in Kinds : NotifyOne(k))
     \/ Front \/ Wait \/ WakeSpuriously
  /\ UNCHANGED <<name, text, keepsCipher, checkLeader, screenVars>>

(* The takeover of an election. *)
TakeOver ==
  /\ ~checkLeader
  /\ checkLeader' = TRUE
  /\ UNCHANGED <<vars, name, text, keepsCipher, screenVars>>

ScreenNext == Write \/ Queueing \/ TakeOver

ScreenSpec == /\ ScreenInit /\ [][ScreenNext]_allVars
              /\ WF_vars(PrintMessage) /\ \A k \in Kinds : WF_vars(NotifyOne(k))

-----------------------------------------------------------------------------
(***************************************************************************)
(* Properties.                                                             *)
(***************************************************************************)
Sent == SubSeq(text, 1, FirstOf(text, {253}, 1) - 1)   \* 253 becomes a 0

(* t without the 7s around it. *)
Trimmed(t) ==
  LET Kept == {i \in DOMAIN t : t[i] # Seven}
  IN IF Kept = {} THEN << >>
     ELSE SubSeq(t, CHOOSE i \in Kept : \A j \in Kept : i <= j,
                    CHOOSE i \in Kept : \A j \in Kept : i >= j)

(***************************************************************************)
(* What becomes of a line between main and the screens of the others: '7'  *)
(* travels as ':', at which printMessage splits.  A line without 7 is      *)
(* shown as it was typed, 7s around a line are lost, and a line with a 7   *)
(* inside is shown empty.  A user with ':' in the name is never read: the  *)
(* line is empty, or a piece of the name deciphered.  Only a sequencer of  *)
(* dchat_encrypt shows what was sent.                                      *)
(***************************************************************************)
Legible(line) == IF \A i \in DOMAIN line : line[i] # Seven THEN line ELSE << >>

LinesReadable ==
  written # << >> =>
    IF keepsCipher /\ asLeader
    THEN written = name \o <<Colon, Colon>> \o Encrypt(Sent)
    ELSE LET user == ParseMessage(name, {Colon})
             line == Trimmed(Sent)
         IN written = user[1] \o <<Colon, Colon>>
                      \o (IF Len(user) = 1 THEN Legible(line)
                          ELSE IF Len(user) = 2 /\ line = << >> THEN Decrypt(user[2])
                          ELSE << >>)

(***************************************************************************)
(* A joiner reads in the sequencer's answer the users that are in it, and  *)
(* finds the leader among them, when no name has a ':' or a '|' in it      *)
(* (noticeThread writes the list, main reads it).                          *)
(***************************************************************************)
Users == {[ip |-> <<49>>, port |-> <<50>>, name |-> name, lead |-> b] : b \in BOOLEAN}

UsersReadBack ==
  \A us \in UNION {[1 .. n -> Users] : n \in 1 .. 2} :
    (\A i \in DOMAIN name : name[i] \notin {Colon, Bar}) =>
      ReadMap(CString(SendMap(us))) = [i \in DOMAIN us |-> us[Len(us) + 1 - i]]
=============================================================================
