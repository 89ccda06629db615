------------------------------- MODULE Codec -------------------------------
(***************************************************************************)
(* The text of datagrams: the shift by three that hides a line, the        *)
(* splitter parseMessage, the line as main sends it, and the list of users *)
(* that the sequencer writes for a joiner.  A text is a sequence of bytes. *)
(***************************************************************************)
EXTENDS Integers, Sequences

Ext == INSTANCE SequencesExt    \* PrintQueue has a Front of its own

Byte == 0 .. 255
Colon == 58
Bar == 124
Seven == 55       \* encrypt makes it a colon

(* char wraps around, signed or not. *)
Encrypt(t) == [i \in DOMAIN t |-> (t[i] + 3) % 256]
Decrypt(t) == [i \in DOMAIN t |-> (t[i] - 3) % 256]

(* The places of t holding a byte of Delim (find_first_of), or another one *)
(* (find_first_not_of), from place i on; npos is the place after the last. *)
FirstOf(t, Delim, i) ==
  CHOOSE p \in i .. Len(t) + 1 :
    /\ p = Len(t) + 1 \/ t[p] \in Delim
    /\ \A q \in i .. p - 1 : t[q] \notin Delim

(* strcpy stops at a 0. *)
CString(t) == SubSeq(t, 1, FirstOf(t, {0}, 1) - 1)

FirstNotOf(t, Delim, i) == FirstOf(t, Byte \ Delim, i)

(* Wrong variant: empty tokens are kept. *)
ParseMessageKeeping(t, Delim) ==
  LET From[i \in 1 .. Len(t) + 2] ==
        IF i > Len(t) + 1 THEN << >>
        ELSE <<SubSeq(t, i, FirstOf(t, Delim, i) - 1)>> \o From[FirstOf(t, Delim, i) + 1]
  IN From[1]

ParseMessage(t, Delim) ==
  LET From[i \in 1 .. Len(t) + 1] ==
        LET first == FirstNotOf(t, Delim, i)
            next == FirstOf(t, Delim, first)
        IN IF first > Len(t) THEN << >>
           ELSE <<SubSeq(t, first, next - 1)>> \o From[next]
  IN From[1]

(* main: user::line, copied into the datagram. *)
LineMessage(name, line) == CString(name \o <<Colon, Colon>> \o Encrypt(line))

(* Users: ip, port, name and whether it is the leader.  noticeThread walks *)
(* chatMembers in the order of the keys and puts each user first.          *)
(* The words shortened to their first letter. *)
True == <<116>>
False == <<102>>

UserMessage(u) == u.ip \o <<Colon>> \o u.port \o <<Colon>> \o u.name \o <<Colon>>
                  \o (IF u.lead THEN True ELSE False) \o <<Bar>>

(* Wrong variant: the users are not set apart. *)
SendMapUnbarred(users) ==
  Ext!FoldLeft(LAMBDA t, u : SubSeq(UserMessage(u), 1, Len(UserMessage(u)) - 1) \o t, << >>, users)

SendMap(users) == Ext!FoldLeft(LAMBDA t, u : UserMessage(u) \o t, << >>, users)

(* The joiner's reading of it. *)
ReadUser(t) == LET details == ParseMessage(t, {Colon})
               IN [ip |-> details[1], port |-> details[2], name |-> details[3],
                   lead |-> details[4] = True]

ReadMap(t) == LET users == ParseMessage(t, {Bar})
              IN [i \in DOMAIN users |-> ReadUser(users[i])]
=============================================================================
