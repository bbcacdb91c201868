--------------------------- MODULE ChannelHistory ---------------------------
(***************************************************************************)
(* The turns of a conversation (src/src/channels/mod.rs): what is appended *)
(* to the cached history of a sender, what is trimmed, compacted or rolled *)
(* back, and the history as it is handed to the model.                     *)
(*                                                                         *)
(* A turn is a role and the messages whose text it holds: one for a turn   *)
(* that was appended, several once turns have been merged.  The text       *)
(* itself, its truncation and the notes put before it are left out.        *)
(***************************************************************************)
EXTENDS Integers, Sequences, SequencesExt

CONSTANTS
  MaxHistory,   \* MAX_CHANNEL_HISTORY
  KeepTurns     \* CHANNEL_HISTORY_COMPACT_KEEP_MESSAGES

ASSUME HistoryAssumption == MaxHistory \in Nat \ {0} /\ KeepTurns \in Nat \ {0}

Role == {"user", "assistant"}
UserTurn(m) == [role |-> "user", of |-> <<m>>]
AssistantTurn(m) == [role |-> "assistant", of |-> <<m>>]

\* The last n turns.
Newest(turns, n) ==
  IF Len(turns) <= n THEN turns ELSE SubSeq(turns, Len(turns) - n + 1, Len(turns))

\* append_sender_turn: the oldest turns make room for the new one.
Appended(turns, turn) == Newest(Append(turns, turn), MaxHistory)

\* One turn of normalize_cached_channel_turns: alternate, and merge the text of a turn
\* that is out of turn into the one before it; only a leading answer has none.
Absorb(turns, turn) ==
  IF turns = << >>
  THEN IF turn.role = "user" THEN <<turn>> ELSE << >>
  ELSE IF turn.role # turns[Len(turns)].role
       THEN Append(turns, turn)
       ELSE [turns EXCEPT ![Len(turns)].of = @ \o turn.of]

Normalized(turns) ==
  LET sofar[n \in 0 .. Len(turns)] ==
        IF n = 0 THEN << >> ELSE Absorb(sofar[n - 1], turns[n])
  IN  sofar[Len(turns)]

\* compact_sender_history.
Compacted(turns) == Normalized(Newest(turns, KeepTurns))

\* rollback_orphan_user_turn: the user turn of m is taken back while it is the last one.
CanRollBack(turns, m) == turns # << >> /\ turns[Len(turns)] = UserTurn(m)

\* The memory, or the rule of the attempt, with the text of m in place of the last turn ...
Rewritten(turns, m) ==
  IF turns = << >> THEN <<UserTurn(m)>>
  ELSE IF turns[Len(turns)].role = "user"
       THEN [turns EXCEPT ![Len(turns)] = UserTurn(m)]
       ELSE turns

\* Mutant: ... also of a conversation that has begun before m.
PromptOf_Rewrites(turns, m, prior) == Rewritten(Normalized(turns), m)

\* ... if no history was there before m: what the model is given to answer m.
PromptOf(turns, m, prior) ==
  IF prior THEN Normalized(turns) ELSE Rewritten(Normalized(turns), m)

-----------------------------------------------------------------------------
(* What the operators promise.                                             *)

Alternates(turns) ==
  \A i \in DOMAIN turns : turns[i].role = IF i % 2 = 1 THEN "user" ELSE "assistant"

\* The text of the turns of a role, in order.
Said(turns, role) ==
  LET text[n \in 0 .. Len(turns)] ==
        IF n = 0 THEN << >>
        ELSE IF turns[n].role = role THEN text[n - 1] \o turns[n].of ELSE text[n - 1]
  IN  text[Len(turns)]
=============================================================================
