------------------------------- MODULE MCRoom -------------------------------
EXTENDS RoomProperties, TLC

Symmetry == Permutations(PlayerID)

\* Who sends what: a full match; matches in a row; only a match's start, so that
\* presence, host migration, voice, expiry and shutdown meet a lobby and a round
\* nobody draws in; a match whose impostors never guess and whose hosts never cut
\* a discussion short.
PlayCommands    == {"start_game", "stroke", "end_discussion", "cast_vote", "impostor_guess"}
RematchCommands == PlayCommands \cup {"new_game"}
ChurnCommands   == {"start_game", "voice", "expire", "shutdown"}
LiveCommands    == {"start_game", "stroke", "cast_vote"}
=============================================================================
