------------------------------ MODULE MCWatch ------------------------------
(* Watch for TLC.  The users start from moments the initial values lead to:
   just before a carry, with the cursor where editing left it. *)
EXTENDS Watch

At(y, mo, d, h, mi, s) ==
    [Year |-> y, Month |-> mo, Day |-> d, Hour |-> h, Minuts |-> mi, Second |-> s]

Editor(c, p) == [mode |-> "NORMAL_MODE", clock |-> c, cursor |-> p,
                 commands |-> {"M", "E", "K", "+", "-", "D", "R", "L"}]

NewYear   == At(2024, 12, 31, 23, 59, 58)
LeapEnd   == At(2024, 2, 29, 23, 59, 58)
AprilEnd  == At(2023, 4, 30, 23, 59, 58)
January   == At(2023, 1, 31, 22, 59, 59)

PowerOn == [mode |-> "NORMAL_MODE", clock |-> At(2024, 12, 30, 23, 59, 50), cursor |-> <<0, 6>>,
            commands |-> {"M", "E", "K", "S", "C", "U"}]
Away    == [mode |-> "STOP_WATCH_MODE", clock |-> At(2024, 12, 30, 23, 59, 250), cursor |-> <<1, 13>>,
            commands |-> {"M", "S", "C", "E"}]

MCStarts == {PowerOn, Away}
            \cup {Editor(NewYear, p) : p \in {<<0, 9>>, <<0, 15>>, <<1, 0>>}}
            \cup {Editor(AprilEnd, p) : p \in {<<0, 14>>, <<1, 12>>}}
            \cup {Editor(LeapEnd, p) : p \in {<<0, 9>>, <<1, 7>>}}
            \cup {Editor(January, p) : p \in {<<0, 12>>, <<1, 9>>}}
            \cup {Editor(At(1100, 11, 11, 0, 0, 0), <<0, 6>>), Editor(At(1024, 10, 1, 12, 9, 59), <<0, 6>>)}
=============================================================================
