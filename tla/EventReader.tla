----------------------------- MODULE EventReader -----------------------------
(***************************************************************************)
(* What CanonPtpBackend promises of the threads that read camera events,   *)
(* however it starts, stops and joins them: one of them is the reader, a   *)
(* thread that was retired never is again, rounds do not overlap, what a   *)
(* round brought is handled only if the reader is still the reader when it *)
(* comes, and the session is closed between two rounds.  CanonEventLoop    *)
(* implements this specification.                                          *)
(***************************************************************************)
CONSTANTS Threads, Nobody

VARIABLES
    reader,      \* the thread that may begin a round, or Nobody
    used,        \* threads that were the reader once
    polling,     \* the thread that asks the camera, or Nobody
    handling,    \* the thread that handles what the camera answered, or Nobody
    session      \* the camera is claimed

readerVars == <<reader, used, polling, handling, session>>

Between == polling = Nobody /\ handling = Nobody

ReaderInit ==
    /\ reader = Nobody /\ used = {} /\ Between
    /\ session = FALSE

Opens ==
    /\ ~session /\ used = {}
    /\ session' = TRUE
    /\ UNCHANGED <<reader, used, polling, handling>>

Starts ==
    /\ session /\ reader = Nobody
    /\ \E t \in Threads \ used : reader' = t /\ used' = used \cup {t}
    /\ UNCHANGED <<polling, handling, session>>

\* The round of a retired thread may go on for a while.
Retires ==
    /\ reader # Nobody
    /\ reader' = Nobody
    /\ UNCHANGED <<used, polling, handling, session>>

Asks ==
    /\ session /\ reader # Nobody /\ Between
    /\ polling' = reader
    /\ UNCHANGED <<reader, used, handling, session>>

Hears ==
    /\ polling # Nobody /\ polling = reader
    /\ handling' = reader /\ polling' = Nobody
    /\ UNCHANGED <<reader, used, session>>

EndsRound ==
    /\ ~Between
    /\ polling' = Nobody /\ handling' = Nobody
    /\ UNCHANGED <<reader, used, session>>

Closes ==
    /\ session /\ reader = Nobody /\ Between
    /\ session' = FALSE
    /\ UNCHANGED <<reader, used, polling, handling>>

ReaderNext == Opens \/ Starts \/ Retires \/ Asks \/ Hears \/ EndsRound \/ Closes
ReaderSpec == ReaderInit /\ [][ReaderNext]_readerVars
=============================================================================
