---------------------------- MODULE FrameJournal ----------------------------
(***************************************************************************)
(* What the profiler promises whoever reads its log.  Measurements are     *)
(* gathered while a frame runs and committed together when it ends; a      *)
(* frame without measurements leaves nothing; what is committed is never   *)
(* lost, and a crash loses at most the newest measurements of the frame    *)
(* in progress.                                                            *)
(***************************************************************************)
EXTENDS Sequences, Naturals

CONSTANTS Scripts,     \* what can be measured
          EndOfFrame   \* the entry that closes a frame

VARIABLES committed,   \* entries of finished frames, EndOfFrame after each frame
          gathering,   \* measurements of the frame in progress
          recording    \* FALSE once the process is gone

journalVars == <<committed, gathering, recording>>

JournalInit ==
    /\ committed = <<>>
    /\ gathering = <<>>
    /\ recording = TRUE

Measure(script) ==
    /\ recording
    /\ gathering' = Append(gathering, script)
    /\ UNCHANGED <<committed, recording>>

CommitFrame ==
    /\ recording
    /\ gathering # <<>>
    /\ committed' = committed \o gathering \o <<EndOfFrame>>
    /\ gathering' = <<>>
    /\ UNCHANGED recording

Stop ==
    /\ recording
    /\ recording' = FALSE
    /\ \E n \in 0 .. Len(gathering) : gathering' = SubSeq(gathering, 1, n)
    /\ UNCHANGED committed

JournalNext ==
    \/ \E script \in Scripts : Measure(script)
    \/ CommitFrame
    \/ Stop

JournalSpec == JournalInit /\ [][JournalNext]_journalVars

=============================================================================
