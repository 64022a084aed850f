-------------------------------- MODULE Wal ---------------------------------
(***************************************************************************)
(* The write-ahead log of one member (wal.cpp): creating the file, appending *)
(* groups of frames, flushing, stopping the process, losing power, and     *)
(* recovering.                                                             *)
(*                                                                         *)
(* A file is a sequence of cells, the units in which a write can be cut    *)
(* short: two for the file header, for a frame two of header, one per      *)
(* entry and one of trailer.  A                                            *)
(* cell is what the checksums and lengths on disk make of it: it belongs   *)
(* to one frame and has its place there.  file is what the operating       *)
(* system serves, medium is what the last flush made stable.  A power loss *)
(* keeps the medium and any part of what was written since, a stopped      *)
(* process loses nothing of the file.                                      *)
(***************************************************************************)
EXTENDS Integers, Sequences, FiniteSetsExt, SequencesExt

CONSTANTS
  Nil,
  Batch,        \* the batches that callers hand over, valid or not
  Setups,       \* flush policies, each with the faults that happen under it
  MaxLog,       \* max_log_entries
  MaxGroup,     \* max_group_frames
  MaxFrames,    \* bound: frames ever appended
  MaxFaults     \* bound: stops, power losses and I/O errors

VARIABLES
  setup,    \* flush_every (flush_policy = flush_every_append) and faults, out of
            \* "stop", "power", "open_error" and "append_error"
  pc,       \* where the constructor or the current call is
  exists,   \* the file has a directory entry
  linked,   \* ... and that entry is stable
  created,  \* this instance created the file
  file,
  medium,
  state,    \* WalState of the instance
  group,    \* the frames of the call in progress
  todo,     \* their cells that are still to be written
  acked,    \* ghost: the frames that were reported durable
  faults

vars == <<setup, pc, exists, linked, created, file, medium, state, group, todo, acked, faults>>

-----------------------------------------------------------------------------
(* Frames and cells *)

EmptyBatch == [hard_state |-> Nil, truncate_from |-> Nil, entries |-> << >>,
               commit_index |-> Nil]

FrameHeaderSize == 2
FrameSize(b) == FrameHeaderSize + Len(b.entries) + 1
FrameCells(frame) ==
  [i \in 1..FrameSize(frame.batch) |->
     [sequence |-> frame.sequence, part |-> i, batch |-> frame.batch]]
HeaderSize == 2
HeaderCells == [i \in 1..HeaderSize |-> [sequence |-> 0, part |-> i, batch |-> EmptyBatch]]

Cells(frames) == FlattenSeq([i \in DOMAIN frames |-> FrameCells(frames[i])])

-----------------------------------------------------------------------------
(* ValidationView *)

EmptyState == [term |-> 0, vote |-> Nil, entries |-> << >>, commit_index |-> 0,
               last_frame_sequence |-> 0, durable_frame_sequence |-> 0,
               file_bytes |-> HeaderSize]

Kept(s, b) == IF b.truncate_from = Nil THEN s.entries
              ELSE SubSeq(s.entries, 1, b.truncate_from - 1)
NextTerm(s, b) == IF b.hard_state = Nil THEN s.term ELSE b.hard_state.term

bad_hard_state(s, hs) ==
  \/ hs.term = 0 /\ hs.vote # Nil
  \/ hs.term < s.term
  \/ hs.term = s.term /\ s.vote # Nil /\ hs.vote # s.vote
bad_truncation(s, from) ==
  from = 0 \/ from <= s.commit_index \/ from > Len(s.entries) + 1
bad_entries(kept, entries, term) ==
  LET all == kept \o entries
  IN \E i \in Len(kept) + 1..Len(all) :
       \/ i > MaxLog
       \/ all[i].index # i
       \/ all[i].term = 0 \/ all[i].term > term
       \/ i > 1 /\ all[i].term < all[i - 1].term
bad_commit(s, index, last) == index < s.commit_index \/ index > last

\* Mutant: a vote may be replaced within its term.
stage_throws_VoteMayChange(s, b) ==
  \/ b = EmptyBatch
  \/ b.hard_state # Nil /\ b.hard_state.term < s.term
  \/ b.truncate_from # Nil /\ bad_truncation(s, b.truncate_from)
  \/ bad_entries(Kept(s, b), b.entries, NextTerm(s, b))
  \/ /\ b.commit_index # Nil
     /\ bad_commit(s, b.commit_index, Len(Kept(s, b) \o b.entries))

\* stage throws, in the order of its checks.
stage_throws(s, b) ==
  \/ b = EmptyBatch
  \/ b.hard_state # Nil /\ bad_hard_state(s, b.hard_state)
  \/ b.truncate_from # Nil /\ bad_truncation(s, b.truncate_from)
  \/ bad_entries(Kept(s, b), b.entries, NextTerm(s, b))
  \/ /\ b.commit_index # Nil
     /\ bad_commit(s, b.commit_index, Len(Kept(s, b) \o b.entries))

\* stage and materialize.
stage(s, b) ==
  [s EXCEPT !.term = NextTerm(s, b),
            !.vote = IF b.hard_state = Nil THEN @ ELSE b.hard_state.vote,
            !.entries = Kept(s, b) \o b.entries,
            !.commit_index = IF b.commit_index = Nil THEN @ ELSE b.commit_index]

\* The state after a frame; Nil when the frame is refused.
Framed(s, frame) ==
  IF s = Nil THEN Nil
  ELSE IF stage_throws(s, frame.batch) THEN Nil
  ELSE [stage(s, frame.batch) EXCEPT !.last_frame_sequence = frame.sequence,
                                     !.file_bytes = @ + FrameSize(frame.batch)]
Replay(s, frames) == FoldLeft(Framed, s, frames)

-----------------------------------------------------------------------------
(* scan_source *)

\* The frame whose header is at offset; whether its header, its length and its
\* checksum are right.
FrameAt(f, o) == [sequence |-> f[o + 1].sequence, batch |-> f[o + 1].batch]
header_valid(f, o) ==
  /\ f[o + 1].sequence # 0
  /\ SubSeq(f, o + 1, o + FrameHeaderSize) = SubSeq(FrameCells(FrameAt(f, o)), 1, FrameHeaderSize)
frame_fits(f, o) == o + FrameSize(f[o + 1].batch) <= Len(f)
frame_valid(f, o) ==
  SubSeq(f, o + 1, o + FrameSize(f[o + 1].batch)) = FrameCells(FrameAt(f, o))

\* One turn of the scanner's loop from state s: Nil when it throws, s itself
\* at the end of the file or at an incomplete frame.
scan_step(f, s) ==
  LET o == s.file_bytes
  IN IF Len(f) - o < FrameHeaderSize THEN s
     ELSE IF ~header_valid(f, o) \/ f[o + 1].sequence # s.last_frame_sequence + 1 THEN Nil
     ELSE IF ~frame_fits(f, o) THEN s
     ELSE IF ~frame_valid(f, o) THEN Nil
     ELSE Framed(s, FrameAt(f, o))

\* The loop; a file has fewer frames than cells.  What was read counts as durable.
scan_source(f) ==
  LET turn(s, cell) == IF s = Nil THEN Nil ELSE scan_step(f, s)
      last == FoldLeft(turn, EmptyState, f)
  IN IF Len(f) < HeaderSize \/ last = Nil THEN Nil
     ELSE [last EXCEPT !.durable_frame_sequence = last.last_frame_sequence]

-----------------------------------------------------------------------------
(* The constructor *)

\* Opening an empty or a new file: its header is written next.
open_new ==
  /\ pc = "closed"
  /\ file = << >>
  /\ exists' = TRUE
  /\ created' = ~exists
  /\ todo' = HeaderCells
  /\ pc' = "header"
  /\ UNCHANGED <<setup, linked, file, medium, state, group, acked, faults>>

header_flush ==
  /\ pc = "header" /\ todo = << >>
  /\ medium' = file
  /\ state' = EmptyState
  /\ pc' = IF created THEN "sync_parent_directory" ELSE "open"
  /\ UNCHANGED <<setup, exists, linked, created, file, group, todo, acked, faults>>

\* Mutant: the directory is not flushed.
sync_parent_directory_Skipped ==
  /\ pc = "sync_parent_directory"
  /\ pc' = "open"
  /\ UNCHANGED <<setup, exists, linked, created, file, medium, state, group, todo, acked, faults>>

sync_parent_directory ==
  /\ pc = "sync_parent_directory"
  /\ linked' = TRUE
  /\ pc' = "open"
  /\ UNCHANGED <<setup, exists, created, file, medium, state, group, todo, acked, faults>>

\* Mutant: the incomplete tail stays in the file.
open_recover_KeepsTail ==
  /\ pc = "closed"
  /\ file # << >>
  /\ created' = FALSE
  /\ LET s == scan_source(file)
     IN IF s = Nil THEN pc' = "broken" /\ UNCHANGED state
        ELSE pc' = "open" /\ state' = s
  /\ UNCHANGED <<setup, exists, linked, file, medium, group, todo, acked, faults>>

\* Opening a file with content: it is scanned, and an incomplete tail is cut
\* off.  A file the scanner refuses cannot be opened.
open_recover ==
  /\ pc = "closed"
  /\ file # << >>
  /\ created' = FALSE
  /\ LET s == scan_source(file)
     IN IF s = Nil
        THEN pc' = "broken" /\ UNCHANGED <<file, state>>
        ELSE /\ state' = s
             /\ file' = SubSeq(file, 1, s.file_bytes)
             /\ pc' = IF s.file_bytes < Len(file) THEN "repair" ELSE "open"
  /\ UNCHANGED <<setup, exists, linked, medium, group, todo, acked, faults>>

repair_flush ==
  /\ pc = "repair"
  /\ medium' = file
  /\ pc' = "open"
  /\ UNCHANGED <<setup, exists, linked, created, file, state, group, todo, acked, faults>>

-----------------------------------------------------------------------------
(* Appending and flushing *)

append_group(batches) ==
  LET s == state.last_frame_sequence
      frames == [i \in DOMAIN batches |-> [sequence |-> s + i, batch |-> batches[i]]]
  IN /\ pc = "open"
     /\ s + Len(batches) <= MaxFrames
     /\ Replay(state, frames) # Nil
     /\ group' = frames
     /\ todo' = Cells(frames)
     /\ pc' = "write"
     /\ UNCHANGED <<setup, exists, linked, created, file, medium, state, acked, faults>>

\* write_exact puts the next cell at its offset.
write_exact ==
  /\ pc \in {"header", "write"} /\ todo # << >>
  /\ LET base == IF pc = "header" THEN 0 ELSE state.file_bytes
         whole == IF pc = "header" THEN HeaderSize ELSE Len(Cells(group))
         at == base + whole - Len(todo) + 1
     IN file' = IF at <= Len(file) THEN [file EXCEPT ![at] = Head(todo)]
                ELSE Append(file, Head(todo))
  /\ todo' = Tail(todo)
  /\ UNCHANGED <<setup, pc, exists, linked, created, medium, state, group, acked, faults>>

\* The frames that are in f to their last cell.
AllFrames(f) ==
  LET ends == SelectSeq(f, LAMBDA c : c.sequence # 0 /\ c.part = FrameSize(c.batch))
  IN [i \in DOMAIN ends |-> [sequence |-> ends[i].sequence, batch |-> ends[i].batch]]

\* The end of append_group: under the safe policy one flush for the group,
\* then the new state, and the caller learns that its frames are durable.
append_done ==
  /\ pc = "write" /\ todo = << >>
  /\ LET s == Replay(state, group)
     IN IF setup.flush_every
        THEN /\ medium' = file
             /\ state' = [s EXCEPT !.durable_frame_sequence = s.last_frame_sequence]
             /\ acked' = AllFrames(file)
        ELSE /\ state' = s
             /\ UNCHANGED <<medium, acked>>
  /\ group' = << >>
  /\ pc' = "open"
  /\ UNCHANGED <<setup, exists, linked, created, file, todo, faults>>

\* flush(), called under the unsafe policy: a barrier for everything written.
flush ==
  /\ pc = "open" /\ ~setup.flush_every
  /\ medium' = IF state.durable_frame_sequence = state.last_frame_sequence THEN medium ELSE file
  /\ state' = [state EXCEPT !.durable_frame_sequence = state.last_frame_sequence]
  /\ acked' = AllFrames(file)
  /\ UNCHANGED <<setup, pc, exists, linked, created, file, group, todo, faults>>

-----------------------------------------------------------------------------
(* Faults *)

\* A write or flush that reports an error: an instance in use stops for good
\* (fail), a constructor gives up.
io_error ==
  /\ \/ pc \in {"header", "repair", "sync_parent_directory"}
          /\ "open_error" \in setup.faults /\ pc' = "closed"
     \/ pc = "write" /\ "append_error" \in setup.faults /\ pc' = "failed"
     \/ pc = "open" /\ ~setup.flush_every /\ "append_error" \in setup.faults /\ pc' = "failed"
          /\ state.durable_frame_sequence # state.last_frame_sequence
  /\ faults < MaxFaults
  /\ faults' = faults + 1
  /\ todo' = << >>
  /\ group' = << >>
  /\ UNCHANGED <<setup, exists, linked, created, file, medium, state, acked>>

\* The process stops; the operating system keeps the file.
stop ==
  /\ "stop" \in setup.faults
  /\ pc \notin {"closed", "broken"}
  /\ faults < MaxFaults
  /\ faults' = faults + 1
  /\ pc' = "closed"
  /\ state' = EmptyState
  /\ todo' = << >>
  /\ group' = << >>
  /\ UNCHANGED <<setup, exists, linked, created, file, medium, acked>>

\* What a power loss can leave of file: writes and truncations since the last
\* flush reach the medium in order, up to some point.
Survivors ==
  LET same == Max({k \in 0..Min({Len(file), Len(medium)}) :
                     SubSeq(file, 1, k) = SubSeq(medium, 1, k)})
  IN {medium} \cup {SubSeq(file, 1, k) : k \in same..Len(file)}

power_loss ==
  /\ "power" \in setup.faults
  /\ pc # "broken"
  /\ faults < MaxFaults
  /\ faults' = faults + 1
  /\ \/ file' \in Survivors /\ UNCHANGED exists
     \/ exists /\ ~linked /\ file' = << >> /\ exists' = FALSE
  /\ medium' = file'
  /\ linked' = exists'
  /\ pc' = "closed"
  /\ state' = EmptyState
  /\ todo' = << >>
  /\ group' = << >>
  /\ UNCHANGED <<setup, created, acked>>

-----------------------------------------------------------------------------
(* Specification *)

Init ==
  /\ setup \in Setups
  /\ pc = "closed"
  /\ exists = FALSE /\ linked = FALSE /\ created = FALSE
  /\ file = << >> /\ medium = << >>
  /\ state = EmptyState
  /\ group = << >> /\ todo = << >>
  /\ acked = << >>
  /\ faults = 0

Next ==
  \/ open_new \/ open_recover \/ header_flush \/ sync_parent_directory \/ repair_flush
  \/ \E batches \in SeqOf(Batch, MaxGroup) \ {<< >>} : append_group(batches)
  \/ write_exact \/ append_done \/ flush
  \/ io_error \/ stop \/ power_loss

Spec == Init /\ [][Next]_vars

-----------------------------------------------------------------------------
(* Properties *)

\* Frames reported durable by append_group or flush are in the file after any
\* fault, in order and unchanged: recovery (scan_source and the truncation of
\* the tail in the constructor) never loses or alters one of them, and a file that
\* cannot be opened again, as a crash during its creation can leave it, never held one.
AckedSurvives ==
  /\ IsPrefix(acked, AllFrames(file))
  /\ pc = "broken" => acked = << >>

\* What an instance says of term, vote and committed entries never contradicts
\* anything that was reported durable at any time before (the checks of
\* ValidationView::stage, and recovery).
ReportedNeverTakenBack ==
  pc = "open" =>
    \A k \in 0..Len(acked) :
      LET r == Replay(EmptyState, SubSeq(acked, 1, k))
      IN /\ state.term >= r.term
         /\ state.term = r.term /\ r.vote # Nil => state.vote = r.vote
         /\ state.commit_index >= r.commit_index
         /\ SubSeq(state.entries, 1, r.commit_index) = SubSeq(r.entries, 1, r.commit_index)

\* The state append_group builds step by step is the one a restart would
\* recover from the same file, and the file ends where the next frame goes.
MemoryIsReplay ==
  pc = "open" =>
    LET s == scan_source(file)
    IN /\ s # Nil
       /\ [s EXCEPT !.durable_frame_sequence = 0]
            = [state EXCEPT !.durable_frame_sequence = 0]
       /\ Len(file) = state.file_bytes

=============================================================================
