------------------------------- MODULE V4l2Camera -------------------------------
(***************************************************************************)
(* The camera of Linux (cam-linux.cpp): a thread takes pictures out of the *)
(* kernel's buffers and stores them in mpeg_buffer, from which the         *)
(* emulator's thread takes them; opening and closing start and stop it.    *)
(*                                                                         *)
(* A picture is its number, twice, for the two halves of a copy, and a     *)
(* length.  The cameras of both ports share all of this.  Left out: the    *)
(* search for the camera's name, and picture formats that are dropped.     *)
(***************************************************************************)
EXTENDS Integers, FiniteSets

CONSTANTS
  MaxFrames,   \* bound: pictures that are captured
  MaxOpens,    \* bound: calls of open() on the device file
  Unplugs      \* whether the camera may be pulled
V4l2CameraConstants == MaxFrames \in Nat /\ MaxOpens \in Nat /\ Unplugs \in BOOLEAN

VARIABLES
  main,            \* where the emulator's thread is
  after,           \* and what it was called for: "open", "close", "none"
  thread,          \* where the camera's is
  eyetoy_running,
  fd,              \* -1, or which open() it is from
  mapped,          \* the kernel's buffers are in memory
  mpeg_buffer,     \* h: the halves, len: of which picture the length is
  mpeg_mutex,      \* who holds it, or "none"
  frame,           \* the picture the thread works on
  stale,           \* its copy goes to a buffer that was replaced
  image,           \* what GetImage gave
  world,           \* files: open files, streams: the one that streams, there: is there
  frames,          \* pictures captured
  past             \* history: early, the thread looked before Open was ready;
                   \* left, a file was not closed; opened, Open had success

state == <<main, after, thread, eyetoy_running, fd, mapped, mpeg_buffer, mpeg_mutex, frame,
           stale, image, world, frames, past>>

Blank == -1
Dummy == 0
NoPicture == [h |-> <<Blank, Blank>>, len |-> Blank]

Init ==
  /\ main = "idle" /\ after = "none" /\ thread = "ended" /\ eyetoy_running = FALSE
  /\ fd = -1 /\ mapped = FALSE
  /\ mpeg_buffer = NoPicture /\ mpeg_mutex = "none" /\ frame = Blank /\ stale = FALSE
  /\ image = NoPicture
  /\ world = [files |-> {}, streams |-> -1, there |-> TRUE] /\ frames = 0
  /\ past = [early |-> FALSE, left |-> FALSE, opened |-> FALSE, opens |-> 0]

-----------------------------------------------------------------------------
(* v4l_thread.                                                             *)

threadKeeps == UNCHANGED <<main, after, fd, mapped, image, past>>
threadStays == threadKeeps /\ UNCHANGED <<eyetoy_running, mpeg_buffer, mpeg_mutex, frame, stale,
                                          world, frames>>
Streams == fd \in world.files /\ world.streams = fd

\* while (eyetoy_running)
Goes == thread' = IF eyetoy_running THEN "select" ELSE "quit"
Loop ==
  /\ thread = "loop" /\ Goes
  /\ past' = [past EXCEPT !.early = @ \/ (~eyetoy_running /\ main \in {"run", "idle"})]
  /\ UNCHANGED <<main, after, fd, mapped, image, eyetoy_running, mpeg_buffer, mpeg_mutex, frame,
                 stale, world, frames>>
\* select: a picture is there, or it takes too long or fails.
Select == thread = "select" /\ thread' \in {"read", "loop"} /\ threadStays
\* read_frame: a picture, none after all, or a failure.
Dequeue == frames' = frames + 1 /\ frame' = frames + 1 /\ thread' = "lock"
ReadError == ~world.there /\ thread' = "loop"
ReadFrame ==
  /\ thread = "read"
  /\ \/ /\ world.there /\ frames < MaxFrames /\ Dequeue
        /\ threadKeeps /\ UNCHANGED <<eyetoy_running, mpeg_buffer, mpeg_mutex, stale, world>>
     \/ world.there /\ thread' = "select" /\ threadStays
     \/ ReadError /\ threadStays
\* store_mpeg_frame.
\* Mutant of StoreLock: without the lock.
StoreLockNot == thread = "lock" /\ thread' = "first" /\ UNCHANGED mpeg_mutex
StoreLock == thread = "lock" /\ mpeg_mutex = "none" /\ mpeg_mutex' = "thread" /\ thread' = "first"
StoreTo(half, pc) ==
  /\ thread' = pc
  /\ mpeg_buffer' = IF stale THEN mpeg_buffer ELSE [mpeg_buffer EXCEPT !.h[half] = frame]
StoreLength ==
  /\ thread = "length" /\ thread' = "unlock"
  /\ mpeg_buffer' = [mpeg_buffer EXCEPT !.len = frame]
StoreFrame ==
  /\ \/ StoreLock /\ UNCHANGED <<mpeg_buffer, stale>>
     \/ thread = "first" /\ StoreTo(1, "second") /\ UNCHANGED <<mpeg_mutex, stale>>
     \/ thread = "second" /\ StoreTo(2, "length") /\ UNCHANGED <<mpeg_mutex, stale>>
     \/ StoreLength /\ UNCHANGED <<mpeg_mutex, stale>>
     \/ /\ thread = "unlock" /\ thread' = "loop" /\ stale' = FALSE
        /\ mpeg_mutex' = IF mpeg_mutex = "thread" THEN "none" ELSE mpeg_mutex
        /\ UNCHANGED mpeg_buffer
  /\ threadKeeps /\ UNCHANGED <<eyetoy_running, frame, world, frames>>
Quit ==
  /\ thread = "quit" /\ thread' = "ended" /\ eyetoy_running' = FALSE
  /\ threadKeeps /\ UNCHANGED <<mpeg_buffer, mpeg_mutex, frame, stale, world, frames>>

ThreadStep == Loop \/ Select \/ ReadFrame \/ StoreFrame \/ Quit

-----------------------------------------------------------------------------
(* The emulator's thread: Open, Close, GetImage.                           *)

mainKeeps == UNCHANGED <<thread, frame, frames>>

\* Open: a new buffer, into which the thread of before may still be copying.
Open ==
  /\ main = "idle" /\ main' = "dummyLock" /\ after' = "open" /\ past.opens < MaxOpens
  /\ mpeg_buffer' = [mpeg_buffer EXCEPT !.h = <<Blank, Blank>>]
  /\ stale' = (stale \/ thread \in {"first", "second"})
  /\ mainKeeps /\ UNCHANGED <<eyetoy_running, fd, mapped, mpeg_mutex, image, world, past>>
\* create_dummy_frame.
DummyFrame ==
  /\ \/ /\ main = "dummyLock" /\ mpeg_mutex = "none" /\ mpeg_mutex' = "main" /\ main' = "dummy"
        /\ UNCHANGED mpeg_buffer
     \/ /\ main = "dummy" /\ mpeg_mutex' = "none" /\ main' = "stop"
        /\ mpeg_buffer' = [h |-> <<Dummy, Dummy>>, len |-> Dummy]
  /\ mainKeeps /\ UNCHANGED <<after, eyetoy_running, fd, mapped, stale, image, world, past>>
Close ==
  /\ main = "idle" /\ main' = "stop" /\ after' = "close"
  /\ mainKeeps /\ UNCHANGED <<eyetoy_running, fd, mapped, mpeg_buffer, mpeg_mutex, stale, image,
                              world, past>>

\* What comes when a camera that ran is stopped, or none did.
Stopped == IF after = "open" THEN "v4l_open" ELSE "idle"
Stopping == main' = IF eyetoy_running THEN "join" ELSE Stopped
\* Both: if (eyetoy_running) it is told to stop, waited for, and closed.
Stop ==
  /\ main = "stop" /\ eyetoy_running' = FALSE
  /\ Stopping
  /\ past' = IF after = "close" /\ ~eyetoy_running THEN [past EXCEPT !.opened = FALSE] ELSE past
  /\ mainKeeps /\ UNCHANGED <<after, fd, mapped, mpeg_buffer, mpeg_mutex, stale, image, world>>
Join == main = "join" /\ thread = "ended" /\ main' = "v4l_close"
Joined ==
  /\ Join
  /\ mainKeeps /\ UNCHANGED <<after, eyetoy_running, fd, mapped, mpeg_buffer, mpeg_mutex, stale,
                              image, world, past>>
\* v4l_close: STREAMOFF fails when the camera is gone, and nothing is closed.
V4lClose ==
  /\ main = "v4l_close" /\ main' = Stopped
  /\ IF world.there /\ Streams
     THEN /\ world' = [world EXCEPT !.files = @ \ {fd}, !.streams = -1]
          /\ fd' = -1 /\ mapped' = FALSE
          /\ past' = [past EXCEPT !.opened = FALSE, !.early = FALSE]
     ELSE /\ past' = [past EXCEPT !.opened = FALSE, !.left = TRUE, !.early = FALSE]
          /\ UNCHANGED <<world, fd, mapped>>
  /\ mainKeeps /\ UNCHANGED <<after, eyetoy_running, mpeg_buffer, mpeg_mutex, stale, image>>

\* v4l_open: no file can be opened; or one can, but what follows fails, as it
\* does when another one streams; or the camera streams.
NextFd == past.opens
OpenFails ==
  /\ main = "v4l_open" /\ main' = "idle" /\ ~world.there /\ fd' = -1
  /\ past' = [past EXCEPT !.left = @ \/ fd \in world.files, !.opened = FALSE]
  /\ mainKeeps /\ UNCHANGED <<after, eyetoy_running, mapped, mpeg_buffer, mpeg_mutex, stale,
                              image, world>>
SetupFails ==
  /\ main = "v4l_open" /\ main' = "idle" /\ world.there /\ past.opens < MaxOpens
  /\ fd' = NextFd /\ world' = [world EXCEPT !.files = @ \cup {NextFd}]
  /\ mapped' \in {mapped, TRUE}
  /\ past' = [past EXCEPT !.left = TRUE, !.opens = @ + 1, !.opened = FALSE]
  /\ mainKeeps /\ UNCHANGED <<after, eyetoy_running, mpeg_buffer, mpeg_mutex, stale, image>>
V4lOpen ==
  /\ main = "v4l_open" /\ main' = "create" /\ world.there /\ past.opens < MaxOpens
  /\ world.streams = -1
  /\ fd' = NextFd /\ mapped' = TRUE
  /\ world' = [world EXCEPT !.files = @ \cup {NextFd}, !.streams = NextFd]
  /\ past' = [past EXCEPT !.left = @ \/ fd \in world.files, !.opens = @ + 1,
                         !.early = FALSE]
  /\ mainKeeps /\ UNCHANGED <<after, eyetoy_running, mpeg_buffer, mpeg_mutex, stale, image>>
\* The thread is created, then eyetoy_running set.
Create ==
  /\ main = "create" /\ main' = "run" /\ thread' = "loop"
  /\ UNCHANGED <<after, eyetoy_running, fd, mapped, mpeg_buffer, mpeg_mutex, frame, stale,
                 image, world, frames, past>>
Run ==
  /\ main = "run" /\ main' = "idle" /\ eyetoy_running' = TRUE
  /\ past' = [past EXCEPT !.opened = TRUE]
  /\ mainKeeps /\ UNCHANGED <<after, fd, mapped, mpeg_buffer, mpeg_mutex, stale, image, world>>

\* GetImage.
GetImage ==
  /\ \/ /\ main = "idle" /\ mpeg_mutex = "none" /\ mpeg_mutex' = "main" /\ main' = "get1"
        /\ UNCHANGED image
     \/ /\ main = "get1" /\ main' = "get2" /\ UNCHANGED mpeg_mutex
        /\ image' = [h |-> <<mpeg_buffer.h[1], image.h[2]>>, len |-> mpeg_buffer.len]
     \/ /\ main = "get2" /\ main' = "idle" /\ mpeg_mutex' = "none"
        /\ image' = [image EXCEPT !.h[2] = mpeg_buffer.h[2]]
  /\ mainKeeps /\ UNCHANGED <<after, eyetoy_running, fd, mapped, mpeg_buffer, stale, world, past>>

\* The camera is pulled: its stream is over; later it is there again.
Plug ==
  /\ Unplugs /\ world' = [world EXCEPT !.there = ~@, !.streams = -1]
  /\ UNCHANGED <<main, after, thread, eyetoy_running, fd, mapped, mpeg_buffer, mpeg_mutex, frame,
                 stale, image, frames, past>>

MainStep == DummyFrame \/ Stop \/ Joined \/ V4lClose \/ OpenFails \/ SetupFails \/ V4lOpen
            \/ Create \/ Run
Next == ThreadStep \/ MainStep \/ Open \/ Close \/ GetImage \/ Plug
Spec == Init /\ [][Next]_state
\* Both threads run, a lock that comes free is taken, and a camera does not say
\* forever that it has a picture when it has none.
FairSpec == Spec /\ WF_state(ThreadStep) /\ SF_state(MainStep) /\ WF_state(main # "idle" /\ GetImage)
                 /\ SF_state(thread = "lock" /\ StoreFrame)
                 /\ SF_state(thread' \in {"loop", "lock"} /\ (Select \/ ReadFrame))

-----------------------------------------------------------------------------
(* Properties.                                                             *)

\* Type invariant.
TypeOK ==
  /\ fd \in -1 .. MaxOpens /\ world.streams \in {-1} \cup world.files
  /\ mpeg_mutex \in {"none", "main", "thread"} /\ frame \in Blank..MaxFrames
  /\ mpeg_mutex = "thread" <=> thread \in {"first", "second", "length", "unlock"}
  /\ mpeg_mutex = "main" <=> main \in {"dummy", "get1", "get2"}

\* GetImage gives a whole picture and its length, never the half of two.
WholeImage == main \notin {"get1", "get2"} => image \in {[h |-> <<f, f>>, len |-> f] : f \in Blank..MaxFrames}

\* While the thread waits for pictures, or has one of the kernel's buffers, the
\* file is open and the buffers are in memory.
ThreadHasCamera ==
  thread \in {"select", "read", "lock", "first", "second", "length", "unlock"} =>
    fd \in world.files /\ mapped

\* A camera that was opened runs; it ends by itself only when the thread was
\* quicker than Open, which sets eyetoy_running after it has created it.
RunsWhenOpened ==
  main = "idle" /\ past.opened /\ ~past.early => eyetoy_running /\ thread \notin {"quit", "ended"}

\* Files stay open only after a failure, or when the thread was that quick.
FilesAreClosed ==
  main = "idle" /\ ~past.opened /\ ~past.early /\ ~past.left => world.files = {}

\* Open and Close come to their end, also while the camera is pulled.
OpenAndCloseEnd == main # "idle" ~> main = "idle"

\* It is a source of pictures.
Abstract == INSTANCE FrameSource WITH latest <- mpeg_buffer.h[1], got <- image.h[1],
  newest <- IF frame = Blank THEN Dummy ELSE IF thread \in {"lock", "first"} THEN frame - 1 ELSE frame
ImplementsSource == Abstract!Source
=============================================================================
