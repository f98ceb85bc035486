-------------------------------- MODULE Capture --------------------------------
(***************************************************************************)
(* The capture and playback side of the client's audio task.               *)
(*                                                                         *)
(* run_audio_task decides whether the microphone may be heard and opens    *)
(* and reopens the devices.  The capture callback runs on a thread of the  *)
(* audio backend: it looks at the stream's active flag once, when a frame  *)
(* arrives, and then shares was_transmitting, the transmit light and the   *)
(* queue of encoded messages with the task.  Dropping a stream waits for   *)
(* the callback in flight, so that an arm that drops one takes two steps.  *)
(*                                                                         *)
(* A device is opened exactly when it is there.  Audio, the voice-activity *)
(* verdict and the media clock are abstracted: a verdict is any Boolean.   *)
(* The stream's active flag equals capture_is_active while a stream exists.*)
(***************************************************************************)
EXTENDS Naturals, Sequences

CONSTANT MaxQueue \* bound: encoded messages waiting when a frame, a command or a fault occurs

ASSUME CaptureConstants == MaxQueue \in Nat \ {0}

VARIABLES
    task,             \* what the audio task is in the middle of
    established,      \* the last of ConnectionEstablished and ConnectionClosed
    connection,       \* connection.is_some()
    ptt_mode, ptt_active, self_muted, server_muted, self_deafened,
    encoder,          \* the connection's encoder exists
    audio_input, input_recovering, mic,            \* capture stream, retry flag, device
    playback_stream, output_recovering, speaker,   \* the same for playback
    capture_is_active,
    was_transmitting, \* the callback's baseline
    light,            \* the transmit light: the last TransmittingChanged sent
    encoded,          \* messages for the send arm
    spurt,            \* the last datagram sent on this connection was audio
    cb,               \* where the callback is
    raced,            \* history: the last deactivation met a callback in flight
    input_refused, output_refused, \* history: the last open left no stream and no retry due
    output_left       \* history: hearing again found no connection, and no open was tried

wishes == <<ptt_mode, ptt_active, self_muted, server_muted, self_deafened>>
session == <<established, connection, encoder>>
input == <<audio_input, input_recovering, mic, input_refused>>
output == <<playback_stream, output_recovering, speaker, output_refused, output_left>>
gate == <<capture_is_active, was_transmitting, light, encoded, raced>>
capture_vars == <<task, session, wishes, input, output, gate, spurt, cb>>

Streams == {"none", "live", "dead"}

CaptureTypeOK ==
    /\ task \in {"ready", "closing", "reopening"}
    /\ {established, connection, encoder, ptt_mode, ptt_active, self_muted, server_muted,
        self_deafened, input_recovering, mic, output_recovering, speaker, capture_is_active,
        was_transmitting, light, spurt, raced, input_refused, output_refused, output_left}
       \subseteq BOOLEAN
    /\ {audio_input, playback_stream} \subseteq Streams
    /\ encoded \in Seq({"frame", "eos"})
    /\ cb \in {"idle", "in", "quiet", "speak", "encode"}

\* Playback is opened at start-up, for sound effects.
CaptureInit ==
    /\ task = "ready" /\ established = FALSE /\ connection = FALSE /\ encoder = FALSE
    /\ ptt_mode = TRUE /\ ptt_active = FALSE
    /\ self_muted = FALSE /\ server_muted = FALSE /\ self_deafened = FALSE
    /\ audio_input = "none" /\ input_recovering = FALSE /\ mic \in BOOLEAN
    /\ speaker \in BOOLEAN /\ output_recovering = FALSE
    /\ playback_stream = IF speaker THEN "live" ELSE "none"
    /\ capture_is_active = FALSE /\ was_transmitting = FALSE /\ light = FALSE
    /\ encoded = <<>> /\ spurt = FALSE /\ cb = "idle" /\ raced = FALSE
    /\ input_refused = FALSE /\ output_refused = ~speaker /\ output_left = FALSE

-----------------------------------------------------------------------------
(* Deciding *)

should_capture ==
    connection /\ ~self_muted /\ ~server_muted /\ (ptt_mode => ptt_active)

\* Mutant of deactivate_capture: no end of stream is sent
DeactivateSilently ==
    IF capture_is_active
    THEN /\ capture_is_active' = FALSE /\ was_transmitting' = FALSE /\ light' = FALSE
         /\ raced' = (cb # "idle")
         /\ UNCHANGED encoded
    ELSE UNCHANGED gate

\* End of stream, gate closed, baseline and light off
deactivate_capture ==
    IF capture_is_active
    THEN /\ capture_is_active' = FALSE /\ was_transmitting' = FALSE /\ light' = FALSE
         /\ encoded' = Append(encoded, "eos")
         /\ raced' = (cb # "idle")
    ELSE UNCHANGED gate

\* Activation waits for a stream; arming does not light the transmit light.
sync_transmission ==
    IF should_capture'
    THEN /\ capture_is_active' = (capture_is_active \/ audio_input' # "none")
         /\ UNCHANGED <<was_transmitting, light, encoded, raced>>
    ELSE deactivate_capture

\* Opening needs the device and, for capture, the connection's encoder.
start_transmission == IF encoder' /\ mic' THEN "live" ELSE "none"
open_playback == IF speaker' THEN "live" ELSE "none"

-----------------------------------------------------------------------------
(* Connection *)

\* The encoder's creation may fail.  A failed open is reported and not retried.
ConnectionEstablished ==
    /\ task = "ready"
    /\ established' = TRUE /\ connection' = TRUE
    /\ encoder' \in {TRUE, encoder}
    /\ UNCHANGED <<task, wishes, mic, input_recovering, speaker, output_recovering, cb>>
    /\ playback_stream' = IF playback_stream = "none" /\ ~self_deafened THEN open_playback ELSE playback_stream
    /\ output_refused' = (~self_deafened /\ playback_stream' = "none" /\ ~output_recovering)
    /\ output_left' = FALSE
    /\ audio_input' = IF audio_input = "none" THEN start_transmission ELSE audio_input
    /\ input_refused' = (audio_input' = "none" /\ ~input_recovering)
    /\ sync_transmission
    /\ spurt' = FALSE

\* Capture is stopped before the stream is dropped ...
ConnectionClosed ==
    /\ task = "ready"
    /\ task' = "closing"
    /\ connection' = FALSE
    /\ UNCHANGED <<established, encoder, wishes, input, output, spurt, cb>>
    /\ sync_transmission

\* ... and what belongs to the connection is reset once it is.
ConnectionCleared ==
    /\ task = "closing" /\ (audio_input # "none" => cb = "idle")
    /\ task' = "ready" /\ established' = FALSE
    /\ audio_input' = "none" /\ input_recovering' = FALSE /\ encoder' = FALSE /\ input_refused' = FALSE
    /\ ptt_active' = FALSE /\ server_muted' = FALSE
    /\ UNCHANGED <<connection, ptt_mode, self_muted, self_deafened, mic, output, gate, spurt, cb>>

\* The datagram stream ends or fails: the handle is dropped and nothing else
\* happens before ConnectionClosed arrives.
DatagramsEnd ==
    /\ task = "ready" /\ connection
    /\ connection' = FALSE
    /\ UNCHANGED <<task, established, encoder, wishes, input, output, gate, spurt, cb>>

-----------------------------------------------------------------------------
(* Devices and settings *)

\* The device already in use: the gate is brought up to date.
ConfirmInputDevice ==
    /\ task = "ready" /\ audio_input # "none"
    /\ UNCHANGED <<task, session, wishes, input, output, spurt, cb>>
    /\ sync_transmission

\* Another device, there or not, or the same one when no stream is open: a
\* deliberate choice ends the retries.
SetInputDevice ==
    /\ task = "ready"
    /\ task' = "reopening"
    /\ input_recovering' = FALSE /\ mic' \in BOOLEAN
    /\ deactivate_capture
    /\ UNCHANGED <<session, wishes, audio_input, input_refused, output, spurt, cb>>

\* New settings, or a new pipeline, need a new stream.
UpdateSettings ==
    /\ task = "ready"
    /\ task' = "reopening"
    /\ deactivate_capture
    /\ UNCHANGED <<session, wishes, input, output, spurt, cb>>

UpdateTxPipeline == UpdateSettings

\* Mutant of Reopen: the gate is not brought up to date
ReopenNoSync ==
    /\ task = "reopening" /\ (audio_input # "none" => cb = "idle")
    /\ task' = "ready"
    /\ UNCHANGED <<session, wishes, input_recovering, mic, output, gate, spurt, cb>>
    /\ audio_input' = IF connection THEN start_transmission ELSE "none"
    /\ input_refused' = (connection /\ audio_input' = "none" /\ ~input_recovering)

\* The stream is dropped, opened again if connected, and armed if wanted.
Reopen ==
    /\ task = "reopening" /\ (audio_input # "none" => cb = "idle")
    /\ task' = "ready"
    /\ UNCHANGED <<session, wishes, input_recovering, mic, output, spurt, cb>>
    /\ audio_input' = IF connection THEN start_transmission ELSE "none"
    /\ input_refused' = (connection /\ audio_input' = "none" /\ ~input_recovering)
    /\ sync_transmission

SetOutputDevice ==
    /\ task = "ready"
    /\ output_recovering' = FALSE /\ speaker' \in BOOLEAN
    /\ playback_stream' = IF self_deafened THEN "none" ELSE open_playback
    /\ output_refused' = (~self_deafened /\ playback_stream' = "none") /\ output_left' = FALSE
    /\ UNCHANGED <<task, session, wishes, input, gate, spurt, cb>>

-----------------------------------------------------------------------------
(* Wishes *)

Wish ==
    /\ task = "ready"
    /\ UNCHANGED <<task, session, input, output, spurt, cb>>

\* StartTransmit and StopTransmit
Transmit ==
    /\ Wish /\ ptt_active' = ~ptt_active
    /\ UNCHANGED <<ptt_mode, self_muted, server_muted, self_deafened>>
    /\ sync_transmission

SetVoiceMode ==
    /\ Wish /\ ptt_mode' = ~ptt_mode
    /\ UNCHANGED <<ptt_active, self_muted, server_muted, self_deafened>>
    /\ sync_transmission

SetMuted ==
    /\ Wish /\ self_muted' = ~self_muted
    /\ UNCHANGED <<ptt_mode, ptt_active, server_muted, self_deafened>>
    /\ sync_transmission

SetServerMuted ==
    /\ Wish /\ server_muted' = ~server_muted
    /\ UNCHANGED <<ptt_mode, ptt_active, self_muted, self_deafened>>
    /\ sync_transmission

\* Deafening mutes and closes playback.  Hearing again opens it if connected;
\* without a connection no open is tried and playback stays closed.  Either may
\* be asked for again.
SetDeafened ==
    /\ task = "ready"
    /\ self_deafened' \in BOOLEAN
    /\ self_muted' = (self_muted \/ self_deafened')
    /\ UNCHANGED <<task, session, input, speaker, ptt_mode, ptt_active, server_muted, spurt, cb>>
    /\ LET opens == connection /\ playback_stream = "none"
       IN IF self_deafened'
          THEN /\ playback_stream' = "none" /\ output_recovering' = FALSE
               /\ output_refused' = FALSE /\ output_left' = FALSE
          ELSE /\ playback_stream' = IF opens THEN open_playback ELSE playback_stream
               /\ output_refused' = IF opens THEN playback_stream' = "none" /\ ~output_recovering
                                    ELSE output_refused
               /\ output_left' = (~connection /\ (output_left \/ self_deafened))
               /\ UNCHANGED output_recovering
    /\ sync_transmission

-----------------------------------------------------------------------------
(* The health tick *)
InputNeedsRecovery == audio_input = "dead" \/ (audio_input = "none" /\ input_recovering)
OutputNeedsRecovery == playback_stream = "dead" \/ (playback_stream = "none" /\ output_recovering)

\* Mutant of RecoverInput: a failed open is not tried again
RecoverInputOnce ==
    IF InputNeedsRecovery
    THEN /\ audio_input' = IF connection THEN start_transmission ELSE "none"
         /\ input_recovering' = FALSE
         /\ capture_is_active' = (audio_input' = "live" /\ should_capture)
         /\ IF capture_is_active
            THEN /\ was_transmitting' = FALSE /\ light' = FALSE /\ raced' = (cb # "idle")
                 /\ encoded' = Append(encoded, "eos")
            ELSE UNCHANGED <<was_transmitting, light, raced, encoded>>
    ELSE UNCHANGED <<audio_input, input_recovering, gate>>

\* A dead stream is closed as any other; the retry stays due while connected.
RecoverInput ==
    IF InputNeedsRecovery
    THEN /\ audio_input' = IF connection THEN start_transmission ELSE "none"
         /\ input_recovering' = (connection /\ audio_input' = "none")
         /\ capture_is_active' = (audio_input' = "live" /\ should_capture)
         /\ IF capture_is_active
            THEN /\ was_transmitting' = FALSE /\ light' = FALSE /\ raced' = (cb # "idle")
                 /\ encoded' = Append(encoded, "eos")
            ELSE UNCHANGED <<was_transmitting, light, raced, encoded>>
    ELSE UNCHANGED <<audio_input, input_recovering, gate>>

\* Playback runs without a connection too; deafening ends the retries.
RecoverOutput ==
    IF OutputNeedsRecovery
    THEN /\ playback_stream' = IF self_deafened THEN "none" ELSE open_playback
         /\ output_recovering' = (~self_deafened /\ playback_stream' = "none")
    ELSE UNCHANGED <<playback_stream, output_recovering>>

HealthTick ==
    /\ task = "ready" /\ (InputNeedsRecovery \/ OutputNeedsRecovery)
    /\ UNCHANGED <<task, session, wishes, mic, input_refused, speaker, output_refused, output_left, spurt, cb>>
    /\ RecoverInput
    /\ RecoverOutput

-----------------------------------------------------------------------------
(* Sending and the capture callback *)

\* Without a connection a message is dropped.
SendEncoded ==
    /\ task = "ready" /\ encoded # <<>>
    /\ encoded' = Tail(encoded)
    /\ spurt' = IF connection THEN Head(encoded) = "frame" ELSE spurt
    /\ UNCHANGED <<task, session, wishes, input, output, capture_is_active, was_transmitting,
                   light, raced, cb>>

Callback == UNCHANGED <<task, session, wishes, input, output, capture_is_active, raced, spurt>>

\* A frame of a stream that is active, past its warm-up frames
FrameArrives ==
    /\ cb = "idle" /\ audio_input = "live" /\ capture_is_active /\ Len(encoded) < MaxQueue
    /\ cb' = "in"
    /\ Callback /\ UNCHANGED <<was_transmitting, light, encoded>>

\* The pipeline's verdict, which the key overrides; an edge sets the light.
Judge(verdict) ==
    /\ cb = "in"
    /\ LET suppress == verdict /\ ~ptt_mode
       IN /\ light' = IF was_transmitting = suppress THEN ~suppress ELSE light
          /\ cb' = IF ~suppress THEN "speak" ELSE IF was_transmitting THEN "quiet" ELSE "idle"
    /\ Callback /\ UNCHANGED <<was_transmitting, encoded>>

FallSilent ==
    /\ cb = "quiet"
    /\ was_transmitting' = FALSE /\ encoded' = Append(encoded, "eos")
    /\ cb' = "idle"
    /\ Callback /\ UNCHANGED light

Speak ==
    /\ cb = "speak"
    /\ was_transmitting' = TRUE
    /\ cb' = "encode"
    /\ Callback /\ UNCHANGED <<light, encoded>>

Encode ==
    /\ cb = "encode"
    /\ encoded' = IF encoder THEN Append(encoded, "frame") ELSE encoded
    /\ cb' = "idle"
    /\ Callback /\ UNCHANGED <<was_transmitting, light>>

-----------------------------------------------------------------------------
(* The devices: a stream dies between two frames, its device lost or not. *)
MicFails ==
    /\ cb = "idle" /\ (mic \/ audio_input = "live")
    /\ mic' \in BOOLEAN
    /\ audio_input' = IF audio_input = "live" THEN "dead" ELSE audio_input
    /\ UNCHANGED <<task, session, wishes, input_recovering, input_refused, output, gate, spurt, cb>>

SpeakerFails ==
    /\ speaker \/ playback_stream = "live"
    /\ speaker' \in BOOLEAN
    /\ playback_stream' = IF playback_stream = "live" THEN "dead" ELSE playback_stream
    /\ UNCHANGED <<task, session, wishes, input, output_recovering, output_refused, output_left, gate, spurt, cb>>

Plug ==
    /\ \/ ~mic /\ mic' = TRUE /\ UNCHANGED speaker
       \/ ~speaker /\ speaker' = TRUE /\ UNCHANGED mic
    /\ UNCHANGED <<task, session, wishes, audio_input, input_recovering, input_refused,
                   playback_stream, output_recovering, output_refused, output_left, gate, spurt, cb>>

Arms ==
    \/ ConnectionEstablished \/ ConnectionClosed \/ DatagramsEnd
    \/ ConfirmInputDevice \/ SetInputDevice \/ UpdateSettings \/ UpdateTxPipeline \/ SetOutputDevice
    \/ Transmit \/ SetVoiceMode \/ SetMuted \/ SetServerMuted \/ SetDeafened
Continue == ConnectionCleared \/ Reopen
CallbackRuns == (\E verdict \in BOOLEAN : Judge(verdict)) \/ FallSilent \/ Speak \/ Encode
Devices == MicFails \/ SpeakerFails \/ Plug

CaptureNext == (Len(encoded) < MaxQueue /\ (Arms \/ Devices)) \/ Continue \/ HealthTick \/ SendEncoded \/ FrameArrives \/ CallbackRuns

CaptureSpec == CaptureInit /\ [][CaptureNext]_capture_vars

\* The task returns from every arm to its select, which picks at random among the
\* arms that are ready: one that is ready again and again is served, hence strong
\* fairness.  A callback that has begun returns.
FairCaptureSpec ==
    /\ CaptureSpec
    /\ WF_capture_vars(Continue) /\ WF_capture_vars(CallbackRuns)
    /\ SF_capture_vars(HealthTick) /\ SF_capture_vars(SendEncoded)

-----------------------------------------------------------------------------
(* Properties *)

\* Between two commands the microphone is live exactly when a stream exists and
\* the user's and the server's wishes allow it, however commands, reopenings and
\* retries are mixed.  Only a lost datagram stream leaves it live without a
\* connection until the next command; it is never live against a wish.
MicFollows ==
    task = "ready" =>
        /\ capture_is_active =>
               /\ audio_input # "none" /\ established
               /\ ~self_muted /\ ~server_muted /\ (ptt_mode => ptt_active)
        /\ should_capture /\ audio_input # "none" => capture_is_active

\* Once capture is off and the queue is sent, receivers have been told that the
\* spurt is over, the transmit light is off and the callback's baseline is reset,
\* unless the deactivation met a callback in flight.
SilenceIsTold ==
    ~capture_is_active /\ ~raced =>
        /\ ~light /\ ~was_transmitting
        /\ connection /\ encoded = <<>> => ~spurt

\* A device that is there comes back: whatever stream died, and however often its
\* reopening failed, it is live again, and capture with it if it is wanted.  Two
\* cases are left to the user's next command: a deliberate open that failed while
\* no retry was due is not tried again, and a user who hears again without a
\* connection gets no open at all (against "undeafen will re-open"), so that
\* playback stays closed until the next connection or choice of a device.
DevicesRecover ==
    /\ <>[](should_capture /\ encoder /\ mic /\ ~input_refused)
           => []<>(capture_is_active /\ audio_input = "live")
    /\ <>[](~self_deafened /\ speaker /\ ~output_refused /\ ~output_left)
           => []<>(playback_stream = "live")
=============================================================================
