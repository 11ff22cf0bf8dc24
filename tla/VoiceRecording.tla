--------------------------- MODULE VoiceRecording ---------------------------
(***************************************************************************)
(* Recording of voice by the client: GlobedAudioManager (audio/manager.cpp)*)
(* with its audio thread, VoiceRecordingManager (voice_record_manager.cpp) *)
(* with its record thread, and the two users of both on the main thread, a *)
(* level with voice chat (hooks/gjbasegamelayer.cpp) and the microphone    *)
(* test in the settings (AudioSetupPopup).                                 *)
(*                                                                         *)
(* The three threads share atomic flags and no lock, so each step below    *)
(* ends where another thread can see a difference: the flags that start a  *)
(* recording are set one after the other while the audio thread may        *)
(* already be recording.                                                   *)
(*                                                                         *)
(* Samples are kept as the set of reasons they were captured for: "key"    *)
(* (the voice key was held), "idle" (in a level without the key) or "test" *)
(* (the popup); counts of samples and opus frames only as far as the code  *)
(* compares them.                                                          *)
(*                                                                         *)
(* A definition whose name ends in _m is a faulty variant of the one after *)
(* it, kept to see that the properties notice the fault.                   *)
(***************************************************************************)
EXTENDS Naturals, FiniteSets

CONSTANTS LevelCapacity,    \* opus frames in a voice packet (LIMIT_REGULAR, LIMIT_LOW_LATENCY)
          Patient           \* the user waits for the threads' loops (5 and 10 ms) between actions

ASSUME VoiceAssumption == LevelCapacity \in Nat \ {0} /\ Patient \in BOOLEAN

VARIABLES place,            \* where the user is: "menu", "level" or "popup"
          deafened,
          plugged,          \* whether a microphone is there
          recordDevice,     \* recordDevice.id # -1
          fmod,             \* FMOD records
          flags,            \* the atomic flags of GlobedAudioManager
          callbacks,        \* recordCallback and recordRawCallback
          recordQueue,
          recordFrame,      \* [size, of]: opus frames, and what they hold
          capacity,
          queuedStart,      \* a request to VoiceRecordingManager (stopRecording is never called)
          recording,        \* VoiceRecordingManager::isRecording
          pc,               \* where each thread is
          sent              \* what was sent to the server

voiceVars == <<place, deafened, plugged, recordDevice, fmod, flags, callbacks,
          recordQueue, recordFrame, capacity, queuedStart, recording, pc, sent>>
user == <<place, deafened, plugged>>
buffers == <<recordQueue, recordFrame, capacity>>
manager == <<queuedStart, recording>>

Reason == {"key", "idle", "test"}
FlagNames == {"active", "queuedStop", "queuedHalt", "raw", "passive", "passiveActive"}
EmptyFrame == [size |-> 0, of |-> {}]

(* Every value the variables can take; a frame never holds more than its   *)
(* capacity, so encoding it for a packet does not throw.                   *)
VoiceTypeOK ==
    /\ place \in {"menu", "level", "popup"}
    /\ {deafened, plugged, recordDevice, fmod, queuedStart, recording} \subseteq BOOLEAN
    /\ flags \in [FlagNames -> BOOLEAN]
    /\ callbacks \in [encoded : {"none", "voice"}, raw : {"none", "popup"}]
    /\ recordQueue \subseteq Reason
    /\ capacity \in {1, LevelCapacity}
    /\ recordFrame \in [size : 0 .. capacity, of : SUBSET Reason]
    /\ pc \in [main : {"user", "passive", "callback", "halt"},
               record : {"loop", "queued", "passive", "callback", "reset"},
               audio : {"loop", "stopped", "released", "over"}]
    /\ sent \subseteq Reason

(* GlobedAudioManager and preInitialize: the saved device, or the first.   *)
VoiceInit ==
    /\ place = "menu" /\ deafened = FALSE
    /\ plugged \in BOOLEAN /\ recordDevice = plugged
    /\ fmod = FALSE /\ flags = [f \in FlagNames |-> FALSE]
    /\ callbacks = [encoded |-> "none", raw |-> "none"]
    /\ recordQueue = {} /\ recordFrame = EmptyFrame /\ capacity = LevelCapacity
    /\ queuedStart = FALSE /\ recording = FALSE
    /\ pc = [main |-> "user", record |-> "loop", audio |-> "loop"]
    /\ sent = {}

-----------------------------------------------------------------------------
(* GlobedAudioManager.                                                     *)

(* isRecording: without a device no; while recording passively, whether    *)
(* the key is held; otherwise what FMOD says.                              *)
isRecording ==
    /\ recordDevice
    /\ IF flags.active /\ flags.passive THEN flags.passiveActive ELSE fmod

(* Asking FMOD about a device that is gone unsets it.                      *)
DeviceAfterQuery == recordDevice /\ (plugged \/ (flags.active /\ flags.passive))

(* getRecordingDevice(id): a device that FMOD still knows (and that is not *)
(* a loopback).                                                            *)
getRecordingDevice == plugged

(* setActiveRecordingDevice(id), which throws while recording.             *)
setActiveRecordingDevice(dev) ==
    recordDevice' = IF recordDevice /\ isRecording THEN DeviceAfterQuery ELSE dev

(* startRecordingInternal of a thread up to `recordActive = true`; FMOD    *)
(* refuses a device that is gone.                                          *)
startRecordingInternal(t, from, to) ==
    /\ recordDevice /\ ~isRecording /\ ~flags.active
    /\ pc[t] \in from
    /\ plugged
    /\ fmod' = TRUE
    /\ flags' = [flags EXCEPT !.active = TRUE, !.queuedStop = FALSE, !.queuedHalt = FALSE]
    /\ pc' = [pc EXCEPT ![t] = to]

CannotStart == ~recordDevice \/ isRecording \/ flags.active \/ ~plugged

(* `recordingPassive = passive`, after the recording has begun.            *)
SetPassive(t) ==
    /\ pc[t] = "passive"
    /\ flags' = [flags EXCEPT !.passive = (t = "record")]
    /\ pc' = [pc EXCEPT ![t] = "callback"]
    /\ UNCHANGED <<user, recordDevice, fmod, callbacks, buffers, manager, sent>>

(* The end of startPassiveRecording and of startRecordingRaw.              *)
SetCallback(t) ==
    /\ pc[t] = "callback"
    /\ callbacks' = IF t = "record" THEN [callbacks EXCEPT !.encoded = "voice"]
                                    ELSE [callbacks EXCEPT !.raw = "popup"]
    /\ flags' = [flags EXCEPT !.raw = (t = "main")]
    /\ pc' = [pc EXCEPT ![t] = IF t = "record" THEN "reset" ELSE "user"]
    /\ UNCHANGED <<user, recordDevice, fmod, buffers, manager, sent>>

(* haltRecording sets recordQueuedStop, then recordQueuedHalt.             *)
haltRecording ==
    /\ flags' = [flags EXCEPT !.queuedStop = TRUE]
    /\ pc' = [pc EXCEPT !.main = "halt"]
HaltRest ==
    /\ pc.main = "halt"
    /\ flags' = [flags EXCEPT !.queuedHalt = TRUE]
    /\ pc' = [pc EXCEPT !.main = "user"]
    /\ UNCHANGED <<user, recordDevice, fmod, callbacks, buffers, manager, sent>>

(* The callback of VoiceRecordingManager sends a VoicePacket; the default  *)
(* one does nothing.                                                       *)
recordInvokeCallback(frame) ==
    sent' = IF callbacks.encoded = "voice" THEN sent \cup frame.of ELSE sent

-----------------------------------------------------------------------------
(* The audio thread.                                                       *)

(* internalStopRecording up to its test of recordQueuedHalt, with the call *)
(* of the callback for what is left over if it is only stopped.            *)
internalStopRecording ==
    /\ fmod' = FALSE
    /\ recordFrame' = EmptyFrame
    /\ IF flags.queuedHalt
       THEN sent' = sent /\ flags' = [flags EXCEPT !.queuedStop = FALSE, !.queuedHalt = FALSE]
       ELSE recordInvokeCallback(recordFrame) /\ flags' = [flags EXCEPT !.queuedStop = FALSE]
    /\ pc' = [pc EXCEPT !.audio = "stopped"]

(* audioThreadFunc finds a queued stop.                                    *)
AudioStop ==
    /\ pc.audio = "loop" /\ flags.active /\ flags.queuedStop
    /\ internalStopRecording
    /\ UNCHANGED <<user, recordDevice, callbacks, recordQueue, capacity, manager>>

StopCleanup_m ==
    /\ pc.audio = "stopped"
    /\ flags' = [flags EXCEPT !.raw = FALSE, !.passive = FALSE, !.passiveActive = FALSE]
    /\ recordQueue' = {}
    /\ pc' = [pc EXCEPT !.audio = "released"]
    /\ UNCHANGED <<user, recordDevice, fmod, callbacks, recordFrame, capacity, manager, sent>>

(* The cleanup in the middle of internalStopRecording.                     *)
StopCleanup ==
    /\ pc.audio = "stopped"
    /\ callbacks' = [encoded |-> "none", raw |-> "none"]
    /\ flags' = [flags EXCEPT !.raw = FALSE, !.passive = FALSE, !.passiveActive = FALSE]
    /\ recordQueue' = {}
    /\ pc' = [pc EXCEPT !.audio = "released"]
    /\ UNCHANGED <<user, recordDevice, fmod, recordFrame, capacity, manager, sent>>

StopDeactivate_m ==
    /\ pc.audio = "released"
    /\ pc' = [pc EXCEPT !.audio = "over"]
    /\ UNCHANGED <<user, recordDevice, fmod, flags, callbacks, buffers, manager, sent>>

(* `recordActive = false`, then `recordQueuedStop = false`.                *)
StopDeactivate ==
    /\ pc.audio = "released"
    /\ flags' = [flags EXCEPT !.active = FALSE]
    /\ pc' = [pc EXCEPT !.audio = "over"]
    /\ UNCHANGED <<user, recordDevice, fmod, callbacks, buffers, manager, sent>>
StopForget ==
    /\ pc.audio = "over"
    /\ flags' = [flags EXCEPT !.queuedStop = FALSE]
    /\ pc' = [pc EXCEPT !.audio = "loop"]
    /\ UNCHANGED <<user, recordDevice, fmod, callbacks, buffers, manager, sent>>

Working == pc.audio = "loop" /\ flags.active /\ ~flags.queuedStop

(* audioThreadWork fails when the device is gone, and the recording ends.  *)
AudioWorkFails ==
    /\ Working /\ ~plugged
    /\ internalStopRecording
    /\ UNCHANGED <<user, recordDevice, callbacks, recordQueue, capacity, manager>>

(* What the samples captured now are captured for.                         *)
Captured == IF place = "popup" THEN "test"
            ELSE IF flags.passive /\ flags.passiveActive THEN "key"
            ELSE "idle"

(* The samples that audioThreadWork moves from FMOD's ring buffer to the   *)
(* queue: none while recording passively without the key.                  *)
Written == IF ~flags.passive \/ flags.passiveActive THEN {Captured} ELSE {}

(* The raw half of audioThreadWork.                                        *)
AudioWorkRaw ==
    /\ Working /\ plugged /\ flags.raw
    /\ recordQueue' = {}
    /\ UNCHANGED <<user, recordDevice, fmod, flags, callbacks, recordFrame, capacity,
                   manager, pc, sent>>

Flushed(frame) ==
    \/ frame.size >= capacity
    \/ frame.size > 0 /\ flags.passive /\ ~flags.passiveActive

(* The encoding half of audioThreadWork: when the queue holds enough       *)
(* samples an opus frame is encoded and pushed, and a full frame - or, the *)
(* key released, any frame - goes to the callback.                         *)
AudioWork(enough) ==
    LET queue == recordQueue \cup Written
        frame == IF enough THEN [size |-> recordFrame.size + 1, of |-> recordFrame.of \cup queue]
                 ELSE recordFrame IN
    /\ Working /\ plugged /\ ~flags.raw
    /\ enough => queue # {} /\ recordFrame.size < capacity
    /\ recordQueue' = IF enough THEN {} ELSE queue
    /\ IF Flushed(frame)
       THEN recordFrame' = EmptyFrame /\ recordInvokeCallback(frame)
       ELSE recordFrame' = frame /\ UNCHANGED sent
    /\ UNCHANGED <<user, recordDevice, fmod, flags, callbacks, capacity, manager, pc>>

(* pushOpusFrame refuses an extra frame, and the recording ends.           *)
AudioWorkOverflow ==
    /\ Working /\ plugged /\ ~flags.raw
    /\ recordQueue \cup Written # {} /\ recordFrame.size >= capacity
    /\ internalStopRecording
    /\ UNCHANGED <<user, recordDevice, callbacks, recordQueue, capacity, manager>>

-----------------------------------------------------------------------------
(* The record thread, VoiceRecordingManager::threadFunc.                   *)

(* No request, and resetBools at the end.                                  *)
RecordLoop ==
    /\ pc.record = "loop"
    /\ pc' = [pc EXCEPT !.record = IF queuedStart /\ ~isRecording THEN "queued" ELSE "reset"]
    /\ recordDevice' = DeviceAfterQuery
    /\ UNCHANGED <<user, fmod, flags, callbacks, buffers, manager, sent>>

(* validateDevices, then startPassiveRecording or a warning and resetBools.*)
RecordRefused ==
    /\ pc.record = "queued"
    /\ ~getRecordingDevice \/ CannotStart
    /\ setActiveRecordingDevice(recordDevice /\ getRecordingDevice)
    /\ queuedStart' = FALSE /\ recording' = FALSE
    /\ pc' = [pc EXCEPT !.record = "loop"]
    /\ UNCHANGED <<user, fmod, flags, callbacks, buffers, sent>>
RecordStart ==
    /\ startRecordingInternal("record", {"queued"}, "passive")
    /\ UNCHANGED <<user, recordDevice, callbacks, buffers, manager, sent>>

(* resetBools forgets every request, also one made since the test.         *)
resetBools ==
    /\ pc.record = "reset"
    /\ queuedStart' = FALSE /\ recording' = isRecording
    /\ recordDevice' = DeviceAfterQuery
    /\ pc' = [pc EXCEPT !.record = "loop"]
    /\ UNCHANGED <<user, fmod, flags, callbacks, buffers, sent>>

-----------------------------------------------------------------------------
(* The main thread.                                                        *)

(* The user does the next thing; a patient one only once both threads have *)
(* dealt with the one before.                                              *)
UserActs ==
    /\ pc.main = "user"
    /\ Patient => /\ pc.record = "loop" /\ pc.audio = "loop" /\ ~queuedStart
                  /\ ~(flags.active /\ flags.queuedStop)

(* EncodedAudioFrame::setCapacity drops the frames that are too many.      *)
setCapacity(n) ==
    /\ capacity' = n
    /\ recordFrame' = IF recordFrame.size > n THEN [recordFrame EXCEPT !.size = n] ELSE recordFrame

(* setupAudio.                                                             *)
setupAudio ==
    /\ UserActs /\ place = "menu"
    /\ place' = "level" /\ deafened' = FALSE
    /\ setActiveRecordingDevice(getRecordingDevice)
    /\ setCapacity(LevelCapacity)
    /\ queuedStart' = TRUE
    /\ UNCHANGED <<plugged, fmod, flags, callbacks, recordQueue, recording, pc, sent>>

(* onQuitActions.                                                          *)
QuitLevel ==
    /\ UserActs /\ place = "level"
    /\ place' = "menu"
    /\ haltRecording
    /\ UNCHANGED <<deafened, plugged, recordDevice, fmod, callbacks, buffers, manager, sent>>

(* The voice-activate key and the voice-deafen key.                        *)
VoiceActivate(down) ==
    /\ pc.main = "user" /\ place = "level"
    /\ down => ~deafened
    /\ flags' = [flags EXCEPT !.passiveActive = down]
    /\ UNCHANGED <<user, recordDevice, fmod, callbacks, buffers, manager, pc, sent>>
VoiceDeafen ==
    /\ pc.main = "user" /\ place = "level"
    /\ deafened' = ~deafened
    /\ flags' = IF deafened' THEN [flags EXCEPT !.passiveActive = FALSE] ELSE flags
    /\ UNCHANGED <<place, plugged, recordDevice, fmod, callbacks, buffers, manager, pc, sent>>

OpenPopup ==
    /\ UserActs /\ place = "menu"
    /\ place' = "popup"
    /\ UNCHANGED <<deafened, plugged, recordDevice, fmod, flags, callbacks, buffers, manager, pc, sent>>

(* The record button of AudioSetupPopup.                                   *)
TestStart ==
    /\ UserActs /\ place = "popup"
    /\ setCapacity(1)
    /\ \/ /\ startRecordingInternal("main", {"user"}, "passive")
       \/ /\ CannotStart
          /\ UNCHANGED <<fmod, flags, pc>>
    /\ recordDevice' = DeviceAfterQuery
    /\ UNCHANGED <<user, callbacks, recordQueue, manager, sent>>

(* Its stop button, and onClose.                                           *)
TestStop(close) ==
    /\ UserActs /\ place = "popup"
    /\ haltRecording
    /\ place' = IF close THEN "menu" ELSE "popup"
    /\ UNCHANGED <<deafened, plugged, recordDevice, fmod, callbacks, buffers, manager, sent>>

(* applyAudioDevice, refused while recording.                              *)
applyAudioDevice ==
    /\ UserActs /\ place = "popup"
    /\ ~isRecording
    /\ setActiveRecordingDevice(getRecordingDevice)
    /\ UNCHANGED <<user, fmod, flags, callbacks, buffers, manager, pc, sent>>

(* The user plugs a microphone in or pulls it out.                         *)
Plug ==
    /\ UserActs
    /\ plugged' = ~plugged
    /\ fmod' = (fmod /\ plugged')
    /\ UNCHANGED <<place, deafened, recordDevice, flags, callbacks, buffers, manager, pc, sent>>

AudioNext ==
    \/ AudioStop \/ StopCleanup \/ StopDeactivate \/ StopForget
    \/ AudioWorkFails \/ AudioWorkRaw \/ AudioWorkOverflow
    \/ \E enough \in BOOLEAN : AudioWork(enough)
RecordNext == RecordLoop \/ RecordRefused \/ RecordStart \/ resetBools
StartNext == HaltRest \/ \E t \in {"main", "record"} : SetPassive(t) \/ SetCallback(t)
UserNext ==
    \/ setupAudio \/ QuitLevel \/ VoiceDeafen \/ OpenPopup \/ TestStart \/ applyAudioDevice
    \/ \E b \in BOOLEAN : VoiceActivate(b) \/ TestStop(b)

VoiceNext == AudioNext \/ RecordNext \/ StartNext \/ UserNext \/ Plug

-----------------------------------------------------------------------------
(* Audio of the microphone test is played back to the user and never sent  *)
(* to the server, although both share the queue, the frame and the flags.  *)
TestAudioNotSent == "test" \notin sent

(* After the user has left the level or closed the popup the microphone is *)
(* released: haltRecording reaches the audio thread whatever it was doing. *)
MicrophoneReleased ==
    <>[](place = "menu" /\ pc.main = "user") => <>[](~flags.active /\ ~fmod)
=============================================================================
