--------------------------- MODULE IncidentImages ----------------------------
(***************************************************************************)
(* The pictures of an incident, in the version of getsetconfig_4.cpp and   *)
(* ipcamanage_3.cpp: rk_get_incident_images reads the IDs that             *)
(* rk_create_incident saved, SnapshotJpegMulti writes one JPEG per camera  *)
(* to /tmp, and the handler reads the files back and answers with them.    *)
(*                                                                         *)
(* One rec_thread asks.  Cameras come and go, and each step on the         *)
(* hardware, on a file or for memory may fail.  Every exit of snap_once    *)
(* has a list of its own of what it gives back, in its order.              *)
(***************************************************************************)
EXTENDS Naturals, SequencesExt

CONSTANTS
  IPCCHANNELBEGIN, MAXIPCNUM,    \* 9 and 8
  IdLists,                       \* what incidentImageIds may hold
  MaxAsked,                      \* bound on the calls
  ImageFaults                    \* "hardware", "timeout", "file", "short", "memory", "save"

ASSUME ImageAssumption ==
  /\ IPCCHANNELBEGIN \in Nat \ {0} /\ MAXIPCNUM \in Nat \ {0} /\ MaxAsked \in Nat
  /\ \A l \in IdLists : l \in Seq(Nat)
  /\ ImageFaults \subseteq {"hardware", "timeout", "file", "short", "memory", "save"}

VARIABLES
  incidentImageIds,  \* in the configuration: the numbers of the list
  online,            \* the cameras with a valid main stream
  m_mapIpcVdec,      \* the camera that the decoder is bound to, or NoCamera
  held,              \* what snap_once has created, bound or got and not given back
  jpg,               \* [camera -> /tmp/ipc<camera>_main.jpg]
  ask,               \* the call under way
  response,          \* the last answer
  asked              \* how many calls there were
hardwareVars == <<online, m_mapIpcVdec, held>>
imageVars == <<incidentImageIds, hardwareVars, jpg, ask, response, asked>>

Camera == IPCCHANNELBEGIN .. IPCCHANNELBEGIN + MAXIPCNUM - 1
NoCamera == 0
\* A file: its camera, the call that wrote it, and how much of it was written.
NoJpg == [of |-> NoCamera, call |-> 0, size |-> "none"]
\* undo is what snap_once still gives back before it returns whether it got a picture.
NoAsk == [at |-> "off", absChs |-> <<>>, i |-> 1, use_rga |-> FALSE, undo |-> <<>>,
          got |-> FALSE, ok |-> 0, success_idx |-> <<>>]

ImageInit ==
  /\ incidentImageIds \in IdLists /\ online \in SUBSET Camera
  /\ m_mapIpcVdec = NoCamera /\ held = {}
  /\ jpg = [c \in Camera |-> NoJpg] /\ ask = NoAsk
  /\ response = [isValid |-> FALSE, images |-> <<>>] /\ asked = 0

(***************************************************************************)
(* Helpers                                                                 *)
(***************************************************************************)
\* The numbers 1 .. MAXIPCNUM of the list as cameras, each at its first place in it.
FirstPlaces(ids) ==
  {i \in DOMAIN ids : ids[i] \in 1 .. MAXIPCNUM /\ \A j \in 1 .. i - 1 : ids[j] # ids[i]}
Rank(places, i) == Cardinality({j \in places : j <= i})
absChsOf(ids) ==
  LET places == FirstPlaces(ids) IN
  [k \in 1 .. Cardinality(places) |->
     IPCCHANNELBEGIN + ids[CHOOSE i \in places : Rank(places, i) = k] - 1]
userId(camera) == camera - IPCCHANNELBEGIN + 1

absCh == ask.absChs[ask.i]
AskAt(step) == ask.at = step
AskTo(step) == ask' = [ask EXCEPT !.at = step]
NextCamera(ok) ==
  ask' = [ask EXCEPT !.at = "camera", !.i = @ + 1, !.ok = @ + ok, !.use_rga = FALSE]
\* snap_once takes an exit: what it gives back there, and what it returns.
Exit(undo, got) == ask' = [ask EXCEPT !.at = "undo", !.undo = undo, !.got = got]
Respond(valid, images) ==
  /\ response' = [isValid |-> valid, images |-> images] /\ ask' = NoAsk

(***************************************************************************)
(* Incidents, cameras and calls                                            *)
(***************************************************************************)
\* The IDs are those of the request.
rk_create_incident ==
  /\ AskAt("off") /\ asked < MaxAsked
  /\ incidentImageIds' \in IdLists
  /\ UNCHANGED <<hardwareVars, jpg, ask, response, asked>>

CameraComesOrGoes ==
  /\ ~AskAt("off")
  /\ \E c \in Camera : online' = SymDiff(online, {c})
  /\ UNCHANGED <<incidentImageIds, m_mapIpcVdec, held, jpg, ask, response, asked>>

\* The answer is cleared.  The IDs must name a camera, and the request the kit and an
\* event; the answer to another one is not valid.
rk_get_incident_images ==
  /\ AskAt("off") /\ asked < MaxAsked
  /\ asked' = asked + 1
  /\ LET cameras == absChsOf(incidentImageIds) IN
     \/ Respond(FALSE, <<>>)
     \/ /\ cameras # <<>> /\ ask' = [NoAsk EXCEPT !.at = "camera", !.absChs = cameras]
        /\ response' = [isValid |-> TRUE, images |-> <<>>]
  /\ UNCHANGED <<incidentImageIds, hardwareVars, jpg>>

(***************************************************************************)
(* SnapshotJpegMulti                                                       *)
(***************************************************************************)
Unasked == UNCHANGED <<incidentImageIds, response, asked>>

\* After the last camera: one picture is enough to go on.
SnapshotDone ==
  /\ AskAt("camera") /\ ask.i > Len(ask.absChs)
  /\ IF ask.ok = 0 THEN Respond(FALSE, <<>>)
     ELSE ask' = [ask EXCEPT !.at = "read", !.i = 1] /\ UNCHANGED response
  /\ UNCHANGED <<incidentImageIds, hardwareVars, jpg, asked>>

\* A camera without main stream is skipped.
CameraValid ==
  /\ AskAt("camera") /\ ask.i <= Len(ask.absChs)
  /\ IF absCh \in online THEN AskTo("bind") ELSE NextCamera(0)
  /\ UNCHANGED <<hardwareVars, jpg>> /\ Unasked

\* Without decoder it is bound alone, which takes the decoder from the others, even
\* when it has gone meanwhile.
EnsureDecoder ==
  /\ AskAt("bind")
  /\ \/ m_mapIpcVdec = absCh /\ AskTo("ready") /\ UNCHANGED m_mapIpcVdec
     \/ /\ m_mapIpcVdec # absCh /\ absCh \in online
        /\ AskTo("ready") /\ m_mapIpcVdec' = absCh
     \/ /\ m_mapIpcVdec # absCh /\ absCh \notin online
        /\ NextCamera(0) /\ m_mapIpcVdec' = NoCamera
  /\ UNCHANGED <<online, held, jpg>> /\ Unasked

\* Two seconds for a new frame of this camera, then its size.
WaitForFrame ==
  /\ AskAt("ready")
  /\ \/ absCh \in online /\ AskTo("venc")
     \/ (absCh \notin online \/ "timeout" \in ImageFaults) /\ NextCamera(0)
  /\ UNCHANGED <<hardwareVars, jpg>> /\ Unasked

\* The encoder, then the way from the decoder to it, direct or through RGA.  Each step
\* has its exit.
Make(what, begin, next, undo) ==
  /\ AskAt(begin)
  /\ \/ held' = held \cup {what} /\ AskTo(next)
     \/ "hardware" \in ImageFaults /\ Exit(undo, FALSE) /\ UNCHANGED held
  /\ UNCHANGED <<online, m_mapIpcVdec, jpg>> /\ Unasked
CreateVenc == Make("venc", "venc", IF ask.use_rga THEN "rga" ELSE "direct", <<>>)
BindDirect == Make("VDEC-VENC", "direct", "frame", <<"venc">>)
CreateRga == Make("rga", "rga", "in", <<"venc">>)
BindRga ==
  \/ Make("VDEC-RGA", "in", "out", <<"rga", "venc">>)
  \/ Make("RGA-VENC", "out", "frame", <<"VDEC-RGA", "rga", "venc">>)

\* What the later exits give back: the buffers are stopped, the way is unbound from its
\* end, its channels are destroyed.
StopAnd(unbound) == <<"getting">> \o unbound
Unbound ==
  IF ask.use_rga THEN <<"RGA-VENC", "VDEC-RGA", "rga", "venc">> ELSE <<"VDEC-VENC", "venc">>

\* The buffers of the encoder are asked for, and one comes within the time given.
GetJpeg ==
  /\ AskAt("frame")
  /\ \/ held' = held \cup {"getting", "buffer"} /\ AskTo("open")
     \/ /\ "timeout" \in ImageFaults /\ held' = held \cup {"getting"}
        /\ Exit(StopAnd(Unbound), FALSE)
  /\ UNCHANGED <<online, m_mapIpcVdec, jpg>> /\ Unasked

\* O_TRUNC: from here on the picture of an earlier call is gone.
OpenWith(undo) ==
  /\ AskAt("open")
  /\ \/ /\ jpg' = [jpg EXCEPT ![absCh] = [of |-> m_mapIpcVdec, call |-> asked,
                                          size |-> "empty"]]
        /\ AskTo("write")
     \/ "file" \in ImageFaults /\ Exit(undo, FALSE) /\ UNCHANGED jpg
  /\ UNCHANGED hardwareVars /\ Unasked
\* Mutated form: the buffer is not released when the file cannot be opened.
OpenJpg_Keep == OpenWith(StopAnd(Unbound))
OpenJpg == OpenWith(<<"buffer">> \o StopAnd(Unbound))

WriteJpg ==
  /\ AskAt("write")
  /\ \/ /\ jpg' = [jpg EXCEPT ![absCh].size = "whole"]
        /\ Exit(<<"buffer">> \o StopAnd(Unbound), TRUE)
     \/ /\ "file" \in ImageFaults
        /\ \E size \in {"empty", "part"} : jpg' = [jpg EXCEPT ![absCh].size = size]
        /\ Exit(<<"buffer">> \o StopAnd(Unbound), FALSE)
  /\ UNCHANGED hardwareVars /\ Unasked

GiveBack ==
  /\ AskAt("undo") /\ ask.undo # <<>>
  /\ held' = held \ {Head(ask.undo)}
  /\ ask' = [ask EXCEPT !.undo = Tail(@)]
  /\ UNCHANGED <<online, m_mapIpcVdec, jpg>> /\ Unasked

\* Without a picture there is a second attempt, with RGA.
SnapReturns ==
  /\ AskAt("undo") /\ ask.undo = <<>>
  /\ \/ ask.got /\ NextCamera(1)
     \/ ~ask.got /\ ask.use_rga /\ NextCamera(0)
     \/ ~ask.got /\ ~ask.use_rga /\ ask' = [ask EXCEPT !.at = "venc", !.use_rga = TRUE]
  /\ UNCHANGED <<hardwareVars, jpg>> /\ Unasked

(***************************************************************************)
(* The rest of rk_get_incident_images                                      *)
(***************************************************************************)
\* The file of each camera that was asked for, whether it was written now or not; a
\* missing, empty or short one is left out.
ReadJpg ==
  /\ AskAt("read") /\ ask.i <= Len(ask.absChs)
  /\ LET size == jpg[absCh].size IN
     \/ /\ size \in {"part", "whole"}
        /\ ask' = [ask EXCEPT !.i = @ + 1, !.success_idx = Append(@, ask.i)]
     \/ /\ size \in {"none", "empty", "part"} \/ "short" \in ImageFaults
        /\ ask' = [ask EXCEPT !.i = @ + 1]
  /\ UNCHANGED <<hardwareVars, jpg>> /\ Unasked

\* Mutated form: the k-th picture gets the k-th ID.
ImageOf_Position(k) ==
  [id |-> userId(ask.absChs[k]), jpg |-> jpg[ask.absChs[ask.success_idx[k]]]]
ImageOf(k) ==
  LET camera == ask.absChs[ask.success_idx[k]] IN
  [id |-> userId(camera), jpg |-> jpg[camera]]

\* No picture, or no memory for the list: not valid.  A picture that cannot be saved
\* for inspection makes the answer not valid, and it goes out all the same.
FillImages ==
  /\ AskAt("read") /\ ask.i > Len(ask.absChs)
  /\ LET images == [k \in DOMAIN ask.success_idx |-> ImageOf(k)] IN
     \/ images # <<>> /\ Respond(TRUE, images)
     \/ images # <<>> /\ "save" \in ImageFaults /\ Respond(FALSE, images)
     \/ (images = <<>> \/ "memory" \in ImageFaults) /\ Respond(FALSE, <<>>)
  /\ UNCHANGED <<incidentImageIds, hardwareVars, jpg, asked>>

SnapshotJpegMulti ==
  \/ SnapshotDone \/ CameraValid \/ EnsureDecoder \/ WaitForFrame \/ CreateVenc \/ BindDirect
  \/ CreateRga \/ BindRga \/ GetJpeg \/ OpenJpg \/ WriteJpg \/ GiveBack \/ SnapReturns
ImageNext ==
  \/ rk_create_incident \/ CameraComesOrGoes
  \/ rk_get_incident_images \/ SnapshotJpegMulti \/ ReadJpg \/ FillImages
ImageSpec == ImageInit /\ [][ImageNext]_imageVars

(***************************************************************************)
(* Properties                                                              *)
(***************************************************************************)
\* Every picture of an answer is of the camera that its ID stands for, and the IDs are
\* of the incident and come once, whichever cameras were left out on the way.
ImagesMatchIds ==
  LET images == response.images IN
  /\ \A k \in DOMAIN images :
       images[k].jpg.of = IPCCHANNELBEGIN + images[k].id - 1
  /\ Cardinality({images[k].id : k \in DOMAIN images}) = Len(images)

\* Between two attempts, two cameras and two calls nothing of the hardware is kept, on
\* whichever step an attempt failed.  What an exit gives back is there, once, and no
\* channel is destroyed while the way to it or from it is still bound.
HardwareReturned ==
  /\ ask.at \in {"off", "camera", "bind", "ready", "venc", "read"} => held = {}
  /\ ToSet(ask.undo) \subseteq held
  /\ {"VDEC-VENC", "RGA-VENC"} \cap held # {} => "venc" \in held
  /\ {"VDEC-RGA", "RGA-VENC"} \cap held # {} => "rga" \in held

\* "absCh=%d stream not ready (no new frame), skip" (doordvr_ipcamanage_3.cpp:1101): a
\* camera that gives no new frame is left out of the answer and reported as abnormal,
\* "%d路摄像头异常" (doordvr_getsetconfig_4.cpp:108).  So no picture of an answer was
\* taken for an earlier call.
ImagesAreNew ==
  \A k \in DOMAIN response.images : response.images[k].jpg.call = asked
==============================================================================
