------------------------------ MODULE Uploads ------------------------------
(***************************************************************************)
(* The upload and signed-URL routes: Controller and Service of             *)
(* api/utility, the image helpers of internal/utils and the S3 service of  *)
(* services/aws_services.                                                  *)
(*                                                                         *)
(* An image is stored as two objects, in two calls, under one name taken   *)
(* from the clock; the answer carries a signed URL made with a key file.   *)
(* api/module.go leaves these routes out, and the Cloud Storage client is  *)
(* only an interface in this repository: the buckets are external.         *)
(*                                                                         *)
(* X_Y is a faulty form of the operator X that no specification uses: it   *)
(* serves to confirm that a property notices the fault.                    *)
(***************************************************************************)
EXTENDS Integers

CONSTANTS
  Upload,    \* requests, each served by a goroutine of its own
  None,      \* no object
  MaxTime,   \* bound of the clock
  MaxFaults  \* bound: failed calls

VARIABLES
  now,      \* UnixNano
  objects,  \* objects[<<folder, name>>]: the request whose data is stored there
  up,       \* up[u]: where the handler of u is, and what it has been given
  faults

Folder == {"original", "thumbnail", "files", "s3"}
Time == 0..MaxTime

\* What is sent: an image, a file declared as one that does not decode,
\* another file, a file for S3, a form without its fields, or an object whose
\* URL is asked for.
Kind == {"image", "broken", "plain", "s3", "empty", "url"}

Label == {"new", "original", "thumbnail", "small", "sign", "file", "s3", "done"}
Given == {"none", "ok", "unsigned", "bad", "failed", "panic", "lost"}

UploadTypeOK ==
  /\ now \in Time
  /\ objects \in [Folder \X Time -> Upload \cup {None}]
  /\ up \in [Upload -> [label : Label, kind : Kind \cup {"none"}, at : Time,
                        answer : Given]]
  /\ faults \in 0..MaxFaults

UploadInit ==
  /\ now = 0
  /\ objects = [o \in Folder \X Time |-> None]
  /\ up = [u \in Upload |-> [label |-> "new", kind |-> "none", at |-> 0, answer |-> "none"]]

-----------------------------------------------------------------------------
At(u, label) == up[u].label = label
Goto(u, label) == up' = [up EXCEPT ![u].label = label]
Give(u, answer) == up' = [up EXCEPT ![u].label = "done", ![u].answer = answer]

Fault == faults < MaxFaults /\ faults' = faults + 1
Ok == UNCHANGED faults

Same == UNCHANGED <<now, objects>>

Image == {"image", "broken"}

\* GenerateRandomFileName, taken when the request arrives.
Name_Coarse(u) == up[u].at \div 2
Name(u) == up[u].at

\* A bucket takes an object over what has its name.  A call that fails may
\* still have stored it.
Stored(u, folder) == [objects EXCEPT ![<<folder, Name(u)>>] = u]

AfterFailure_Ignored(u) == "thumbnail"
AfterFailure(u) == "done"

\* FormFile, the binding of path, and the switch of UploadImage.
ReadForm(u) ==
  /\ At(u, "new")
  /\ \E kind \in Kind \ {"url"} :
       up' = [up EXCEPT ![u] =
         [label |-> CASE kind \in Image   -> "original"
                      [] kind = "plain"   -> "file"
                      [] kind = "s3"      -> "s3"
                      [] kind = "empty"   -> "done",
          kind |-> kind, at |-> now,
          answer |-> IF kind = "empty" THEN "bad" ELSE "none"]]
  /\ Ok /\ Same

\* The third handler: image_url may be missing, and no object need have it.
GetSignedUrl(u) ==
  /\ At(u, "new")
  /\ \E label \in {"sign", "done"} :
       up' = [up EXCEPT ![u] =
         [label |-> label, kind |-> "url", at |-> now,
          answer |-> IF label = "done" THEN "bad" ELSE "none"]]
  /\ Ok /\ Same

PutOriginal(u) ==
  /\ At(u, "original")
  /\ \/ objects' = Stored(u, "original") /\ Goto(u, "thumbnail") /\ Ok
     \/ /\ Fault /\ objects' \in {objects, Stored(u, "original")}
        /\ up' = [up EXCEPT ![u].label = AfterFailure(u),
                            ![u].answer = IF AfterFailure(u) = "done" THEN "failed" ELSE "none"]
  /\ UNCHANGED now

\* DecodeImage drops the decoder's error: the image is missing.
Decodes(u) == up[u].kind # "broken"

\* Resize panics on a missing image; a failed Seek is the only error that
\* CreateThumbnail returns.
CreateThumbnail(u) ==
  /\ At(u, "thumbnail")
  /\ \/ Decodes(u) /\ Goto(u, "small") /\ Ok
     \/ ~Decodes(u) /\ Give(u, "panic") /\ Ok
     \/ Give(u, "failed") /\ Fault
  /\ Same

\* EncodeImage drops the encoder's error: what is uploaded may be empty.
PutThumbnail(u) ==
  /\ At(u, "small")
  /\ \/ objects' = Stored(u, "thumbnail") /\ Goto(u, "sign") /\ Ok
     \/ objects' \in {objects, Stored(u, "thumbnail")} /\ Give(u, "failed") /\ Fault
  /\ UNCHANGED now

\* GetObjectSignedURL reads the key file every time: one that does not parse
\* is an error, and one that is missing is none and gives no URL.
Sign(u) ==
  /\ At(u, "sign")
  /\ Give(u, "ok") \/ Give(u, "unsigned") \/ Give(u, "failed")
  /\ Ok /\ Same

PutFile(u) ==
  /\ At(u, "file")
  /\ \/ objects' = Stored(u, "files") /\ Give(u, "ok") /\ Ok
     \/ objects' \in {objects, Stored(u, "files")} /\ Give(u, "failed") /\ Fault
  /\ UNCHANGED now

UploadToS3(u) ==
  /\ At(u, "s3")
  /\ objects' = Stored(u, "s3") /\ Give(u, "ok") /\ Ok
  /\ UNCHANGED now

UploadStep(u) ==
  \/ PutOriginal(u) \/ CreateThumbnail(u) \/ PutThumbnail(u)
  \/ Sign(u) \/ PutFile(u) \/ UploadToS3(u)

\* Every handler is gone with the process.
UploadsLost ==
  up' = [u \in Upload |-> IF up[u].label \in {"new", "done"} THEN up[u]
                          ELSE [up[u] EXCEPT !.label = "done", !.answer = "lost"]]

\* A failed upload to S3 is logged with Fatalf, which ends the process.
S3Fails ==
  /\ \E u \in Upload : At(u, "s3") /\ objects' \in {objects, Stored(u, "s3")}
  /\ Fault /\ UploadsLost
  /\ UNCHANGED now

Tick == now < MaxTime /\ now' = now + 1 /\ UNCHANGED <<objects, up, faults>>

-----------------------------------------------------------------------------
(* Properties *)

Answered(u) == up[u].answer \in {"ok", "unsigned"}

FoldersOf(kind) ==
  CASE kind \in Image -> {"original", "thumbnail"}
    [] kind = "plain" -> {"files"}
    [] kind = "s3"    -> {"s3"}
    [] OTHER          -> {}

Tied(u) == \E v \in Upload \ {u} : up[v].kind # "none" /\ up[v].at = up[u].at

\* What a client was told is stored stays stored under the path it was given,
\* both objects of an image, whatever other requests upload, unless another
\* request took its name in the same nanosecond.  After any failure, and even
\* when names collide, no thumbnail is stored without an original.
ObjectsHold ==
  /\ \A u \in Upload :
       Answered(u) /\ ~Tied(u) =>
         \A folder \in FoldersOf(up[u].kind) : objects[<<folder, Name(u)>>] = u
  /\ \A name \in Time :
       objects[<<"thumbnail", name>>] # None => objects[<<"original", name>>] # None

=============================================================================
