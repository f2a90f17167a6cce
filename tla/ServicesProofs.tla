--------------------------- MODULE ServicesProofs ---------------------------
(***************************************************************************)
(* Theorems about Services, and with it about Uploads and Outbound, for    *)
(* any number of uploads, calls, instants and failures.                    *)
(***************************************************************************)
EXTENDS Services, TLAPS

\* The handlers between storing the original and the thumbnail.
Between == {"thumbnail", "small"}

\* Where a handler is says what it was sent, and it answers at its end.
KindOK(u) ==
  /\ up[u].label = "new" <=> up[u].kind = "none"
  /\ up[u].label \in {"original"} \cup Between => up[u].kind \in U!Image
  /\ up[u].label = "sign" => up[u].kind \in U!Image \cup {"url"}
  /\ up[u].label = "file" => up[u].kind = "plain"
  /\ up[u].label = "s3" => up[u].kind = "s3"
  /\ up[u].answer # "none" => up[u].label = "done"

At(u, folder) == objects[<<folder, up[u].at>>]

\* A handler that has stored an object finds it there, unless another request
\* has taken its name; the name never is without an original again.
StoredOK(u) ==
  /\ up[u].label \in Between => At(u, "original") # None
  /\ ~U!Tied(u) =>
       /\ up[u].label \in Between => At(u, "original") = u
       /\ up[u].label = "sign" \/ U!Answered(u) =>
            \A folder \in U!FoldersOf(up[u].kind) : At(u, folder) = u

ThumbnailsOK ==
  \A name \in U!Time :
    objects[<<"thumbnail", name>>] # None => objects[<<"original", name>>] # None

UploadInv ==
  /\ U!UploadTypeOK
  /\ \A u \in Upload : KindOK(u) /\ StoredOK(u)
  /\ ThumbnailsOK

CallInv == O!OutboundTypeOK /\ O!SuccessHappened

IInv == UploadInv /\ CallInv

-----------------------------------------------------------------------------
(* Objects and names *)

LEMMA Bounds == MaxTime \in Nat /\ MaxFaults \in Nat
BY BoundsAssumption

\* What a handler stores under its name, and nothing else, changes.
LEMMA Put ==
  ASSUME U!UploadTypeOK, NEW u \in Upload, NEW folder \in U!Folder
  PROVE  /\ U!Stored(u, folder) \in [U!Folder \X U!Time -> Upload \cup {None}]
         /\ U!Stored(u, folder)[<<folder, up[u].at>>] = u
         /\ \A g \in U!Folder, t \in U!Time :
              g # folder \/ t # up[u].at =>
                U!Stored(u, folder)[<<g, t>>] = objects[<<g, t>>]
<1>1. up[u].at \in U!Time /\ objects \in [U!Folder \X U!Time -> Upload \cup {None}]
  BY DEF U!UploadTypeOK
<1> QED BY <1>1 DEF U!Stored, U!Name

LEMMA FolderOfKind ==
  ASSUME NEW kind \in U!Kind \cup {"none"}
  PROVE  /\ U!FoldersOf(kind) \subseteq U!Folder
         /\ kind = "plain" => U!FoldersOf(kind) = {"files"}
         /\ kind = "s3" => U!FoldersOf(kind) = {"s3"}
         /\ kind \in U!Image => U!FoldersOf(kind) = {"original", "thumbnail"}
         /\ kind = "url" => U!FoldersOf(kind) = {}
BY DEF U!FoldersOf, U!Folder, U!Kind, U!Image

\* A step of the handler of u: it keeps its kind and its name, the other
\* handlers stay where they are, and one object is stored at most.
HandlerMoves(u, folder) ==
  /\ up[u].label # "new" /\ up'[u].label # "new"
  /\ up'[u].kind = up[u].kind /\ up'[u].at = up[u].at
  /\ \A v \in Upload \ {u} : up'[v] = up[v]
  /\ up' \in [Upload -> [label : U!Label, kind : U!Kind \cup {"none"}, at : U!Time,
                         answer : U!Given]]
  /\ objects' \in {objects, U!Stored(u, folder)}
  /\ now' = now
  /\ faults' \in 0..MaxFaults

\* It disturbs nobody: who shares its name is tied, and an original that is
\* overwritten is still an original.
LEMMA HandlerStep ==
  ASSUME UploadInv, NEW u \in Upload, NEW folder \in U!Folder, HandlerMoves(u, folder),
         folder = "thumbnail" => At(u, "original") # None,
         KindOK(u)', StoredOK(u)'
  PROVE  UploadInv'
<1>0. U!UploadTypeOK
  BY DEF UploadInv
<1>1. U!UploadTypeOK'
  <2>1. U!Stored(u, folder) \in [U!Folder \X U!Time -> Upload \cup {None}]
    BY <1>0, Put
  <2>2. objects \in [U!Folder \X U!Time -> Upload \cup {None}]
    BY <1>0 DEF U!UploadTypeOK
  <2>3. objects' \in [U!Folder \X U!Time -> Upload \cup {None}]
    BY <2>1, <2>2 DEF HandlerMoves
  <2> QED BY <1>0, <2>3 DEF HandlerMoves, U!UploadTypeOK
<1>2. \A v \in Upload : up'[v].kind = up[v].kind /\ up'[v].at = up[v].at /\ up[v].at \in U!Time
  BY DEF HandlerMoves, UploadInv, U!UploadTypeOK
<1>3. \A v \in Upload : U!Tied(v)' <=> U!Tied(v)
  BY <1>2 DEF U!Tied
<1>4. \A g \in U!Folder, t \in U!Time :
        /\ objects[<<g, t>>] # None => objects'[<<g, t>>] # None
        /\ t # up[u].at \/ g # folder => objects'[<<g, t>>] = objects[<<g, t>>]
  <2>1. CASE objects' = objects
    BY <2>1
  <2>2. CASE objects' = U!Stored(u, folder)
    <3> TAKE g \in U!Folder, t \in U!Time
    <3>1. u # None
      BY NoneAssumption
    <3>2. CASE g = folder /\ t = up[u].at
      <4>1. objects'[<<folder, up[u].at>>] = u
        BY <1>0, <2>2, Put
      <4> QED BY <3>1, <3>2, <4>1
    <3>3. CASE g # folder \/ t # up[u].at
      <4>1. \A h \in U!Folder, s \in U!Time :
              h # folder \/ s # up[u].at =>
                U!Stored(u, folder)[<<h, s>>] = objects[<<h, s>>]
        BY <1>0, Put
      <4>2. U!Stored(u, folder)[<<g, t>>] = objects[<<g, t>>]
        BY <3>3, <4>1
      <4> QED BY <2>2, <4>2
    <3> QED BY <3>2, <3>3
  <2> QED BY <2>1, <2>2 DEF HandlerMoves
<1>5. ASSUME NEW v \in Upload PROVE KindOK(v)' /\ StoredOK(v)'
  <2>1. CASE v = u
    BY <2>1
  <2>2. CASE v # u
    <3>1. up'[v] = up[v] /\ KindOK(v) /\ StoredOK(v)
      BY <2>2 DEF HandlerMoves, UploadInv
    <3>2. KindOK(v)'
      BY <3>1 DEF KindOK
    <3>3. up[u].kind # "none"
      BY DEF UploadInv, KindOK, HandlerMoves
    <3>4. ~U!Tied(v) => up[v].at # up[u].at
      BY <2>2, <3>3 DEF U!Tied
    <3>5. ~U!Tied(v) => \A g \in U!Folder : At(v, g)' = At(v, g)
      BY <1>2, <1>4, <3>1, <3>4 DEF At
    <3>6. \A g \in U!Folder : At(v, g) # None => At(v, g)' # None
      BY <1>2, <1>4, <3>1 DEF At
    <3>7. "original" \in U!Folder /\ U!FoldersOf(up[v].kind) \subseteq U!Folder
      BY FolderOfKind DEF UploadInv, U!UploadTypeOK, U!Folder
    <3>8. U!Answered(v)' <=> U!Answered(v)
      BY <3>1 DEF U!Answered
    <3>9. StoredOK(v)'
      BY <1>3, <3>1, <3>5, <3>6, <3>7, <3>8 DEF StoredOK
    <3> QED BY <3>2, <3>9
  <2> QED BY <2>1, <2>2
<1>6. ThumbnailsOK'
  <2> SUFFICES ASSUME NEW name \in U!Time, objects'[<<"thumbnail", name>>] # None
               PROVE  objects'[<<"original", name>>] # None
    BY DEF ThumbnailsOK, U!Time
  <2>1. "original" \in U!Folder /\ "thumbnail" \in U!Folder
    BY DEF U!Folder
  <2>2. CASE folder = "thumbnail" /\ name = up[u].at
    BY <1>4, <2>1, <2>2 DEF At
  <2>3. CASE ~(folder = "thumbnail" /\ name = up[u].at)
    BY <1>4, <2>1, <2>3 DEF UploadInv, ThumbnailsOK
  <2> QED BY <2>2, <2>3
<1> QED BY <1>1, <1>5, <1>6 DEF UploadInv

-----------------------------------------------------------------------------
(* The handlers *)

\* The two ways a handler goes on, as HandlerMoves sees them.
LEMMA GotoMoves ==
  ASSUME UploadInv, NEW u \in Upload, NEW folder \in U!Folder,
         NEW label \in U!Label \ {"new"}, NEW answer \in U!Given,
         up[u].label # "new", now' = now, faults' \in 0..MaxFaults,
         \/ U!Goto(u, label) /\ answer = up[u].answer
         \/ up' = [up EXCEPT ![u].label = label, ![u].answer = answer],
         objects' \in {objects, U!Stored(u, folder)}
  PROVE  /\ HandlerMoves(u, folder)
         /\ up'[u].label = label /\ up'[u].answer = answer
<1>1. up \in [Upload -> [label : U!Label, kind : U!Kind \cup {"none"}, at : U!Time,
                         answer : U!Given]]
  BY DEF UploadInv, U!UploadTypeOK
<1>2. /\ [up[u] EXCEPT !.label = label, !.answer = answer]
           \in [label : U!Label, kind : U!Kind \cup {"none"}, at : U!Time, answer : U!Given]
      /\ [up[u] EXCEPT !.label = label]
           \in [label : U!Label, kind : U!Kind \cup {"none"}, at : U!Time, answer : U!Given]
  BY <1>1
<1>3. /\ \A v \in Upload \ {u} : up'[v] = up[v]
      /\ up' \in [Upload -> [label : U!Label, kind : U!Kind \cup {"none"}, at : U!Time,
                             answer : U!Given]]
  BY <1>1, <1>2 DEF U!Goto
<1>4. /\ up'[u].kind = up[u].kind /\ up'[u].at = up[u].at
      /\ up'[u].label = label /\ up'[u].answer = answer
  BY <1>1 DEF U!Goto
<1> QED BY <1>3, <1>4 DEF HandlerMoves

LEMMA PutOriginalKeeps ==
  ASSUME UploadInv, NEW u \in Upload, U!PutOriginal(u)
  PROVE  UploadInv'
<1>0. /\ up[u].label = "original" /\ now' = now /\ faults' \in 0..MaxFaults
      /\ "original" \in U!Folder /\ {"thumbnail", "done"} \subseteq U!Label \ {"new"}
      /\ up[u].answer = "none" /\ {"none", "failed"} \subseteq U!Given
      /\ up[u].at \in U!Time /\ KindOK(u)
  BY Bounds DEF U!PutOriginal, U!At, U!Ok, U!Fault, UploadInv, U!UploadTypeOK, KindOK,
     U!Folder, U!Label, U!Given
<1>1. CASE objects' = U!Stored(u, "original") /\ U!Goto(u, "thumbnail")
  <2>1. /\ HandlerMoves(u, "original")
        /\ up'[u].label = "thumbnail" /\ up'[u].answer = "none"
    BY <1>0, <1>1, GotoMoves
  <2>2. At(u, "original")' = u /\ u # None
    BY <1>0, <1>1, <2>1, Put, NoneAssumption DEF At, HandlerMoves, UploadInv
  <2>3. KindOK(u)'
    BY <1>0, <2>1 DEF KindOK, Between, HandlerMoves
  <2>4. StoredOK(u)'
    BY <2>1, <2>2 DEF StoredOK, Between, U!Answered
  <2> QED BY <1>0, <2>1, <2>3, <2>4, HandlerStep
<1>2. CASE /\ objects' \in {objects, U!Stored(u, "original")}
           /\ up' = [up EXCEPT ![u].label = "done", ![u].answer = "failed"]
  <2>1. /\ HandlerMoves(u, "original")
        /\ up'[u].label = "done" /\ up'[u].answer = "failed"
    BY <1>0, <1>2, GotoMoves
  <2>2. KindOK(u)' /\ StoredOK(u)'
    BY <1>0, <2>1 DEF KindOK, StoredOK, Between, U!Answered, HandlerMoves
  <2> QED BY <1>0, <2>1, <2>2, HandlerStep
<1> QED BY <1>1, <1>2 DEF U!PutOriginal, U!AfterFailure

LEMMA CreateThumbnailKeeps ==
  ASSUME UploadInv, NEW u \in Upload, U!CreateThumbnail(u)
  PROVE  UploadInv'
<1>0. /\ up[u].label = "thumbnail" /\ now' = now /\ objects' = objects
      /\ faults' \in 0..MaxFaults
      /\ "original" \in U!Folder /\ {"small", "done"} \subseteq U!Label \ {"new"}
      /\ up[u].answer = "none" /\ {"none", "failed", "panic"} \subseteq U!Given
      /\ KindOK(u) /\ StoredOK(u)
  BY Bounds DEF U!CreateThumbnail, U!At, U!Ok, U!Fault, U!Same, UploadInv,
     U!UploadTypeOK, KindOK, U!Folder, U!Label, U!Given
<1>1. CASE U!Goto(u, "small")
  <2>1. /\ HandlerMoves(u, "original")
        /\ up'[u].label = "small" /\ up'[u].answer = "none"
    BY <1>0, <1>1, GotoMoves
  <2>2. U!Tied(u)' => U!Tied(u)
    BY <2>1 DEF U!Tied, HandlerMoves
  <2>3. U!Tied(u) => U!Tied(u)'
    BY <2>1 DEF U!Tied, HandlerMoves
  <2>4. At(u, "original")' = At(u, "original")
    BY <1>0, <2>1 DEF At, HandlerMoves
  <2>5. KindOK(u)'
    BY <1>0, <2>1 DEF KindOK, Between, HandlerMoves
  <2>6. StoredOK(u)'
    BY <1>0, <2>1, <2>3, <2>4 DEF StoredOK, Between, U!Answered
  <2> QED BY <1>0, <2>1, <2>5, <2>6, HandlerStep
<1>2. CASE U!Give(u, "panic") \/ U!Give(u, "failed")
  <2>1. /\ HandlerMoves(u, "original")
        /\ up'[u].label = "done" /\ up'[u].answer \in {"panic", "failed"}
    <3>1. CASE U!Give(u, "panic")
      BY <1>0, <3>1, GotoMoves DEF U!Give
    <3>2. CASE U!Give(u, "failed")
      BY <1>0, <3>2, GotoMoves DEF U!Give
    <3> QED BY <1>2, <3>1, <3>2
  <2>2. KindOK(u)' /\ StoredOK(u)'
    BY <1>0, <2>1 DEF KindOK, StoredOK, Between, U!Answered, HandlerMoves
  <2> QED BY <1>0, <2>1, <2>2, HandlerStep
<1> QED BY <1>1, <1>2 DEF U!CreateThumbnail

LEMMA PutThumbnailKeeps ==
  ASSUME UploadInv, NEW u \in Upload, U!PutThumbnail(u)
  PROVE  UploadInv'
<1>0. /\ up[u].label = "small" /\ now' = now /\ faults' \in 0..MaxFaults
      /\ {"original", "thumbnail"} \subseteq U!Folder
      /\ {"sign", "done"} \subseteq U!Label \ {"new"}
      /\ up[u].answer = "none" /\ {"none", "failed"} \subseteq U!Given
      /\ up[u].kind \in U!Image /\ up[u].kind \in U!Kind \cup {"none"}
      /\ up[u].at \in U!Time /\ KindOK(u) /\ StoredOK(u)
      /\ At(u, "original") # None
  BY Bounds DEF U!PutThumbnail, U!At, U!Ok, U!Fault, UploadInv, U!UploadTypeOK, KindOK,
     StoredOK, Between, U!Folder, U!Label, U!Given
<1>1. CASE objects' = U!Stored(u, "thumbnail") /\ U!Goto(u, "sign")
  <2>1. /\ HandlerMoves(u, "thumbnail")
        /\ up'[u].label = "sign" /\ up'[u].answer = "none"
    BY <1>0, <1>1, GotoMoves
  <2>2. /\ At(u, "thumbnail")' = u
        /\ At(u, "original")' = At(u, "original")
    <3>1. U!UploadTypeOK
      BY DEF UploadInv
    <3>2. /\ U!Stored(u, "thumbnail")[<<"thumbnail", up[u].at>>] = u
          /\ U!Stored(u, "thumbnail")[<<"original", up[u].at>>] = objects[<<"original", up[u].at>>]
      BY <1>0, <3>1, Put
    <3> QED BY <1>1, <2>1, <3>2 DEF At, HandlerMoves
  <2>3. U!Tied(u) => U!Tied(u)'
    BY <2>1 DEF U!Tied, HandlerMoves
  <2>4. U!FoldersOf(up[u].kind)' = {"original", "thumbnail"}
    BY <1>0, <2>1, FolderOfKind DEF HandlerMoves
  <2>5. KindOK(u)'
    BY <1>0, <2>1 DEF KindOK, Between, HandlerMoves
  <2>6. StoredOK(u)'
    BY <1>0, <2>1, <2>2, <2>3, <2>4 DEF StoredOK, Between
  <2> QED BY <1>0, <2>1, <2>5, <2>6, HandlerStep
<1>2. CASE objects' \in {objects, U!Stored(u, "thumbnail")} /\ U!Give(u, "failed")
  <2>1. /\ HandlerMoves(u, "thumbnail")
        /\ up'[u].label = "done" /\ up'[u].answer = "failed"
    BY <1>0, <1>2, GotoMoves DEF U!Give
  <2>2. KindOK(u)' /\ StoredOK(u)'
    BY <1>0, <2>1 DEF KindOK, StoredOK, Between, U!Answered, HandlerMoves
  <2> QED BY <1>0, <2>1, <2>2, HandlerStep
<1> QED BY <1>1, <1>2 DEF U!PutThumbnail

LEMMA SignKeeps ==
  ASSUME UploadInv, NEW u \in Upload, U!Sign(u)
  PROVE  UploadInv'
<1>0. /\ up[u].label = "sign" /\ now' = now /\ objects' = objects
      /\ faults' \in 0..MaxFaults
      /\ "original" \in U!Folder /\ "done" \in U!Label \ {"new"}
      /\ {"ok", "unsigned", "failed"} \subseteq U!Given
      /\ KindOK(u) /\ StoredOK(u)
  BY DEF U!Sign, U!At, U!Ok, U!Same, UploadInv, U!UploadTypeOK,
     U!Folder, U!Label, U!Given
<1>1. PICK answer \in {"ok", "unsigned", "failed"} :
        up' = [up EXCEPT ![u].label = "done", ![u].answer = answer]
  BY DEF U!Sign, U!Give
<1>2. /\ HandlerMoves(u, "original")
      /\ up'[u].label = "done" /\ up'[u].answer = answer
  BY <1>0, <1>1, GotoMoves
<1>3. U!Tied(u) => U!Tied(u)'
  BY <1>2 DEF U!Tied, HandlerMoves
<1>4. \A folder : At(u, folder)' = At(u, folder)
  BY <1>0, <1>2 DEF At, HandlerMoves
<1>5. KindOK(u)'
  BY <1>0, <1>2 DEF KindOK, Between, HandlerMoves
<1>6. StoredOK(u)'
  BY <1>0, <1>2, <1>3, <1>4 DEF StoredOK, Between, HandlerMoves
<1> QED BY <1>0, <1>2, <1>5, <1>6, HandlerStep

LEMMA PutFileKeeps ==
  ASSUME UploadInv, NEW u \in Upload, U!PutFile(u)
  PROVE  UploadInv'
<1>0. /\ up[u].label = "file" /\ now' = now /\ faults' \in 0..MaxFaults
      /\ "files" \in U!Folder /\ "done" \in U!Label \ {"new"}
      /\ {"ok", "failed"} \subseteq U!Given
      /\ up[u].kind = "plain" /\ up[u].kind \in U!Kind \cup {"none"}
      /\ up[u].at \in U!Time /\ KindOK(u) /\ U!UploadTypeOK
  BY Bounds DEF U!PutFile, U!At, U!Ok, U!Fault, UploadInv, U!UploadTypeOK, KindOK,
     U!Folder, U!Label, U!Given
<1>1. CASE objects' = U!Stored(u, "files") /\ U!Give(u, "ok")
  <2>1. /\ HandlerMoves(u, "files")
        /\ up'[u].label = "done" /\ up'[u].answer = "ok"
    BY <1>0, <1>1, GotoMoves DEF U!Give
  <2>2. U!Stored(u, "files")[<<"files", up[u].at>>] = u
    BY <1>0, Put
  <2>3. At(u, "files")' = u
    BY <1>1, <2>1, <2>2 DEF At, HandlerMoves
  <2>4. U!FoldersOf(up[u].kind)' = {"files"}
    BY <1>0, <2>1, FolderOfKind DEF HandlerMoves
  <2>5. KindOK(u)'
    BY <1>0, <2>1 DEF KindOK, Between, HandlerMoves
  <2>6. StoredOK(u)'
    BY <2>1, <2>3, <2>4 DEF StoredOK, Between
  <2> QED BY <1>0, <2>1, <2>5, <2>6, HandlerStep
<1>2. CASE objects' \in {objects, U!Stored(u, "files")} /\ U!Give(u, "failed")
  <2>1. /\ HandlerMoves(u, "files")
        /\ up'[u].label = "done" /\ up'[u].answer = "failed"
    BY <1>0, <1>2, GotoMoves DEF U!Give
  <2>2. KindOK(u)' /\ StoredOK(u)'
    BY <1>0, <2>1 DEF KindOK, StoredOK, Between, U!Answered, HandlerMoves
  <2> QED BY <1>0, <2>1, <2>2, HandlerStep
<1> QED BY <1>1, <1>2 DEF U!PutFile

LEMMA UploadToS3Keeps ==
  ASSUME UploadInv, NEW u \in Upload, U!UploadToS3(u)
  PROVE  UploadInv'
<1>0. /\ up[u].label = "s3" /\ now' = now /\ faults' \in 0..MaxFaults
      /\ "s3" \in U!Folder /\ "done" \in U!Label \ {"new"}
      /\ {"ok", "failed"} \subseteq U!Given
      /\ up[u].kind = "s3" /\ up[u].kind \in U!Kind \cup {"none"}
      /\ up[u].at \in U!Time /\ KindOK(u) /\ U!UploadTypeOK
  BY Bounds DEF U!UploadToS3, U!At, U!Ok, U!Fault, UploadInv, U!UploadTypeOK, KindOK,
     U!Folder, U!Label, U!Given
<1>1. CASE objects' = U!Stored(u, "s3") /\ U!Give(u, "ok")
  <2>1. /\ HandlerMoves(u, "s3")
        /\ up'[u].label = "done" /\ up'[u].answer = "ok"
    BY <1>0, <1>1, GotoMoves DEF U!Give
  <2>2. U!Stored(u, "s3")[<<"s3", up[u].at>>] = u
    BY <1>0, Put
  <2>3. At(u, "s3")' = u
    BY <1>1, <2>1, <2>2 DEF At, HandlerMoves
  <2>4. U!FoldersOf(up[u].kind)' = {"s3"}
    BY <1>0, <2>1, FolderOfKind DEF HandlerMoves
  <2>5. KindOK(u)'
    BY <1>0, <2>1 DEF KindOK, Between, HandlerMoves
  <2>6. StoredOK(u)'
    BY <2>1, <2>3, <2>4 DEF StoredOK, Between
  <2> QED BY <1>0, <2>1, <2>5, <2>6, HandlerStep
<1> QED BY <1>1 DEF U!UploadToS3

\* A request that arrives may tie another one to its name, never untie it.
LEMMA ReadFormKeeps ==
  ASSUME UploadInv, NEW u \in Upload, U!ReadForm(u) \/ U!GetSignedUrl(u)
  PROVE  UploadInv'
<1>0. /\ up[u].label = "new" /\ up[u].kind = "none" /\ now \in U!Time
      /\ now' = now /\ objects' = objects /\ faults' = faults
      /\ up \in [Upload -> [label : U!Label, kind : U!Kind \cup {"none"}, at : U!Time,
                            answer : U!Given]]
  BY DEF U!ReadForm, U!GetSignedUrl, U!At, U!Ok, U!Same, UploadInv, U!UploadTypeOK, KindOK
<1>1. PICK kind \in U!Kind, label \in {"original", "file", "s3", "sign", "done"},
           answer \in {"none", "bad"} :
        /\ up' = [up EXCEPT ![u] = [label |-> label, kind |-> kind, at |-> now,
                                    answer |-> answer]]
        /\ label = "original" => kind \in U!Image
        /\ label = "file" => kind = "plain"
        /\ label = "s3" => kind = "s3"
        /\ label = "sign" => kind = "url"
        /\ answer = "bad" => label = "done"
  <2>1. CASE U!GetSignedUrl(u)
    <3>1. PICK label \in {"sign", "done"} :
            up' = [up EXCEPT ![u] =
              [label |-> label, kind |-> "url", at |-> now,
               answer |-> IF label = "done" THEN "bad" ELSE "none"]]
      BY <2>1 DEF U!GetSignedUrl
    <3>2. CASE label = "sign"
      BY <3>1, <3>2 DEF U!Kind
    <3>3. CASE label = "done"
      BY <3>1, <3>3 DEF U!Kind
    <3> QED BY <3>1, <3>2, <3>3
  <2>2. CASE U!ReadForm(u)
    <3>1. PICK kind \in U!Kind \ {"url"} :
            up' = [up EXCEPT ![u] =
              [label |-> CASE kind \in U!Image -> "original"
                           [] kind = "plain"   -> "file"
                           [] kind = "s3"      -> "s3"
                           [] kind = "empty"   -> "done",
               kind |-> kind, at |-> now,
               answer |-> IF kind = "empty" THEN "bad" ELSE "none"]]
      BY <2>2 DEF U!ReadForm
    <3>2. CASE kind \in U!Image
      BY <3>1, <3>2 DEF U!Image
    <3>3. CASE kind = "plain"
      BY <3>1, <3>3 DEF U!Image
    <3>4. CASE kind = "s3"
      BY <3>1, <3>4 DEF U!Image
    <3>5. CASE kind = "empty"
      BY <3>1, <3>5 DEF U!Image
    <3> QED BY <3>2, <3>3, <3>4, <3>5 DEF U!Kind, U!Image
  <2> QED BY <2>1, <2>2
<1>2. /\ up'[u] = [label |-> label, kind |-> kind, at |-> now, answer |-> answer]
      /\ \A v \in Upload \ {u} : up'[v] = up[v]
  BY <1>0, <1>1
<1>3. U!UploadTypeOK'
  <2>1. [label |-> label, kind |-> kind, at |-> now, answer |-> answer]
          \in [label : U!Label, kind : U!Kind \cup {"none"}, at : U!Time, answer : U!Given]
    BY <1>0 DEF U!Label, U!Given
  <2> QED BY <1>0, <1>1, <2>1 DEF UploadInv, U!UploadTypeOK
<1>4. ASSUME NEW v \in Upload PROVE KindOK(v)' /\ StoredOK(v)'
  <2>1. CASE v = u
    <3>1. KindOK(v)'
      BY <1>1, <1>2, <2>1 DEF KindOK, Between, U!Kind
    <3>2. kind = "url" => U!FoldersOf(kind) = {}
      BY FolderOfKind
    <3>3. StoredOK(v)'
      BY <1>1, <1>2, <2>1, <3>2 DEF StoredOK, Between, U!Answered
    <3> QED BY <3>1, <3>3
  <2>2. CASE v # u
    <3>1. up'[v] = up[v] /\ KindOK(v) /\ StoredOK(v)
      BY <1>2, <2>2 DEF UploadInv
    <3>2. U!Tied(v) => U!Tied(v)'
      BY <1>0, <1>2, <3>1 DEF U!Tied
    <3>3. \A folder : At(v, folder)' = At(v, folder)
      BY <1>0, <3>1 DEF At
    <3> QED BY <3>1, <3>2, <3>3 DEF KindOK, StoredOK, U!Answered
  <2> QED BY <2>1, <2>2
<1>5. ThumbnailsOK'
  BY <1>0 DEF UploadInv, ThumbnailsOK
<1> QED BY <1>3, <1>4, <1>5 DEF UploadInv

LEMMA TickKeeps == UploadInv /\ U!Tick => UploadInv'
<1> SUFFICES ASSUME UploadInv, U!Tick PROVE UploadInv'
  OBVIOUS
<1>1. U!UploadTypeOK'
  BY Bounds DEF UploadInv, U!UploadTypeOK, U!Tick, U!Time
<1>2. \A u \in Upload : KindOK(u)' /\ StoredOK(u)'
  BY DEF UploadInv, KindOK, StoredOK, At, U!Tied, U!Answered, U!Tick
<1> QED BY <1>1, <1>2 DEF UploadInv, ThumbnailsOK, U!Tick

\* The exit takes every handler along; what is lost was not answered.
LEMMA S3FailsKeeps == UploadInv /\ U!S3Fails => UploadInv'
<1> SUFFICES ASSUME UploadInv, U!S3Fails PROVE UploadInv'
  OBVIOUS
<1>1. PICK u \in Upload : up[u].label = "s3" /\ objects' \in {objects, U!Stored(u, "s3")}
  BY DEF U!S3Fails, U!At
<1>2. /\ now' = now /\ faults' \in 0..MaxFaults /\ U!UploadTypeOK
      /\ up \in [Upload -> [label : U!Label, kind : U!Kind \cup {"none"}, at : U!Time,
                            answer : U!Given]]
      /\ up[u].at \in U!Time /\ {"s3", "original", "thumbnail"} \subseteq U!Folder
  BY Bounds DEF U!S3Fails, U!Fault, UploadInv, U!UploadTypeOK, U!Folder
<1>3. \A v \in Upload :
        up'[v] = IF up[v].label \in {"new", "done"} THEN up[v]
                 ELSE [up[v] EXCEPT !.label = "done", !.answer = "lost"]
  BY DEF U!S3Fails, U!UploadsLost
<1>4. \A v \in Upload :
        /\ up'[v].kind = up[v].kind /\ up'[v].at = up[v].at
        /\ \/ up'[v] = up[v]
           \/ up'[v].label = "done" /\ up'[v].answer = "lost"
        /\ up'[v].label \in {"new", "done"}
        /\ up'[v] \in [label : U!Label, kind : U!Kind \cup {"none"}, at : U!Time,
                       answer : U!Given]
  <2> TAKE v \in Upload
  <2>1. /\ up[v] \in [label : U!Label, kind : U!Kind \cup {"none"}, at : U!Time,
                     answer : U!Given]
        /\ "done" \in U!Label /\ "lost" \in U!Given
    BY <1>2 DEF U!Label, U!Given
  <2>2. CASE up[v].label \in {"new", "done"}
    <3>1. up'[v] = up[v]
      BY <1>3, <2>2
    <3> QED BY <2>1, <2>2, <3>1
  <2>3. CASE up[v].label \notin {"new", "done"}
    <3>1. up'[v] = [up[v] EXCEPT !.label = "done", !.answer = "lost"]
      BY <1>3, <2>3
    <3>2. up'[v] \in [label : U!Label, kind : U!Kind \cup {"none"}, at : U!Time,
                     answer : U!Given]
      BY <2>1, <3>1
    <3> QED BY <2>1, <3>1, <3>2
  <2> QED BY <2>2, <2>3
<1>5. \A g \in U!Folder, t \in U!Time :
        g # "s3" \/ t # up[u].at => objects'[<<g, t>>] = objects[<<g, t>>]
  <2>1. \A g \in U!Folder, t \in U!Time :
          g # "s3" \/ t # up[u].at =>
            U!Stored(u, "s3")[<<g, t>>] = objects[<<g, t>>]
    BY <1>2, Put
  <2> QED BY <1>1, <2>1
<1>6. U!UploadTypeOK'
  <2>1. U!Stored(u, "s3") \in [U!Folder \X U!Time -> Upload \cup {None}]
    BY <1>2, Put
  <2>2. objects' \in [U!Folder \X U!Time -> Upload \cup {None}]
    BY <1>1, <1>2, <2>1 DEF U!UploadTypeOK
  <2>3. up' \in [Upload -> [label : U!Label, kind : U!Kind \cup {"none"}, at : U!Time,
                            answer : U!Given]]
    BY <1>4 DEF U!S3Fails, U!UploadsLost
  <2> QED BY <1>2, <2>2, <2>3 DEF U!UploadTypeOK
<1>7. ASSUME NEW v \in Upload PROVE KindOK(v)' /\ StoredOK(v)'
  <2>1. KindOK(v) /\ StoredOK(v) /\ up[v].at \in U!Time
    BY <1>2 DEF UploadInv
  <2>2. KindOK(v)'
    BY <1>3, <1>4, <2>1 DEF KindOK, Between
  <2>3. ASSUME U!Answered(v)', ~U!Tied(v)', NEW folder \in U!FoldersOf(up[v].kind)
        PROVE  At(v, folder)' = v
    <3>1. up'[v] = up[v] /\ U!Answered(v) /\ up[v].label = "done"
      BY <1>4, <2>1, <2>3 DEF U!Answered, KindOK
    <3>2. ~U!Tied(v)
      BY <1>4, <2>3 DEF U!Tied
    <3>3. At(v, folder) = v /\ folder \in U!Folder
      BY <1>2, <2>1, <2>3, <3>1, <3>2, FolderOfKind DEF StoredOK
    <3>4. up[v].at # up[u].at
      BY <1>1, <3>1, <3>2 DEF UploadInv, KindOK, U!Tied
    <3> QED BY <1>4, <1>5, <2>1, <3>3, <3>4 DEF At
  <2>4. StoredOK(v)'
    BY <1>4, <2>3 DEF StoredOK, Between
  <2> QED BY <2>2, <2>4
<1>8. ThumbnailsOK'
  BY <1>2, <1>5 DEF UploadInv, ThumbnailsOK, U!Time
<1> QED BY <1>6, <1>7, <1>8 DEF UploadInv

LEMMA UploadInvKept ==
  ASSUME UploadInv,
         \/ \E u \in Upload : U!UploadStep(u) \/ U!ReadForm(u) \/ U!GetSignedUrl(u)
         \/ U!Tick \/ U!S3Fails
         \/ UNCHANGED <<uploadVars, faults>>
  PROVE  UploadInv'
<1>1. ASSUME NEW u \in Upload, U!UploadStep(u) PROVE UploadInv'
  BY <1>1, PutOriginalKeeps, CreateThumbnailKeeps, PutThumbnailKeeps, SignKeeps,
     PutFileKeeps, UploadToS3Keeps DEF U!UploadStep
<1>2. CASE UNCHANGED <<uploadVars, faults>>
  BY <1>2 DEF uploadVars, UploadInv, U!UploadTypeOK, KindOK, StoredOK, ThumbnailsOK, At,
     U!Tied, U!Answered
<1> QED BY <1>1, <1>2, ReadFormKeeps, TickKeeps, S3FailsKeeps

-----------------------------------------------------------------------------
(* The calls *)

\* What is reported for one call.
Honest(c) ==
  call[c].result = "ok" /\ call[c].op # "message" =>
    CASE call[c].op = "admin"    -> admin
      [] call[c].op = "mail cut" -> done[c] = "part"
      [] OTHER                   -> done[c] = "whole"

CallType == [at : {"new", "prepare", "provider", "done"},
             op : O!Operation \cup {"none"}, result : O!Result]

\* What the answer of a provider, or its absence, may be made into.
Told == {"ok", "refused", "error", "internal", "unauthorized"}

LEMMA CallInvParts ==
  CallInv <=>
    /\ call \in [Call -> CallType]
    /\ \A c \in Call : call[c].at = "done" <=> call[c].result # "none"
    /\ done \in [Call -> {"nothing", "part", "whole"}]
    /\ admin \in BOOLEAN
    /\ faults \in 0..MaxFaults
    /\ \A c \in Call : Honest(c)
BY DEF CallInv, O!OutboundTypeOK, O!SuccessHappened, O!Reached, CallType, Honest

\* A step of call c: what the provider did for others, and the account, stay.
LEMMA OneCall ==
  ASSUME CallInv, NEW c \in Call,
         \A d \in Call \ {c} : call'[d] = call[d] /\ done'[d] = done[d],
         call' \in [Call -> CallType], done' \in [Call -> {"nothing", "part", "whole"}],
         admin' \in BOOLEAN, admin => admin', faults' \in 0..MaxFaults,
         call'[c].at = "done" <=> call'[c].result # "none",
         Honest(c)'
  PROVE  CallInv'
<1>1. ASSUME NEW d \in Call
      PROVE  (call'[d].at = "done" <=> call'[d].result # "none") /\ Honest(d)'
  <2>1. CASE d = c
    BY <2>1
  <2>2. CASE d # c
    <3>1. call'[d] = call[d] /\ done'[d] = done[d]
      BY <2>2
    <3>2. (call[d].at = "done" <=> call[d].result # "none") /\ Honest(d) /\ admin \in BOOLEAN
      BY CallInvParts
    <3>3. Honest(d)'
      BY <3>1, <3>2 DEF Honest
    <3> QED BY <3>1, <3>2, <3>3
  <2> QED BY <2>1, <2>2
<1> QED BY <1>1 DEF CallInv, O!OutboundTypeOK, O!SuccessHappened, O!Reached, CallType, Honest

LEMMA ProceedCall ==
  ASSUME CallInv, NEW c \in Call, O!Proceed(c)
  PROVE  /\ call' \in [Call -> CallType]
         /\ \A d \in Call \ {c} : call'[d] = call[d]
         /\ call'[c].at = "provider" /\ call'[c].op = call[c].op
         /\ call'[c].result = call[c].result
<1>1. call \in [Call -> CallType]
  BY CallInvParts
<1>2. [call[c] EXCEPT !.at = "provider"] \in CallType
  BY <1>1 DEF CallType
<1> QED BY <1>1, <1>2 DEF O!Proceed, CallType

LEMMA ReportCall ==
  ASSUME CallInv, NEW c \in Call, NEW result \in O!Result, O!Report(c, result)
  PROVE  /\ call' \in [Call -> CallType]
         /\ \A d \in Call \ {c} : call'[d] = call[d]
         /\ call'[c].at = "done" /\ call'[c].op = call[c].op
         /\ call'[c].result = result
<1>1. call \in [Call -> CallType]
  BY CallInvParts
<1>2. [call[c] EXCEPT !.at = "done", !.result = result] \in CallType
  BY <1>1 DEF CallType
<1> QED BY <1>1, <1>2 DEF O!Report, CallType

LEMMA RequestKeeps ==
  ASSUME CallInv, NEW c \in Call, O!Request(c)
  PROVE  CallInv'
<1>1. PICK op \in O!Operation : call' = [call EXCEPT ![c].at = "prepare", ![c].op = op]
  BY DEF O!Request
<1>2. call \in [Call -> CallType]
  BY CallInvParts
<1>3. [call[c] EXCEPT !.at = "prepare", !.op = op] \in CallType
  BY <1>2 DEF CallType
<1>4. /\ call' \in [Call -> CallType]
      /\ \A d \in Call \ {c} : call'[d] = call[d]
      /\ call'[c].at = "prepare" /\ call'[c].result = call[c].result
  BY <1>1, <1>2, <1>3 DEF CallType
<1>5. call[c].result = "none"
  BY CallInvParts DEF O!Request, O!Reached
<1>6. /\ done' = done /\ admin' = admin /\ faults' = faults
      /\ done \in [Call -> {"nothing", "part", "whole"}] /\ admin \in BOOLEAN
      /\ faults \in 0..MaxFaults
  BY CallInvParts DEF O!Request, O!Ok
<1>7. Honest(c)'
  BY <1>4, <1>5 DEF Honest
<1> QED BY <1>4, <1>5, <1>6, <1>7, OneCall

LEMMA PrepareKeeps ==
  ASSUME CallInv, NEW c \in Call, O!Prepare(c)
  PROVE  CallInv'
<1>1. /\ done' = done /\ admin' = admin /\ faults' \in 0..MaxFaults
      /\ done \in [Call -> {"nothing", "part", "whole"}] /\ admin \in BOOLEAN
      /\ call[c].result = "none"
  <2>1. /\ done \in [Call -> {"nothing", "part", "whole"}] /\ admin \in BOOLEAN
        /\ faults \in 0..MaxFaults
        /\ call[c].at = "done" <=> call[c].result # "none"
    BY CallInvParts
  <2>2. O!Ok \/ O!Fault
    BY DEF O!Prepare, O!PrepareMail, O!LookUpAdmin, O!PrepareBudget
  <2>3. faults' \in 0..MaxFaults
    BY Bounds, <2>1, <2>2 DEF O!Ok, O!Fault
  <2> QED BY <2>1, <2>3 DEF O!Prepare, O!Reached
<1>2. {"ok", "error", "skipped"} \subseteq O!Result
  BY DEF O!Result
<1>3. CASE O!Proceed(c)
  <2>1. /\ call' \in [Call -> CallType]
        /\ \A d \in Call \ {c} : call'[d] = call[d]
        /\ call'[c].at = "provider" /\ call'[c].result = "none"
    BY <1>1, <1>3, ProceedCall
  <2>2. Honest(c)'
    BY <2>1 DEF Honest
  <2> QED BY <1>1, <2>1, <2>2, OneCall
<1>4. ASSUME NEW result \in {"ok", "error", "skipped"}, O!Report(c, result),
             result = "ok" => call[c].op = "admin" /\ admin
      PROVE  CallInv'
  <2>1. /\ call' \in [Call -> CallType]
        /\ \A d \in Call \ {c} : call'[d] = call[d]
        /\ call'[c].at = "done" /\ call'[c].result = result /\ call'[c].op = call[c].op
    BY <1>2, <1>4, ReportCall
  <2>2. Honest(c)'
    BY <1>1, <1>4, <2>1 DEF Honest
  <2> QED BY <1>1, <1>4, <2>1, <2>2, OneCall
<1> QED BY <1>3, <1>4 DEF O!Prepare, O!PrepareMail, O!LookUpAdmin, O!PrepareBudget

\* A success is reported with the effect, or by a caller that takes a refusal
\* for one.
LEMMA ProviderKeeps ==
  ASSUME CallInv, NEW c \in Call, O!Provider(c)
  PROVE  CallInv'
<1>1. /\ call \in [Call -> CallType] /\ faults' \in 0..MaxFaults
      /\ done \in [Call -> {"nothing", "part", "whole"}] /\ admin \in BOOLEAN
  BY Bounds, CallInvParts DEF O!Provider, O!Ok, O!Fault, O!Break
<1>2. Told \subseteq O!Result /\ O!OfError(call[c].op) \in Told \ {"ok"}
  BY DEF Told, O!Result, O!OfError, O!Unverified
<1>3. CASE O!Effect({c}) /\ (O!Admit(c) \/ O!Report(c, "ok") \/ O!Break(c))
  <2>1. PICK result \in Told : O!Report(c, result)
    BY <1>2, <1>3 DEF Told, O!Admit, O!SetClaims, O!Break
  <2>2. /\ call' \in [Call -> CallType]
        /\ \A d \in Call \ {c} : call'[d] = call[d]
        /\ call'[c].at = "done" /\ call'[c].result = result /\ call'[c].op = call[c].op
    BY <1>2, <2>1, ReportCall
  <2>3. /\ done' \in [Call -> {"nothing", "part", "whole"}]
        /\ \A d \in Call \ {c} : done'[d] = done[d]
        /\ done'[c] = IF call[c].op = "mail cut" THEN "part" ELSE "whole"
        /\ admin' \in BOOLEAN /\ (admin => admin')
        /\ call[c].op = "admin" => admin'
    BY <1>1, <1>3 DEF O!Effect
  <2>4. Honest(c)'
    BY <2>2, <2>3 DEF Honest
  <2>5. result # "none"
    BY <2>1 DEF Told
  <2> QED BY <1>1, <2>2, <2>3, <2>4, <2>5, OneCall
<1>4. CASE UNCHANGED <<done, admin>> /\ (O!Refuse(c) \/ O!Break(c))
  <2>1. PICK result \in Told :
          /\ O!Report(c, result)
          /\ result = "ok" => call[c].op = "message"
    BY <1>2, <1>4 DEF Told, O!Refuse, O!OfRefusal, O!Break
  <2>2. /\ call' \in [Call -> CallType]
        /\ \A d \in Call \ {c} : call'[d] = call[d]
        /\ call'[c].at = "done" /\ call'[c].result = result /\ call'[c].op = call[c].op
    BY <1>2, <2>1, ReportCall
  <2>3. Honest(c)'
    BY <2>1, <2>2 DEF Honest
  <2>4. result # "none"
    BY <2>1 DEF Told
  <2> QED BY <1>1, <1>4, <2>2, <2>3, <2>4, OneCall
<1> QED BY <1>3, <1>4 DEF O!Provider

\* What is lost with the process was not reported, and what the provider still
\* does adds to what was done.
LEMMA CallsLostKeeps ==
  ASSUME CallInv, O!CallsLost, faults' \in 0..MaxFaults
  PROVE  CallInv'
<1>1. /\ call \in [Call -> CallType] /\ admin \in BOOLEAN
      /\ done \in [Call -> {"nothing", "part", "whole"}]
      /\ \A c \in Call : call[c].at = "done" <=> call[c].result # "none"
  BY CallInvParts
<1>2. PICK S \in SUBSET {c \in Call : O!Reached(c, "provider") /\ O!Performs(c)} : O!Effect(S)
  BY DEF O!CallsLost
<1>3. call' = [c \in Call |-> IF call[c].at \in {"new", "done"} THEN call[c]
                              ELSE [call[c] EXCEPT !.at = "done", !.result = "lost"]]
  BY DEF O!CallsLost
<1>4. ASSUME NEW c \in Call
      PROVE  /\ call'[c] \in CallType
             /\ \/ call'[c] = call[c]
                \/ call'[c].at = "done" /\ call'[c].result = "lost"
  <2>1. call[c] \in CallType /\ "lost" \in O!Result
    BY <1>1 DEF O!Result
  <2>2. [call[c] EXCEPT !.at = "done", !.result = "lost"] \in CallType
    BY <2>1 DEF CallType
  <2>3. CASE call[c].at \in {"new", "done"}
    <3>1. call'[c] = call[c]
      BY <1>3, <2>3
    <3> QED BY <2>1, <3>1
  <2>4. CASE call[c].at \notin {"new", "done"}
    <3>1. call'[c] = [call[c] EXCEPT !.at = "done", !.result = "lost"]
      BY <1>3, <2>4
    <3> QED BY <2>1, <2>2, <3>1 DEF CallType
  <2> QED BY <2>3, <2>4
<1>5. call' \in [Call -> CallType]
  BY <1>3, <1>4
<1>6. /\ done' \in [Call -> {"nothing", "part", "whole"}]
      /\ admin' \in BOOLEAN /\ (admin => admin')
      /\ \A c \in Call : c \notin S => done'[c] = done[c]
  BY <1>1, <1>2 DEF O!Effect
<1>7. ASSUME NEW c \in Call
      PROVE  (call'[c].at = "done" <=> call'[c].result # "none") /\ Honest(c)'
  <2>1. CASE call'[c] = call[c]
    <3>1. Honest(c)
      BY CallInvParts
    <3>2. call[c].result = "ok" => c \notin S
      BY <1>1, <1>2 DEF O!Reached
    <3> QED BY <1>1, <1>6, <2>1, <3>1, <3>2 DEF Honest
  <2>2. CASE call'[c].at = "done" /\ call'[c].result = "lost"
    BY <2>2 DEF Honest
  <2> QED BY <1>4, <2>1, <2>2
<1> QED BY <1>5, <1>6, <1>7
        DEF CallInv, O!OutboundTypeOK, O!SuccessHappened, O!Reached, CallType, Honest

\* The steps of the uploads count failures and nothing else of the calls.
LEMMA CallInvStays ==
  ASSUME CallInv, UNCHANGED outboundVars, faults' \in 0..MaxFaults
  PROVE  CallInv'
BY DEF outboundVars, CallInv, O!OutboundTypeOK, O!SuccessHappened, O!Reached

LEMMA UploadInvStays ==
  ASSUME UploadInv, UNCHANGED uploadVars, faults' \in 0..MaxFaults
  PROVE  UploadInv'
BY DEF uploadVars, UploadInv, U!UploadTypeOK, KindOK, StoredOK, ThumbnailsOK, At,
   U!Tied, U!Answered

LEMMA FaultsTyped ==
  /\ UploadInv => faults \in 0..MaxFaults
  /\ CallInv => faults \in 0..MaxFaults
BY DEF UploadInv, U!UploadTypeOK, CallInv, O!OutboundTypeOK

-----------------------------------------------------------------------------
(* Both in one process *)

LEMMA InitIInv == Init => IInv
<1> SUFFICES ASSUME Init PROVE IInv
  OBVIOUS
<1>1. U!UploadTypeOK
  BY Bounds DEF Init, U!UploadInit, U!UploadTypeOK, U!Time, U!Label, U!Kind, U!Given
<1>2. ASSUME NEW u \in Upload PROVE KindOK(u) /\ StoredOK(u)
  BY DEF Init, U!UploadInit, KindOK, StoredOK, Between, U!Answered
<1>3. ThumbnailsOK
  BY DEF Init, U!UploadInit, ThumbnailsOK, U!Folder, U!Time
<1>4. CallInv
  <2>1. O!OutboundTypeOK
    BY Bounds DEF Init, O!OutboundInit, O!OutboundTypeOK, O!Reached, O!Operation, O!Result
  <2>2. O!SuccessHappened
    BY DEF Init, O!OutboundInit, O!SuccessHappened
  <2> QED BY <2>1, <2>2 DEF CallInv
<1> QED BY <1>1, <1>2, <1>3, <1>4 DEF IInv, UploadInv

LEMMA NextIInv == IInv /\ [Next]_vars => IInv'
<1> SUFFICES ASSUME IInv, [Next]_vars PROVE IInv'
  OBVIOUS
<1> UploadInv /\ CallInv
  BY DEF IInv
<1>1. ASSUME UploadInv', UNCHANGED outboundVars PROVE IInv'
  <2>1. faults' \in 0..MaxFaults
    BY <1>1 DEF UploadInv, U!UploadTypeOK
  <2> QED BY <1>1, <2>1, CallInvStays DEF IInv
<1>2. ASSUME CallInv', UNCHANGED uploadVars PROVE IInv'
  <2>1. faults' \in 0..MaxFaults
    BY <1>2 DEF CallInv, O!OutboundTypeOK
  <2> QED BY <1>2, <2>1, UploadInvStays DEF IInv
<1>3. CASE Arrive
  <2>1. ASSUME NEW u \in Upload, U!ReadForm(u) \/ U!GetSignedUrl(u), UNCHANGED outboundVars
        PROVE  IInv'
    BY <1>1, <2>1, ReadFormKeeps
  <2>2. ASSUME NEW c \in Call, O!Request(c), UNCHANGED uploadVars PROVE IInv'
    BY <1>2, <2>2, RequestKeeps
  <2> QED BY <1>3, <2>1, <2>2 DEF Arrive
<1>4. CASE Tick
  BY <1>1, <1>4, TickKeeps DEF Tick
<1>5. CASE Exit
  <2>1. UploadInv'
    BY <1>5, S3FailsKeeps DEF Exit
  <2>2. faults' \in 0..MaxFaults
    BY <2>1 DEF UploadInv, U!UploadTypeOK
  <2> QED BY <1>5, <2>1, <2>2, CallsLostKeeps DEF Exit, IInv
<1>6. ASSUME NEW u \in Upload, Serve(u) PROVE IInv'
  BY <1>1, <1>6, UploadInvKept DEF Serve
<1>7. ASSUME NEW c \in Call, Perform(c) PROVE IInv'
  BY <1>2, <1>7, PrepareKeeps, ProviderKeeps DEF Perform, O!CallStep
<1>8. CASE UNCHANGED vars
  <2>1. faults' \in 0..MaxFaults
    BY <1>8 DEF vars, UploadInv, U!UploadTypeOK
  <2> QED BY <1>8, <2>1, CallInvStays, UploadInvStays DEF vars, IInv
<1> QED BY <1>3, <1>4, <1>5, <1>6, <1>7, <1>8 DEF Next

-----------------------------------------------------------------------------
(* The theorems *)

\* The inductive invariant of the uploads and the calls of one process.
THEOREM Invariance == Spec => []IInv
<1> QED BY InitIInv, NextIInv, PTL DEF Spec

\* Handlers and calls are where their labels allow, and every call that has
\* ended has a result.
THEOREM TypeCorrect == Spec => []TypeOK
<1>1. IInv => TypeOK
  BY DEF IInv, UploadInv, CallInv, TypeOK
<1> QED BY <1>1, Invariance, PTL

\* What UploadFile and UploadImage report as stored stays stored under the
\* name they gave, unless two requests shared a nanosecond, and no thumbnail
\* is left without its original: beside any number of other uploads, after any
\* failure, and across the exits that UploadToS3 causes.
THEOREM ObjectsStay == Spec => []ObjectsHold
<1>1. IInv => ObjectsHold
  BY DEF IInv, UploadInv, StoredOK, ThumbnailsOK, At, ObjectsHold, U!ObjectsHold, U!Name
<1> QED BY <1>1, Invariance, PTL

\* No caller of Twilio, Gmail, Stripe, the billing API or Firebase is told of a
\* success that did not happen, wherever a connection breaks, except the two
\* that drop an error: MessageSuccess, of which nothing is said, and SendEmail
\* with a letter that ISO-2022-JP lacks, whose success means that the
\* beginning of the text was sent.
THEOREM SuccessIsReal == Spec => []SuccessHappened
<1>1. IInv => SuccessHappened
  BY DEF IInv, CallInv, SuccessHappened
<1> QED BY <1>1, Invariance, PTL

=============================================================================
