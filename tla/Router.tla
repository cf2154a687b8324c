------------------------------- MODULE Router -------------------------------
(***************************************************************************)
(* http::handle (lc/src/http/router.rs) on one server block: the choice of *)
(* a route and what GET, POST, DELETE and scripts do to the disk.  A step  *)
(* is the code up to its next system call, since scripts and operators     *)
(* change the same files between any two calls.                            *)
(*                                                                         *)
(* Data.  A path is a sequence of segments, "/" the empty one, without     *)
(* empty or "." segments or links.  A root stands for the directory it     *)
(* names, so that its path has no "..", and a default file is one of that  *)
(* directory.  A body is a sequence of elements: the bytes that parsers    *)
(* look for, the boundary ("delim"), a header line, or content.            *)
(***************************************************************************)
EXTENDS Naturals, SequencesExt, FiniteSetsExt

CONSTANTS
    Routes,        \* ServerConfig.routes; an option is a set of at most one
    Requests,      \* what is asked of the router
    Paths,         \* the paths that may exist
    FirstDisk,     \* the disk when the server starts
    ExtensionOf,   \* the extensions of file names that have one
    FileName,      \* part headers with a filename in quotes, and that name
    LooseName,     \* ends of a part's headers from a filename without quotes
                   \* on, and what is taken for that name
    Field,         \* header lines of scripts: their kind and their value
    Outputs,       \* what scripts print, and what they mean by it
    Others         \* what others put in a path's place

Implemented == {"GET", "POST", "DELETE"}

VARIABLES
    disk,      \* the file system
    pc,        \* the next system call of the request in progress
    req,       \* the request
    target,    \* the path it is about
    todo,      \* the files still to be written
    resp,      \* the response, once there is one
    acts,      \* history: what the request did with files, in order
    meddled    \* has somebody else changed the disk?

routerVars == <<disk, pc, req, target, todo, resp, acts, meddled>>

-----------------------------------------------------------------------------
(* The file system.                                                        *)

Absent == [kind |-> "absent", data |-> <<>>]
Dir == [kind |-> "dir", data |-> <<>>]
File(data) == [kind |-> "file", data |-> data]
IsEntry(e) == e = Absent \/ e = Dir \/ e = File(e.data)

IsSeq(s) == s \in Seq(ToSet(s))
Straight(path) == path \in Seq(STRING) /\ ".." \notin ToSet(path)

(* What is there, first or when others have put it there, is in a          *)
(* directory; the paths of Requests and all names may say anything.        *)
ASSUME RouterAssumption ==
    /\ IsSeq(Routes)
    /\ \A i \in DOMAIN Routes :
          /\ Routes[i].path \in Seq(STRING)
          /\ \A path \in Routes[i].root \cup Routes[i].index : Straight(path)
    /\ \A q \in Requests : q.path \in Seq(STRING) /\ IsSeq(q.body)
    /\ \A line \in DOMAIN FileName : FileName[line] \in Seq(STRING) \ {<<>>}
    /\ \A rest \in DOMAIN LooseName : LooseName[rest] \in Seq(STRING) \ {<<>>}
    /\ \A p \in Paths : Straight(p) /\ p # <<>> /\ Front(p) \in Paths \cup {<<>>}
    /\ FirstDisk = [p \in Paths |-> FirstDisk[p]]
    /\ \A p \in Paths :
          /\ IsEntry(FirstDisk[p])
          /\ FirstDisk[p] # Absent => Front(p) = <<>> \/ FirstDisk[Front(p)] = Dir
    /\ \A o \in Others : o.path \in Paths /\ IsEntry(o.entry)

Resolve(path) ==
    FoldLeft(LAMBDA at, s : IF s = ".." THEN Front(at) ELSE Append(at, s), <<>>, path)

EntryAt(path) ==
    LET p == Resolve(path)
    IN  IF p = <<>> THEN Dir ELSE IF p \in Paths THEN disk[p] ELSE Absent

Writable(path) ==
    /\ Resolve(path) \in Paths
    /\ EntryAt(Front(Resolve(path))) = Dir
    /\ EntryAt(path) # Dir

Note(op, path, entry) ==
    acts' = Append(acts, [op |-> op, path |-> Resolve(path), entry |-> entry])

Change(op, path, entry) ==
    /\ disk' = [disk EXCEPT ![Resolve(path)] = entry]
    /\ Note(op, path, entry)

-----------------------------------------------------------------------------
(* Steps end in another call or in a response.                             *)

Answer(status, body) ==
    /\ pc' = "answered"
    /\ resp' = [status |-> status, fields |-> <<>>, body |-> body]
    /\ UNCHANGED <<req, meddled>>

Reply(status) == Answer(status, <<>>)

Call(next) == pc' = next /\ UNCHANGED <<req, resp, meddled>>

Untouched == UNCHANGED <<disk, acts>>

-----------------------------------------------------------------------------
(***************************************************************************)
(* Routing.                                                                *)
(***************************************************************************)

RouteMatches(i, path) == IsPrefix(Routes[i].path, path)

(* 0 if no route matches.  All that match are prefixes of one path, so     *)
(* more segments is a longer path.                                         *)
BestRoute(path) ==
    FoldLeftDomain(LAMBDA best, i :
                     IF /\ RouteMatches(i, path)
                        /\ best = 0 \/ Len(Routes[i].path) > Len(Routes[best].path)
                     THEN i ELSE best,
                   0, Routes)

R == Routes[BestRoute(req.path)]
Rel == SubSeq(req.path, Len(R.path) + 1, Len(req.path))
Root == CHOOSE root \in R.root : TRUE

AllowedMethods(route) == IF route.methods = {} THEN Implemented ELSE route.methods

HasTraversal == ".." \in ToSet(Rel)

Arrive(q) ==
    /\ pc = "idle"
    /\ pc' = "route"
    /\ req' = q
    /\ acts' = <<>>
    /\ UNCHANGED <<disk, target, todo, resp, meddled>>

NoRoute ==
    /\ pc = "route"
    /\ BestRoute(req.path) = 0
    /\ Reply(404)
    /\ UNCHANGED <<target, todo>> /\ Untouched

Found == pc = "route" /\ BestRoute(req.path) # 0

Redirect ==
    /\ Found
    /\ \E code \in R.redirect : Reply(code)
    /\ UNCHANGED <<target, todo>> /\ Untouched

NotAllowed ==
    /\ Found
    /\ R.redirect = {}
    /\ req.method \notin AllowedMethods(R)
    /\ Reply(405)
    /\ UNCHANGED <<target, todo>> /\ Untouched

Admitted == Found /\ R.redirect = {} /\ req.method \in AllowedMethods(R)

ScriptRoute == R.cgi # {} /\ R.root # {}

IsScript ==
    /\ ScriptRoute
    /\ LET name == Last(Root \o Rel)
       IN  name \in DOMAIN ExtensionOf /\ ExtensionOf[name] \in R.cgi

(* try_cgi, as far as canonicalize.                                        *)
TryCgi ==
    /\ Admitted
    /\ \/ /\ ScriptRoute /\ HasTraversal
          /\ Reply(403)
          /\ UNCHANGED target
       \/ /\ IsScript /\ ~HasTraversal
          /\ target' = Root \o Rel
          /\ Call("canonicalize")
    /\ UNCHANGED todo /\ Untouched

Static == Admitted /\ ~IsScript /\ ~(ScriptRoute /\ HasTraversal)

(* What the handlers of GET, POST and DELETE begin with, and 501.          *)
Unservable ==
    /\ Static
    /\ \/ req.method \notin Implemented /\ Reply(501)
       \/ req.method \in Implemented /\ R.root = {} /\ Reply(404)
       \/ req.method \in Implemented /\ R.root # {} /\ HasTraversal /\ Reply(403)
    /\ UNCHANGED <<target, todo>> /\ Untouched

Servable == Static /\ req.method \in Implemented /\ R.root # {} /\ ~HasTraversal

-----------------------------------------------------------------------------
(***************************************************************************)
(* GET.                                                                    *)
(***************************************************************************)

ServeGet ==
    /\ Servable
    /\ req.method = "GET"
    /\ target' = Root \o Rel
    /\ Call("metadata")
    /\ UNCHANGED todo /\ Untouched

ListOrRefuse == IF R.autoindex THEN Call("read_dir") ELSE Reply(403)

(* serve_get after the metadata of the target.                             *)
GetMetadata ==
    /\ pc = "metadata"
    /\ req.method = "GET"
    /\ LET entry == EntryAt(target)
       IN  \/ Reply(404)
           \/ entry.kind = "file" /\ Call("read")
           \/ /\ entry = Dir
              /\ IF R.index # {} THEN Call("index") ELSE ListOrRefuse
    /\ UNCHANGED <<target, todo>> /\ Untouched

(* ... and after that of the default file.                                 *)
GetIndex ==
    /\ pc = "index"
    /\ LET file == target \o CHOOSE f \in R.index : TRUE
       IN  \/ /\ EntryAt(file).kind = "file"
              /\ target' = file
              /\ Call("read")
           \/ ListOrRefuse /\ UNCHANGED target
    /\ UNCHANGED todo /\ Untouched

ServeFile ==
    /\ pc = "read"
    /\ \/ /\ EntryAt(target).kind = "file"
          /\ Answer(200, EntryAt(target).data)
          /\ Note("read", target, EntryAt(target))
       \/ Reply(500) /\ UNCHANGED acts
    /\ UNCHANGED <<disk, target, todo>>

AutoIndex ==
    /\ pc = "read_dir"
    /\ \/ EntryAt(target) = Dir /\ Reply(200) /\ Note("list", target, Dir)
       \/ Reply(500) /\ UNCHANGED acts
    /\ UNCHANGED <<disk, target, todo>>

-----------------------------------------------------------------------------
(***************************************************************************)
(* Scripts.                                                                *)
(***************************************************************************)

CRLF == <<"cr", "lf">>

Find(s, needle) ==
    LET n == Len(needle)
        hits == {i \in 1 .. Len(s) + 1 - n : SubSeq(s, i, i + n - 1) = needle}
    IN  IF hits = {} THEN 0 ELSE Min(hits)

(* Mutant: a bare empty line is looked for first.                          *)
SeparatorLfFirst(raw) ==
    LET crlf == Find(raw, CRLF \o CRLF)
        lf == Find(raw, <<"lf", "lf">>)
    IN  IF lf # 0 THEN [at |-> lf, len |-> 2]
        ELSE IF crlf # 0 THEN [at |-> crlf, len |-> 4] ELSE [at |-> 1, len |-> 0]

(* The empty line between a script's fields and its body.                  *)
Separator(raw) ==
    LET crlf == Find(raw, CRLF \o CRLF)
        lf == Find(raw, <<"lf", "lf">>)
    IN  IF crlf # 0 THEN [at |-> crlf, len |-> 4]
        ELSE IF lf # 0 THEN [at |-> lf, len |-> 2] ELSE [at |-> 1, len |-> 0]

(* The elements of s that are in S, in their order.                        *)
Only(s, S) == FoldLeft(LAMBDA kept, e : IF e \in S THEN Append(kept, e) ELSE kept, <<>>, s)

FieldsOf(lines, kinds) == Only(lines, {f \in DOMAIN Field : Field[f].kind \in kinds})

(* What the lines of a script say: the last Status counts, and one that is *)
(* no number has the value 200; fields about framing are dropped.          *)
StatusOf(lines) ==
    LET statuses == FieldsOf(lines, {"status"})
    IN  IF statuses = <<>> THEN 200 ELSE Field[Last(statuses)].value

ForwardedOf(lines) ==
    (IF FieldsOf(lines, {"type"}) = <<>> THEN <<"text/plain">> ELSE <<>>)
      \o FieldsOf(lines, {"type", "other"})

(* parse_cgi_output: line ends are no fields.                              *)
ParseCgiOutput(raw) ==
    LET sep == Separator(raw)
        lines == SubSeq(raw, 1, sep.at - 1)
    IN  [status |-> StatusOf(lines), fields |-> ForwardedOf(lines),
         body |-> SubSeq(raw, sep.at + sep.len, Len(raw))]

Canonicalize ==
    /\ pc = "canonicalize"
    /\ \/ EntryAt(target) # Absent /\ Call("execute")
       \/ Reply(404)
    /\ UNCHANGED <<target, todo>> /\ Untouched

(* cgi::execute, which CgiRunner models: any output or an error.           *)
Execute ==
    /\ pc = "execute"
    /\ \/ \E out \in Outputs :
            /\ pc' = "answered"
            /\ resp' = ParseCgiOutput(out.raw)
            /\ Note("run", target, out)
            /\ UNCHANGED <<req, meddled>>
       \/ Reply(500) /\ UNCHANGED acts
    /\ UNCHANGED <<disk, target, todo>>

-----------------------------------------------------------------------------
(***************************************************************************)
(* Uploads.                                                                *)
(***************************************************************************)

(* What stands between delimiters (find_all, windows).                     *)
Cut(pieces, e) ==
    IF e = "delim" THEN Append(pieces, <<>>)
    ELSE [pieces EXCEPT ![Len(pieces)] = Append(@, e)]

Pieces(body) == FoldLeft(Cut, << <<>> >>, body)

Segments(body) == SubSeq(Pieces(body), 2, Len(Pieces(body)) - 1)

WithoutFirstLineEnd(seg) ==
    IF IsPrefix(CRLF, seg) THEN SubSeq(seg, 3, Len(seg)) ELSE seg

WithoutLastLineEnd(seg) ==
    IF IsSuffix(CRLF, seg) THEN SubSeq(seg, 1, Len(seg) - 2) ELSE seg

(* Mutant: the name as it was sent.                                        *)
UnsafeFilename(name) == name

(* Empty for a name that cannot be used.                                   *)
SanitizeFilename(name) ==
    IF Last(name) \in {"", ".", ".."} THEN <<>> ELSE <<Last(name)>>

(* part_filename, at the end of a part's headers that begins with it: a    *)
(* name without quotes goes on to the next quote, or through all of them.  *)
HasName(rest) == rest[1] \in DOMAIN FileName \/ rest \in DOMAIN LooseName
PartFilename(rest) ==
    IF rest[1] \in DOMAIN FileName THEN FileName[rest[1]] ELSE LooseName[rest]

(* The file in a segment; its path is empty if there is none.              *)
PartFile(segment) ==
    LET seg == WithoutLastLineEnd(WithoutFirstLineEnd(segment))
        h == Find(seg, CRLF \o CRLF)
        named == {i \in 1 .. h - 1 : HasName(SubSeq(seg, i, h - 1))}
    IN  IF IsPrefix(<<"dash">>, segment) \/ h = 0 \/ named = {}
        THEN [path |-> <<>>, data |-> <<>>]
        ELSE [path |-> SanitizeFilename(PartFilename(SubSeq(seg, Min(named), h - 1))),
              data |-> SubSeq(seg, h + 4, Len(seg))]

(* The files that save_multipart writes, below root.                       *)
Collect(files, file, root) ==
    IF file.path = <<>> THEN files
    ELSE Append(files, [path |-> root \o file.path, data |-> file.data])

PartFiles(body, root) ==
    FoldLeft(LAMBDA files, segment : Collect(files, PartFile(segment), root),
             <<>>, Segments(body))

HandlePost ==
    /\ Servable
    /\ req.method = "POST"
    /\ IF req.multipart
       THEN /\ todo' = PartFiles(req.body, Root)
            /\ IF todo' = <<>> THEN Reply(400) ELSE Call("write")
            /\ UNCHANGED target
       ELSE /\ target' = Root \o Rel
            /\ todo' = <<[path |-> target', data |-> req.body]>>
            /\ IF Rel = <<>> THEN Reply(400) ELSE Call("create_dir_all")
    /\ Untouched

(* create_dir_all of the parent makes what is missing, from the top, and   *)
(* may fail before, at a file in its way, or half-way.                     *)
CreateDirs ==
    /\ pc = "create_dir_all"
    /\ LET parent == Front(target)
           missing == {p \in Prefixes(parent) : EntryAt(p) = Absent}
           blocked == \E p \in Prefixes(parent) : EntryAt(p).kind = "file"
       IN  \E made \in SUBSET missing :
              /\ \A p \in made, q \in missing : Len(q) < Len(p) => q \in made
              /\ blocked => made = {}
              /\ disk' = [p \in Paths |-> IF p \in made THEN Dir ELSE disk[p]]
              /\ IF made = {} THEN UNCHANGED acts ELSE Note("mkdir", parent, Dir)
              /\ \/ made = missing /\ ~blocked /\ Call("write")
                 \/ (made # missing \/ missing = {}) /\ Reply(500)
    /\ UNCHANGED <<target, todo>>

(* Mutant: whether that was the last part is looked at too early.          *)
WriteFileUnended ==
    /\ pc = "write"
    /\ Writable(Head(todo).path)
    /\ Change("write", Head(todo).path, File(Head(todo).data))
    /\ todo' = Tail(todo)
    /\ IF todo = <<>> THEN Reply(201) ELSE Call("write")
    /\ UNCHANGED target

(* fs::write, and the end of handle_post or the next part.                 *)
WriteFile ==
    /\ pc = "write"
    /\ Writable(Head(todo).path)
    /\ Change("write", Head(todo).path, File(Head(todo).data))
    /\ todo' = Tail(todo)
    /\ IF todo' = <<>> THEN Reply(201) ELSE Call("write")
    /\ UNCHANGED target

(* Mutant: a part that cannot be written is skipped.                       *)
SkipPart ==
    /\ pc = "write"
    /\ UNCHANGED <<disk, acts>>
    /\ todo' = Tail(todo)
    /\ IF todo' = <<>> THEN Reply(201) ELSE Call("write")
    /\ UNCHANGED target

(* Mutant: an error of the disk counts as forbidden.                       *)
WriteForbidden ==
    /\ pc = "write"
    /\ \/ Untouched
       \/ /\ Writable(Head(todo).path)
          /\ Change("torn", Head(todo).path, File(<<>>))
    /\ Reply(403)
    /\ UNCHANGED <<target, todo>>

(* fs::write opens, empties and then fills the file: it fails before it    *)
(* did anything, or with the beginning of the data written.                *)
WriteFails ==
    /\ pc = "write"
    /\ LET file == Head(todo)
       IN  \/ Untouched
           \/ /\ Writable(file.path)
              /\ \E n \in 0 .. Len(file.data) - 1 :
                   Change("torn", file.path, File(SubSeq(file.data, 1, n)))
    /\ Reply(500)
    /\ UNCHANGED <<target, todo>>

-----------------------------------------------------------------------------
(***************************************************************************)
(* DELETE.                                                                 *)
(***************************************************************************)

HandleDelete ==
    /\ Servable
    /\ req.method = "DELETE"
    /\ target' = Root \o Rel
    /\ IF Rel = <<>> THEN Reply(403) ELSE Call("metadata")
    /\ UNCHANGED todo /\ Untouched

DeleteMetadata ==
    /\ pc = "metadata"
    /\ req.method = "DELETE"
    /\ \/ Reply(404)
       \/ EntryAt(target) = Dir /\ Reply(403)
       \/ EntryAt(target).kind = "file" /\ Call("remove_file")
    /\ UNCHANGED <<target, todo>> /\ Untouched

RemoveFile ==
    /\ pc = "remove_file"
    /\ \/ /\ EntryAt(target).kind = "file"
          /\ Change("remove", target, Absent)
          /\ Reply(204)
       \/ Reply(500) /\ Untouched
    /\ UNCHANGED <<target, todo>>

-----------------------------------------------------------------------------
(* Another process changes one path, once, while a request is in progress; *)
(* what is below a directory goes with it.                                 *)
Meddle ==
    /\ pc \notin {"idle", "answered"}
    /\ ~meddled
    /\ \E o \in Others :
         /\ EntryAt(Front(o.path)) = Dir
         /\ disk' = [p \in Paths |-> IF p = o.path THEN o.entry
                                    ELSE IF IsPrefix(o.path, p) THEN Absent ELSE disk[p]]
    /\ meddled' = TRUE
    /\ UNCHANGED <<pc, req, target, todo, resp, acts>>

NoRequest == [method |-> "none", path |-> <<>>]
NoResponse == [status |-> 0, fields |-> <<>>, body |-> <<>>]

RouterInit ==
    /\ disk = FirstDisk /\ meddled = FALSE
    /\ pc = "idle" /\ req = NoRequest /\ resp = NoResponse
    /\ target = <<>> /\ todo = <<>> /\ acts = <<>>

(* The response is on its way, and the request's locals are gone.          *)
Done ==
    /\ pc = "answered"
    /\ pc' = "idle" /\ req' = NoRequest /\ resp' = NoResponse
    /\ target' = <<>> /\ todo' = <<>> /\ acts' = <<>>
    /\ UNCHANGED <<disk, meddled>>

RouterStep ==
    \/ NoRoute \/ Redirect \/ NotAllowed \/ TryCgi \/ Unservable
    \/ ServeGet \/ GetMetadata \/ GetIndex \/ ServeFile \/ AutoIndex
    \/ Canonicalize \/ Execute
    \/ HandlePost \/ CreateDirs \/ WriteFile \/ WriteFails
    \/ HandleDelete \/ DeleteMetadata \/ RemoveFile
    \/ Meddle

-----------------------------------------------------------------------------
(***************************************************************************)
(* Properties.                                                             *)
(***************************************************************************)

Ran == \E k \in DOMAIN acts : acts[k].op = "run"

(* The route that a path belongs to: it matches, no matching route lies    *)
(* below it, and it is the first with its path.                            *)
RoutesTo(i, path) ==
    /\ IsPrefix(Routes[i].path, path)
    /\ \A j \in DOMAIN Routes : IsPrefix(Routes[j].path, path) =>
         /\ ~IsStrictPrefix(Routes[i].path, Routes[j].path)
         /\ Routes[j].path = Routes[i].path => i <= j

(* Whatever a request reads, lists, runs, writes or removes lies in the    *)
(* root of the most specific route for its path, and that route allows its *)
(* method: no path and no file name that a client sends leads elsewhere.   *)
(* A directory made is the one that the file is for; create_dir_all makes  *)
(* what is missing above it, too.                                          *)
Confined ==
    \A k \in DOMAIN acts : \E i \in DOMAIN Routes : \E root \in Routes[i].root :
        /\ RoutesTo(i, req.path)
        /\ Routes[i].redirect = {}
        /\ req.method \in AllowedMethods(Routes[i])
        /\ IsPrefix(root, acts[k].path)
        /\ acts[k].op \in {"write", "torn", "remove"} => acts[k].path # root

(* A request that is refused (3xx, 4xx, 501) has left the disk alone and   *)
(* run nothing, unless the refusal is a script's own: a client may repeat  *)
(* it.  Only a 500 leaves open what was done.                              *)
RefusedLeavesNoTrace ==
    /\ pc = "answered" /\ ~Ran
    /\ resp.status \in 300 .. 499 \cup {501}
    => acts = <<>>

(* A part of an upload as a client makes it: its header lines, none of     *)
(* them empty and one at most with a name, which is in quotes; its         *)
(* content; and that name, if any.  The delimiter is in neither.           *)
IsPart(p) ==
    /\ IsSeq(p.fields) /\ IsSeq(p.data)
    /\ "delim" \notin ToSet(p.fields) \cup ToSet(p.data)
    /\ Find(p.fields \o CRLF \o CRLF, CRLF \o CRLF) = Len(p.fields) + 1
    /\ \A i \in DOMAIN p.fields : SubSeq(p.fields, i, Len(p.fields)) \notin DOMAIN LooseName
    /\ {FileName[f] : f \in ToSet(p.fields) \cap DOMAIN FileName}
         = IF p.name = <<>> THEN {} ELSE {p.name}

PartText(p) == CRLF \o p.fields \o CRLF \o CRLF \o p.data \o CRLF

Encode(parts) ==
    FoldLeft(LAMBDA text, p : text \o <<"delim">> \o PartText(p), <<>>, parts)
    \o <<"delim", "dash">>

(* A body that is one of parts, as multipart/form-data has it.             *)
IsMade(q) ==
    q.multipart =>
        /\ IsSeq(q.sent) /\ \A k \in DOMAIN q.sent : IsPart(q.sent[k])
        /\ q.body = Encode(q.sent)

(* The files that parts stand for, each under the last segment of its name *)
(* if that names a file.                                                   *)
Wanted(parts, root) ==
    FoldLeft(LAMBDA files, p :
               IF p.name = <<>> \/ Last(p.name) \in {"", ".", ".."} THEN files
               ELSE Append(files, [path |-> Append(root, Last(p.name)), data |-> p.data]),
             <<>>, parts)

(* The files a POST asks for, from what the client put into it.            *)
Asked ==
    LET i == CHOOSE j \in DOMAIN Routes : RoutesTo(j, req.path)
        root == CHOOSE r \in Routes[i].root : TRUE
        rel == SubSeq(req.path, Len(Routes[i].path) + 1, Len(req.path))
    IN  IF req.multipart THEN Wanted(req.sent, root)
        ELSE <<[path |-> root \o rel, data |-> req.body]>>

(* What the first n files are, once they are stored.                       *)
Stored(files, n) ==
    [k \in 1 .. n |-> [op |-> "write", path |-> files[k].path, entry |-> File(files[k].data)]]

(* What comes before the first file, and after the last that was stored.   *)
Mkdirs == {<<>>, <<[op |-> "mkdir", path |-> Front(target), entry |-> Dir]>>}

Torn(file) ==
    {<<>>} \cup {<<[op |-> "torn", path |-> file.path, entry |-> File(SubSeq(file.data, 1, n))]>> :
                   n \in 0 .. Len(file.data) - 1}

Redirected == \E i \in DOMAIN Routes : RoutesTo(i, req.path) /\ Routes[i].redirect # {}

(* The answer tells what happened: 201 that every file of the upload was   *)
(* stored, in order and byte for byte; 500 that the first few were, and at *)
(* most one more was cut short; 204 that this request removed this file,   *)
(* also when others removed or replaced it between two calls.  Scripts and *)
(* redirects answer with any status, and a body that no client would make  *)
(* asks for nothing in particular.                                         *)
EffectsAsAnswered ==
    pc = "answered" /\ ~Ran /\ ~Redirected /\ IsMade(req) =>
        /\ resp.status = 201 =>
              \E made \in Mkdirs : acts = made \o Stored(Asked, Len(Asked))
        /\ resp.status = 500 /\ acts # <<>> =>
              \E made \in Mkdirs, n \in 0 .. Len(Asked) - 1 :
                 \E torn \in Torn(Asked[n + 1]) : acts = made \o Stored(Asked, n) \o torn
        /\ resp.status = 204 =>
              /\ acts = <<[op |-> "remove", path |-> target, entry |-> Absent]>>
              /\ req.method = "DELETE"

(* An output as a script means it: lines of fields with either line end,   *)
(* an empty line and the body, or text alone that has no empty line.       *)
Lines(lines, eol) == FoldLeft(LAMBDA text, line : text \o <<line>> \o eol, <<>>, lines)

IsMeant(out) ==
    /\ IsSeq(out.lines) /\ IsSeq(out.body) /\ {"cr", "lf"} \cap ToSet(out.lines) = {}
    /\ {"cr", "lf"} \cap DOMAIN Field = {}
    /\ out.status = StatusOf(out.lines) /\ out.fields = ForwardedOf(out.lines)
    /\ \/ /\ out.lines # <<>> /\ out.eol \in {CRLF, <<"lf">>}
          /\ out.raw = Lines(out.lines, out.eol) \o out.eol \o out.body
       \/ /\ out.lines = <<>> /\ out.raw = out.body
          /\ Find(out.body, CRLF \o CRLF) = 0 /\ Find(out.body, <<"lf", "lf">>) = 0

(* What a script prints reaches the client as it was meant: its status,    *)
(* its fields without those about framing, its body byte for byte.  The    *)
(* one exception is a script that ends its lines with LF alone and has an  *)
(* empty line of the other kind in its body, which is taken for the        *)
(* separator.                                                              *)
CgiAnswerExact ==
    pc = "answered" /\ Ran /\ IsMeant(Last(acts).entry) =>
        LET out == Last(acts).entry
        IN  \/ resp = [status |-> out.status, fields |-> out.fields, body |-> out.body]
            \/ out.eol # CRLF /\ Find(out.body, CRLF \o CRLF) # 0
=============================================================================
