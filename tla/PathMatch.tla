----------------------------- MODULE PathMatch -----------------------------
(***************************************************************************)
(* Which applications a changed file concerns (internal/app/usecase.go):   *)
(* paths are texts, put between slashes and then searched for in each      *)
(* other.  A text is the sequence of its characters.  What the search      *)
(* means for directory names is stated beside it.                          *)
(***************************************************************************)
EXTENDS Integers, Sequences

CONSTANTS
  Slash, Dot,               \* two characters
  BaseName, ComponentsName  \* the texts "base" and "components"

ASSUME PathAssumption == Slash # Dot

cleanPaths(path) ==
  LET text == IF Len(path) > 1 /\ path[1] = Dot /\ path[2] = Slash
                THEN Tail(path) ELSE path
      rooted == IF text # <<>> /\ text[1] # Slash
                  THEN <<Slash>> \o text ELSE text
  IN IF rooted # <<>> /\ rooted[Len(rooted)] # Slash
       THEN Append(rooted, Slash) ELSE rooted

(* strings.Contains.                                                       *)
ContainsText(text, part) ==
  \E i \in 0 .. Len(text) - Len(part) :
    SubSeq(text, i + 1, i + Len(part)) = part

(* The paths of an application: its source and, below the annotation       *)
(* manifest-generate-paths, two directories.                               *)
Paths(app) ==
  {app.source} \union
  {app.basePath \o <<Slash>> \o name : name \in {BaseName, ComponentsName}}

matchAppByRepoAndFiles(app, repo, files) ==
  /\ app.repository = repo
  /\ \E file \in files, path \in Paths(app) :
       ContainsText(cleanPaths(file), cleanPaths(path))

-----------------------------------------------------------------------------
(* What the texts stand for: a path is the list of its names.  It is read  *)
(* character by character; a name ends at a slash or with the text, and an *)
(* empty one or a dot is none.                                             *)
NothingRead == [names |-> <<>>, name |-> <<>>]

EndName(s) ==
  IF s.name \in {<<>>, <<Dot>>} THEN s.names ELSE Append(s.names, s.name)

ReadNext(s, c) ==
  IF c = Slash THEN [names |-> EndName(s), name |-> <<>>]
  ELSE [names |-> s.names, name |-> Append(s.name, c)]

Readings(text) ==
  LET read[i \in 0 .. Len(text)] ==
        IF i = 0 THEN NothingRead ELSE ReadNext(read[i - 1], text[i])
  IN read

Names(text) == EndName(Readings(text)[Len(text)])

(* Some directory or file on the way to "file" has the whole of "path" as  *)
(* the last of its names.                                                  *)
PassesThrough(file, path) == ContainsText(Names(file), Names(path))

(* Texts that name a path in the usual ways: no name is empty or a dot,    *)
(* but for a leading "./".                                                 *)
IsPath(text) ==
  /\ text # <<>> /\ text # <<Dot>>
  /\ \A i \in 1 .. Len(text) - 1 : text[i] = Slash =>
       /\ text[i + 1] # Slash
       /\ text[i + 1] = Dot => i + 2 <= Len(text) /\ text[i + 2] # Slash
=============================================================================
