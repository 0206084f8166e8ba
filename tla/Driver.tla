------------------------------- MODULE Driver -------------------------------
(***************************************************************************)
(* main() of unzig (src/src/unzig_cmd.cpp) and the files it reads and      *)
(* writes, run again and again while the user edits the source.  The       *)
(* phases are seen from outside, as steps that succeed or end the process. *)
(* The programs called and the file system may fail.                       *)
(***************************************************************************)
EXTENDS Naturals

CONSTANTS
  InputExt,   \* the extension of the file named on the command line, if any
  MaxVersion  \* the number of times the source is written

llFile == "ll"
dotFile == "dot"
pngFile == "png"
outputFile == ""
Outputs == {llFile, dotFile, pngFile, outputFile}

\* As in `Usage: unzig <file>.uz'; main() does not look at the extension.
OwnExtension == InputExt \notin Outputs

ASSUME VersionAssumption == MaxVersion \in Nat

Versions == 1 .. MaxVersion
Files == Outputs \cup {InputExt}

\* Where a version of the source fails: in the tokenizer, the parser or the
\* semantic analysis; in the code generation, for want of a main or otherwise; or
\* in clang, which does not accept the module.
Fates == {"front", "codegen", "clang", "nowhere"}

VARIABLES
  fate,     \* of each version
  version,  \* of the source written last
  files,    \* their contents
  stage,    \* what main() does next, "idle" when it does not run
  given,    \* the version that was read
  lost,     \* a write to the .ll file failed, and the stream has noted it
  ended     \* the result of the last run, "running" once the source was read

driverVars == <<fate, version, files, stage, given, lost, ended>>

\* The contents of a file: made from a version, whole or in part.
Is(what, v) == [is |-> what, of |-> v]
Absent == Is("absent", 0)
EmptyFile == Is("empty", 0)

DriverInit ==
  /\ fate \in [Versions -> Fates]
  /\ version = 0
  /\ files = [f \in Files |-> Absent]
  /\ stage = "idle"
  /\ given = 0
  /\ lost = FALSE
  /\ ended = "none"

-----------------------------------------------------------------------------
(* The user. *)

Edit ==
  /\ version < MaxVersion
  /\ version' = version + 1
  /\ files' = [files EXCEPT ![InputExt] = Is("source", version + 1)]
  /\ UNCHANGED <<fate, stage, given, lost, ended>>

Remove ==
  /\ files' = [files EXCEPT ![InputExt] = Absent]
  /\ UNCHANGED <<fate, version, stage, given, lost, ended>>

Start ==
  /\ stage = "idle"
  /\ stage' = "exists"
  /\ UNCHANGED <<fate, version, files, given, lost, ended>>

-----------------------------------------------------------------------------
(* main(). *)

\* A step of main() that goes on to the next one.
Goes(from, to) ==
  /\ stage = from
  /\ stage' = to
  /\ UNCHANGED <<fate, version>>

Exit(from) ==
  /\ Goes(from, "idle")
  /\ ended' = "failure"
  /\ UNCHANGED given

Writes(f, content) == files' = [files EXCEPT ![f] = content]

FileExists ==
  /\ Goes("exists", "read")
  /\ files[InputExt] # Absent
  /\ UNCHANGED <<files, given, lost, ended>>

FileDoesNotExist ==
  /\ Exit("exists")
  /\ files[InputExt] = Absent
  /\ UNCHANGED <<files, lost>>

\* The version of the source in the file, 0 when it holds something else: what an
\* earlier run has written there is no program.
versionRead == IF files[InputExt].is = "source" THEN files[InputExt].of ELSE 0

\* Mutant: the stream is not asked whether it is open.
readFileUnchecked ==
  /\ Goes("read", "open")
  /\ given' = versionRead
  /\ ended' = "running"
  /\ lost' = FALSE
  /\ UNCHANGED files

readFileIntoString ==
  /\ Goes("read", "open")
  /\ files[InputExt] # Absent
  /\ given' = versionRead
  /\ ended' = "running"
  /\ lost' = FALSE
  /\ UNCHANGED files

\* It may have gone since, or not be readable.
CouldNotOpen == Exit("read") /\ UNCHANGED <<files, lost>>

\* Mutant: the file keeps what it holds.
opened == files[llFile]
\* OF_None truncates the file.
truncated == EmptyFile

OpenLlFile ==
  /\ Goes("open", "front")
  /\ Writes(llFile, truncated)
  /\ UNCHANGED <<given, lost, ended>>

UnableToCreate == Exit("open") /\ UNCHANGED <<files, lost>>

\* tokenize(), parse() and sema() return only for a correct program.
FrontEnd ==
  /\ Goes("front", "dot")
  /\ given # 0 /\ fate[given] # "front"
  /\ UNCHANGED <<files, given, lost, ended>>

FrontEndExits ==
  /\ Exit("front")
  /\ given = 0 \/ fate[given] = "front"
  /\ UNCHANGED <<files, lost>>

\* Nobody asks whether the file could be opened or written.
WriteDot ==
  /\ Goes("dot", "picture")
  /\ \/ Writes(dotFile, Is("graph", given))
     \/ Writes(dotFile, Is("part of a graph", given))
     \/ UNCHANGED files
  /\ UNCHANGED <<given, lost, ended>>

\* What dot makes of the file it finds: nothing of a file without a graph.
picture ==
  IF files[dotFile].is = "graph" THEN Is("picture", files[dotFile].of)
  ELSE EmptyFile

\* The shell empties the file before dot is run.
DrawPicture ==
  /\ Goes("picture", "codegen")
  /\ files[dotFile] # Absent
  /\ Writes(pngFile, picture)
  /\ UNCHANGED <<given, lost, ended>>

\* Mutant: the status of dot is not looked at.
PictureFailsUnseen ==
  /\ Goes("picture", "codegen")
  /\ Writes(pngFile, EmptyFile)
  /\ UNCHANGED <<given, lost, ended>>

PictureFails ==
  /\ Exit("picture")
  /\ Writes(pngFile, EmptyFile) \/ UNCHANGED files
  /\ UNCHANGED lost

GenerateCode ==
  /\ Goes("codegen", "print")
  /\ fate[given] # "codegen"
  /\ UNCHANGED <<files, given, lost, ended>>

UnableToGenerate ==
  /\ Exit("codegen")
  /\ fate[given] = "codegen"
  /\ UNCHANGED <<files, lost>>

\* The stream notes an error and tells nobody before it is destroyed.
PrintModule ==
  /\ Goes("print", "clang")
  /\ \/ Writes(llFile, Is("module", given)) /\ UNCHANGED lost
     \/ Writes(llFile, Is("part of a module", given)) /\ lost' = TRUE
     \/ UNCHANGED files /\ lost' = TRUE
  /\ UNCHANGED <<given, ended>>

\* Part of a module may still be one: functions nobody calls are missing.
Acceptable(content) ==
  \/ content.is = "module" /\ fate[content.of] # "clang"
  \/ content.is = "part of a module"

Clang ==
  /\ Goes("clang", "report")
  /\ Acceptable(files[llFile])
  /\ Writes(outputFile, Is("executable", files[llFile].of))
  /\ UNCHANGED <<given, lost, ended>>

\* Mutant: the status of clang is not looked at.
ClangFailsUnseen ==
  /\ Goes("clang", "report")
  /\ UNCHANGED <<files, given, lost, ended>>

\* The module is refused, or clang fails for another reason; the linker may
\* have removed the executable.
ClangFails ==
  /\ Exit("clang")
  /\ Writes(outputFile, Absent) \/ UNCHANGED files
  /\ UNCHANGED lost

\* The destructor of the stream aborts if a write has failed.
Report ==
  /\ Goes("report", "idle")
  /\ ended' = IF lost THEN "failure" ELSE "success"
  /\ UNCHANGED <<files, given, lost>>

\* The process is killed, or a phase throws.
Die ==
  /\ stage # "idle"
  /\ Exit(stage)
  /\ UNCHANGED <<files, lost>>

Main ==
  \/ FileExists \/ FileDoesNotExist \/ readFileIntoString \/ CouldNotOpen
  \/ OpenLlFile \/ UnableToCreate \/ FrontEnd \/ FrontEndExits
  \/ WriteDot \/ DrawPicture \/ PictureFails
  \/ GenerateCode \/ UnableToGenerate \/ PrintModule
  \/ Clang \/ ClangFails \/ Report \/ Die

DriverNext == Edit \/ Remove \/ Start \/ Main

DriverSpec == DriverInit /\ [][DriverNext]_driverVars

-----------------------------------------------------------------------------
(* Properties. *)

Content ==
  [is : {"absent", "empty"}, of : {0}]
  \cup [is : {"source", "graph", "part of a graph", "picture", "module",
              "part of a module", "executable"}, of : Versions]

BeforeReading == {"exists", "read"}
Working == {"open", "front", "dot", "picture", "codegen", "print", "clang", "report"}

\* The file named on the command line is the user's: what it holds is what the
\* user has written last, if it is there.  It is a `<file>.uz', as main() says
\* itself (unzig_cmd.cpp:37), and none of the files main() writes (:47-52).
SourceKept == files[InputExt] \in {Absent, Is("source", version)}

\* The variables have values of their types, and all that comes after the
\* reading works on a version that exists.
DriverTypeOK ==
  /\ fate \in [Versions -> Fates]
  /\ version \in 0 .. MaxVersion
  /\ files \in [Files -> Content]
  /\ SourceKept
  /\ stage \in {"idle"} \cup BeforeReading \cup Working
  /\ given \in 0 .. MaxVersion
  /\ lost \in BOOLEAN
  /\ ended \in {"none", "running", "failure", "success"}
  /\ stage \in Working <=> ended = "running"
  /\ stage \in Working => given # 0

\* clang is never given a module of an earlier run: what is there was printed by
\* this run, or nothing is (unzig_cmd.cpp:57 truncates before anything can fail).
ClangSeesThisModule ==
  stage = "clang" =>
    files[llFile] \in {EmptyFile, Is("part of a module", given), Is("module", given)}

\* After a success the picture is that of the graph beside it, although nobody
\* has made sure that the graph was written.
PictureMatchesGraph ==
  ended = "success" /\ files[dotFile].is = "graph" =>
    files[pngFile] = Is("picture", files[dotFile].of)

B == INSTANCE Build WITH
       source <- files[InputExt].of,
       taken <- given,
       executable <- files[outputFile].of,
       result <- ended

\* However runs fail and the source changes under them, a run reports success
\* only with the executable of the source it has read, and no executable is
\* ever made of anything else.
BuildsWhatWasRead == B!Spec
=============================================================================
