--------------------------- MODULE Driver_proofs ---------------------------
(***************************************************************************)
(* Proofs about the driver, for every number of versions of the source.    *)
(* They have the hypothesis that the file named on the command line is     *)
(* none of those main() writes; without it the source itself is lost.      *)
(***************************************************************************)
EXTENDS Driver, TLAPS

\* The outputs are different files, and none of them is the source.
LEMMA DistinctFiles ==
  ASSUME OwnExtension
  PROVE  /\ Outputs \subseteq Files
         /\ {llFile, dotFile, pngFile, outputFile} \subseteq Files
         /\ InputExt \in Files \ Outputs
         /\ llFile # dotFile /\ llFile # pngFile /\ llFile # outputFile
         /\ dotFile # pngFile /\ dotFile # outputFile /\ pngFile # outputFile
BY DEF OwnExtension, Files, Outputs, llFile, dotFile, pngFile, outputFile

\* What the driver writes is a content a file may have.
LEMMA Contents ==
  /\ Absent \in Content
  /\ EmptyFile \in Content
  /\ \A v \in Versions :
       \A what \in {"source", "graph", "part of a graph", "picture", "module",
                    "part of a module", "executable"} : Is(what, v) \in Content
BY DEF Content, Absent, EmptyFile, Is

\* A content that was made from a version names one.
LEMMA MadeFromVersion ==
  ASSUME NEW content \in Content, content.is \notin {"absent", "empty"}
  PROVE  content.of \in Versions
BY DEF Content

\* Writing a file leaves the others alone.
LEMMA WritesOne ==
  ASSUME files \in [Files -> Content], NEW f \in Files, NEW content \in Content,
         Writes(f, content)
  PROVE  /\ files' \in [Files -> Content]
         /\ files'[f] = content
         /\ \A g \in Files \ {f} : files'[g] = files[g]
BY DEF Writes

-----------------------------------------------------------------------------
(* Types. *)

LEMMA InitTypes ==
  ASSUME OwnExtension
  PROVE  DriverInit => DriverTypeOK
<1> SUFFICES ASSUME DriverInit PROVE DriverTypeOK
  OBVIOUS
<1>1. files \in [Files -> Content] /\ files[InputExt] = Absent
  BY Contents, DistinctFiles DEF DriverInit
<1>2. version \in 0 .. MaxVersion /\ given \in 0 .. MaxVersion
  BY VersionAssumption DEF DriverInit
<1> QED BY <1>1, <1>2 DEF DriverInit, DriverTypeOK, SourceKept, Working, BeforeReading

LEMMA StepTypes ==
  ASSUME OwnExtension
  PROVE  DriverTypeOK /\ [DriverNext]_driverVars => DriverTypeOK'
<1> SUFFICES ASSUME DriverTypeOK, [DriverNext]_driverVars
             PROVE  DriverTypeOK'
  OBVIOUS
<1> USE DEF DriverTypeOK, SourceKept, Working, BeforeReading
<1>given. ASSUME stage \in Working PROVE given \in Versions
  BY <1>given, VersionAssumption DEF Versions
<1>1. CASE Edit
  <2>1. version + 1 \in Versions
    BY <1>1, VersionAssumption DEF Edit, Versions
  <2>2. Writes(InputExt, Is("source", version + 1))
    BY <1>1 DEF Edit, Writes
  <2>3. /\ files' \in [Files -> Content]
        /\ files'[InputExt] = Is("source", version')
    BY <1>1, <2>1, <2>2, Contents, DistinctFiles, WritesOne DEF Edit
  <2> QED BY <1>1, <2>1, <2>3 DEF Edit, Versions
<1>2. CASE Remove
  <2>1. Writes(InputExt, Absent)
    BY <1>2 DEF Remove, Writes
  <2>2. files' \in [Files -> Content] /\ files'[InputExt] = Absent
    BY <2>1, Contents, DistinctFiles, WritesOne
  <2> QED BY <1>2, <2>2 DEF Remove
<1>3. CASE Start
  BY <1>3 DEF Start
<1>4. CASE readFileIntoString
  <2>1. files[InputExt] = Is("source", version)
    BY <1>4 DEF readFileIntoString
  <2>4. versionRead = version
    BY <2>1 DEF versionRead, Is
  <2>2. version # 0
    <3>1. Is("source", version).of \in Versions
      BY <2>1, DistinctFiles, MadeFromVersion DEF Is
    <3> QED BY <3>1 DEF Is, Versions
  <2>3. given' = version /\ version' = version
    BY <1>4, <2>4 DEF readFileIntoString, Goes
  <2> QED BY <1>4, <2>2, <2>3 DEF readFileIntoString, Goes
<1>5. ASSUME NEW from, Exit(from), UNCHANGED files, UNCHANGED lost
      PROVE  DriverTypeOK'
  BY <1>5 DEF Exit, Goes
<1>6. ASSUME NEW f \in Outputs, NEW content \in Content, Writes(f, content)
      PROVE  files' \in [Files -> Content] /\ files'[InputExt] = files[InputExt]
  BY <1>6, DistinctFiles, WritesOne
<1>7. CASE OpenLlFile
  <2>1. files' \in [Files -> Content] /\ files'[InputExt] = files[InputExt]
    BY <1>7, <1>6, Contents DEF OpenLlFile, Outputs, truncated
  <2> QED BY <1>7, <2>1 DEF OpenLlFile, Goes
<1>8. CASE WriteDot
  <2>1. files' \in [Files -> Content] /\ files'[InputExt] = files[InputExt]
    BY <1>8, <1>6, <1>given, Contents DEF WriteDot, Goes, Outputs
  <2> QED BY <1>8, <2>1 DEF WriteDot, Goes
<1>9. CASE DrawPicture
  <2>1. picture \in Content
    BY Contents, DistinctFiles, MadeFromVersion DEF picture, Outputs
  <2>2. files' \in [Files -> Content] /\ files'[InputExt] = files[InputExt]
    BY <1>9, <1>6, <2>1 DEF DrawPicture, Outputs
  <2> QED BY <1>9, <2>2 DEF DrawPicture, Goes
<1>10. CASE PictureFails
  <2>1. files' \in [Files -> Content] /\ files'[InputExt] = files[InputExt]
    BY <1>10, <1>6, Contents DEF PictureFails, Outputs
  <2> QED BY <1>10, <2>1 DEF PictureFails, Exit, Goes
<1>11. CASE PrintModule
  <2>1. files' \in [Files -> Content] /\ files'[InputExt] = files[InputExt]
    BY <1>11, <1>6, <1>given, Contents DEF PrintModule, Goes, Outputs
  <2> QED BY <1>11, <2>1 DEF PrintModule, Goes
<1>12. CASE Clang
  <2>1. files[llFile].of \in Versions
    BY <1>12, DistinctFiles, MadeFromVersion DEF Clang, Acceptable, Outputs
  <2>2. files' \in [Files -> Content] /\ files'[InputExt] = files[InputExt]
    BY <1>12, <1>6, <2>1, Contents DEF Clang, Outputs
  <2> QED BY <1>12, <2>2 DEF Clang, Goes
<1>13. CASE ClangFails
  <2>1. files' \in [Files -> Content] /\ files'[InputExt] = files[InputExt]
    BY <1>13, <1>6, Contents DEF ClangFails, Outputs
  <2> QED BY <1>13, <2>1 DEF ClangFails, Exit, Goes
<1>14. CASE FileExists \/ FrontEnd \/ GenerateCode
  BY <1>14 DEF FileExists, FrontEnd, GenerateCode, Goes
<1>15. CASE Report
  BY <1>15 DEF Report, Goes
<1>16. CASE \/ FileDoesNotExist \/ CouldNotOpen \/ UnableToCreate
            \/ FrontEndExits \/ UnableToGenerate \/ Die
  BY <1>16, <1>5
  DEF FileDoesNotExist, CouldNotOpen, UnableToCreate, FrontEndExits,
      UnableToGenerate, Die
<1>17. CASE UNCHANGED driverVars
  BY <1>17 DEF driverVars
<1> QED
  BY <1>1, <1>2, <1>3, <1>4, <1>7, <1>8, <1>9, <1>10, <1>11, <1>12, <1>13,
     <1>14, <1>15, <1>16, <1>17
  DEF DriverNext, Main

\* The variables of the driver always have the values their declarations promise.
THEOREM DriverTypeCorrect ==
  ASSUME OwnExtension
  PROVE  DriverSpec => []DriverTypeOK
<1>1. DriverInit => DriverTypeOK
  BY InitTypes
<1>2. DriverTypeOK /\ [DriverNext]_driverVars => DriverTypeOK'
  BY StepTypes
<1> QED BY <1>1, <1>2, PTL DEF DriverSpec

-----------------------------------------------------------------------------
(* The source. *)

\* main() writes outputs only.
LEMMA MainKeepsSource ==
  ASSUME OwnExtension, DriverTypeOK, Start \/ Main
  PROVE  files'[InputExt] = files[InputExt]
<1>1. ASSUME NEW f \in Outputs, NEW content, Writes(f, content)
      PROVE  files'[InputExt] = files[InputExt]
  BY <1>1, DistinctFiles DEF Writes, DriverTypeOK
<1>2. CASE OpenLlFile \/ WriteDot \/ DrawPicture \/ PictureFails
  BY <1>1, <1>2
  DEF OpenLlFile, WriteDot, DrawPicture, PictureFails, Outputs
<1>3. CASE PrintModule \/ Clang \/ ClangFails
  BY <1>1, <1>3 DEF PrintModule, Clang, ClangFails, Outputs
<1>4. CASE \/ Start \/ FileExists \/ FileDoesNotExist \/ readFileIntoString
           \/ CouldNotOpen \/ UnableToCreate \/ FrontEnd \/ FrontEndExits
           \/ GenerateCode \/ UnableToGenerate \/ Report \/ Die
  BY <1>4
  DEF Start, FileExists, FileDoesNotExist, readFileIntoString, CouldNotOpen,
      UnableToCreate, FrontEnd, FrontEndExits, GenerateCode, UnableToGenerate,
      Report, Die
<1> QED BY <1>2, <1>3, <1>4 DEF Main

-----------------------------------------------------------------------------
(* The module and the picture. *)

\* From its truncation on until the module is printed, the .ll file is empty.
LlFileOfThisRun ==
  /\ stage \in {"front", "dot", "picture", "codegen", "print"} =>
       files[llFile] = EmptyFile
  /\ ClangSeesThisModule

LEMMA StepLlFile ==
  ASSUME OwnExtension
  PROVE  DriverTypeOK /\ LlFileOfThisRun /\ [DriverNext]_driverVars => LlFileOfThisRun'
<1> SUFFICES ASSUME DriverTypeOK, LlFileOfThisRun, [DriverNext]_driverVars
             PROVE  LlFileOfThisRun'
  OBVIOUS
<1> USE DEF LlFileOfThisRun, ClangSeesThisModule
<1>1. ASSUME NEW f \in Files, f # llFile, NEW content, Writes(f, content)
      PROVE  files'[llFile] = files[llFile]
  BY <1>1, DistinctFiles DEF Writes, DriverTypeOK
<1>2. ASSUME NEW content, Writes(llFile, content)
      PROVE  files'[llFile] = content
  BY <1>2, DistinctFiles DEF Writes, DriverTypeOK, Outputs
<1>3. CASE Edit \/ Remove
  <2>1. files'[llFile] = files[llFile]
    BY <1>1, <1>3, DistinctFiles DEF Edit, Remove, Writes, Outputs
  <2> QED BY <1>3, <2>1 DEF Edit, Remove
<1>4. CASE OpenLlFile
  <2>1. files'[llFile] = EmptyFile
    BY <1>2, <1>4 DEF OpenLlFile, truncated
  <2> QED BY <1>4, <2>1 DEF OpenLlFile, Goes
<1>5. CASE WriteDot \/ DrawPicture
  <2>1. files'[llFile] = files[llFile]
    BY <1>1, <1>5, DistinctFiles DEF WriteDot, DrawPicture, Outputs
  <2> QED BY <1>5, <2>1 DEF WriteDot, DrawPicture, Goes
<1>6. CASE PrintModule
  BY <1>2, <1>6 DEF PrintModule, Goes
<1>7. CASE FrontEnd \/ GenerateCode
  BY <1>7 DEF FrontEnd, GenerateCode, Goes
<1>8. ASSUME stage' \notin {"front", "dot", "picture", "codegen", "print", "clang"}
      PROVE  LlFileOfThisRun'
  BY <1>8
<1>9. CASE \/ Start \/ FileExists \/ FileDoesNotExist \/ readFileIntoString
           \/ CouldNotOpen \/ UnableToCreate \/ FrontEndExits \/ PictureFails
           \/ UnableToGenerate \/ Clang \/ ClangFails \/ Report \/ Die
  BY <1>8, <1>9
  DEF Start, FileExists, FileDoesNotExist, readFileIntoString, CouldNotOpen,
      UnableToCreate, FrontEndExits, PictureFails, UnableToGenerate, Clang,
      ClangFails, Report, Die, Exit, Goes
<1>10. CASE UNCHANGED driverVars
  BY <1>10 DEF driverVars
<1> QED
  BY <1>3, <1>4, <1>5, <1>6, <1>7, <1>9, <1>10 DEF DriverNext, Main

LEMMA LlFileInvariant ==
  ASSUME OwnExtension
  PROVE  DriverSpec => []LlFileOfThisRun
<1>1. DriverInit => LlFileOfThisRun
  BY DEF DriverInit, LlFileOfThisRun, ClangSeesThisModule
<1>2. DriverTypeOK /\ LlFileOfThisRun /\ [DriverNext]_driverVars => LlFileOfThisRun'
  BY StepLlFile
<1> QED BY <1>1, <1>2, DriverTypeCorrect, PTL DEF DriverSpec

\* clang is never given a module of an earlier run.
THEOREM ModuleOfThisRun ==
  ASSUME OwnExtension
  PROVE  DriverSpec => []ClangSeesThisModule
BY LlFileInvariant, PTL DEF LlFileOfThisRun

\* Once the picture is drawn, it is the one of the graph beside it.
PictureDrawn ==
  stage \in {"codegen", "print", "clang", "report"} \/ ended = "success" =>
    (files[dotFile].is = "graph" =>
       files[pngFile] = Is("picture", files[dotFile].of))

LEMMA StepPicture ==
  ASSUME OwnExtension
  PROVE  DriverTypeOK /\ PictureDrawn /\ [DriverNext]_driverVars => PictureDrawn'
<1> SUFFICES ASSUME DriverTypeOK, PictureDrawn, [DriverNext]_driverVars
             PROVE  PictureDrawn'
  OBVIOUS
<1> USE DEF PictureDrawn
<1>1. ASSUME NEW f \in Files, f # dotFile, f # pngFile, NEW content,
             Writes(f, content)
      PROVE  files'[dotFile] = files[dotFile] /\ files'[pngFile] = files[pngFile]
  BY <1>1, DistinctFiles DEF Writes, DriverTypeOK, Outputs
<1>2. stage \in Working => ended # "success"
  BY DEF DriverTypeOK
<1>3. CASE Edit \/ Remove
  <2>1. files'[dotFile] = files[dotFile] /\ files'[pngFile] = files[pngFile]
    BY <1>1, <1>3, DistinctFiles DEF Edit, Remove, Writes, Outputs
  <2> QED BY <1>3, <2>1 DEF Edit, Remove
<1>4. CASE DrawPicture
  <2>1. files'[pngFile] = picture /\ files'[dotFile] = files[dotFile]
    BY <1>4, DistinctFiles DEF DrawPicture, Writes, DriverTypeOK, Outputs
  <2> QED BY <1>4, <2>1 DEF picture
<1>5. CASE PrintModule \/ Clang
  <2>1. files'[dotFile] = files[dotFile] /\ files'[pngFile] = files[pngFile]
    BY <1>1, <1>5, DistinctFiles DEF PrintModule, Clang, Outputs
  <2> QED BY <1>2, <1>5, <2>1 DEF PrintModule, Clang, Goes, Working
<1>6. CASE Start \/ FileExists \/ GenerateCode \/ Report
  BY <1>6 DEF Start, FileExists, GenerateCode, Report, Goes
<1>7. ASSUME stage' \notin {"codegen", "print", "clang", "report"},
             ended' # "success"
      PROVE  PictureDrawn'
  BY <1>7
<1>8. CASE FrontEnd \/ OpenLlFile \/ WriteDot
  BY <1>2, <1>7, <1>8 DEF FrontEnd, OpenLlFile, WriteDot, Goes, Working
<1>9. CASE \/ FileDoesNotExist \/ readFileIntoString \/ CouldNotOpen
           \/ UnableToCreate \/ FrontEndExits \/ PictureFails
           \/ UnableToGenerate \/ ClangFails \/ Die
  BY <1>7, <1>9
  DEF FileDoesNotExist, readFileIntoString, CouldNotOpen, UnableToCreate,
      FrontEndExits, PictureFails, UnableToGenerate, ClangFails, Die, Exit, Goes
<1>10. CASE UNCHANGED driverVars
  BY <1>10 DEF driverVars
<1> QED
  BY <1>3, <1>4, <1>5, <1>6, <1>8, <1>9, <1>10 DEF DriverNext, Main

\* After a success the picture is that of the graph beside it.
THEOREM PictureOfGraph ==
  ASSUME OwnExtension
  PROVE  DriverSpec => []PictureMatchesGraph
<1>1. DriverInit => PictureDrawn
  BY DEF DriverInit, PictureDrawn
<1>2. PictureDrawn => PictureMatchesGraph
  BY DEF PictureDrawn, PictureMatchesGraph
<1>3. DriverTypeOK /\ PictureDrawn /\ [DriverNext]_driverVars => PictureDrawn'
  BY StepPicture
<1> QED BY <1>1, <1>2, <1>3, DriverTypeCorrect, PTL DEF DriverSpec

-----------------------------------------------------------------------------
(* The driver implements the specification Build. *)

\* When clang has succeeded the executable is that of the source that was read.
Built == stage = "report" => files[outputFile].of = given

\* What a step may do to the executable.
LEMMA ExecutableKept ==
  ASSUME OwnExtension, DriverTypeOK, NEW f \in Files, f # outputFile, NEW content,
         Writes(f, content)
  PROVE  files'[outputFile] = files[outputFile]
BY DistinctFiles DEF Writes, DriverTypeOK, Outputs

LEMMA ExecutableMade ==
  ASSUME OwnExtension, DriverTypeOK, LlFileOfThisRun, Clang
  PROVE  files'[outputFile].of = given /\ given' = given /\ ended = "running"
<1>1. files[llFile].of = given
  <2>1. files[llFile] \in {EmptyFile, Is("part of a module", given),
                          Is("module", given)}
    BY DEF LlFileOfThisRun, ClangSeesThisModule, Clang, Goes
  <2>2. EmptyFile.is = "empty"
    BY DEF EmptyFile, Is
  <2>3. files[llFile].is \in {"module", "part of a module"}
    BY DEF Clang, Acceptable
  <2>4. \A what : Is(what, given).of = given
    BY DEF Is
  <2> QED BY <2>1, <2>2, <2>3, <2>4
<1>2. files'[outputFile] = Is("executable", given)
  BY <1>1, DistinctFiles DEF Clang, Writes, DriverTypeOK, Outputs
<1> QED BY <1>2 DEF Clang, Goes, Is, DriverTypeOK, Working

LEMMA StepBuilt ==
  ASSUME OwnExtension
  PROVE  DriverTypeOK /\ LlFileOfThisRun /\ Built /\ [DriverNext]_driverVars => Built'
<1> SUFFICES ASSUME DriverTypeOK, LlFileOfThisRun, Built,
                    [DriverNext]_driverVars
             PROVE  Built'
  OBVIOUS
<1> USE DEF Built
<1>1. CASE Edit \/ Remove
  <2>1. files'[outputFile] = files[outputFile]
    BY <1>1, ExecutableKept, DistinctFiles DEF Edit, Remove, Writes, Outputs
  <2> QED BY <1>1, <2>1 DEF Edit, Remove
<1>2. CASE Clang
  BY <1>2, ExecutableMade
<1>3. CASE Start \/ (Main /\ ~Clang)
  BY <1>3
  DEF Main, Start, FileExists, FileDoesNotExist, readFileIntoString,
      CouldNotOpen, OpenLlFile, UnableToCreate, FrontEnd, FrontEndExits,
      WriteDot, DrawPicture, PictureFails, GenerateCode, UnableToGenerate,
      PrintModule, ClangFails, Report, Die, Exit, Goes
<1>4. CASE UNCHANGED driverVars
  BY <1>4 DEF driverVars
<1> QED BY <1>1, <1>2, <1>3, <1>4 DEF DriverNext

LEMMA BuiltInvariant ==
  ASSUME OwnExtension
  PROVE  DriverSpec => []Built
<1>1. DriverInit => Built
  BY DEF DriverInit, Built
<1>2. DriverTypeOK /\ LlFileOfThisRun /\ Built /\ [DriverNext]_driverVars => Built'
  BY StepBuilt
<1> QED BY <1>1, <1>2, DriverTypeCorrect, LlFileInvariant, PTL DEF DriverSpec

LEMMA InitRefines ==
  ASSUME OwnExtension
  PROVE  DriverInit => B!Init
BY DistinctFiles DEF DriverInit, B!Init, Absent, Is, Outputs

LEMMA StepRefines ==
  ASSUME OwnExtension
  PROVE  DriverTypeOK /\ LlFileOfThisRun /\ Built /\ [DriverNext]_driverVars
           => [B!Next]_(B!buildVars)
<1> SUFFICES ASSUME DriverTypeOK, LlFileOfThisRun, Built,
                    [DriverNext]_driverVars
             PROVE  B!Next \/ UNCHANGED B!buildVars
  OBVIOUS
<1> USE DEF B!Next, B!buildVars
<1>source. ASSUME Start \/ Main PROVE files'[InputExt].of = files[InputExt].of
  BY <1>source, MainKeepsSource
<1>running. stage \in Working <=> ended = "running"
  BY DEF DriverTypeOK
<1>1. CASE Edit
  <2>1. files'[InputExt].of \in Nat
    BY <1>1, DistinctFiles DEF Edit, DriverTypeOK, Is
  <2>2. files'[outputFile] = files[outputFile]
    BY <1>1, ExecutableKept, DistinctFiles DEF Edit, Writes, Outputs
  <2> QED BY <1>1, <2>1, <2>2 DEF Edit, B!Write
<1>2. CASE Remove
  <2>1. files'[InputExt].of \in Nat
    BY <1>2, DistinctFiles DEF Remove, DriverTypeOK, Absent, Is
  <2>2. files'[outputFile] = files[outputFile]
    BY <1>2, ExecutableKept, DistinctFiles DEF Remove, Writes, Outputs
  <2> QED BY <1>2, <2>1, <2>2 DEF Remove, B!Write
<1>3. CASE Start \/ FileExists \/ FrontEnd \/ GenerateCode
  BY <1>3 DEF Start, FileExists, FrontEnd, GenerateCode
<1>4. CASE readFileIntoString
  <2>1. files[InputExt].of # 0
    BY <1>4, DistinctFiles, MadeFromVersion
    DEF readFileIntoString, DriverTypeOK, SourceKept, Is, Versions
  <2>3. versionRead = files[InputExt].of
    BY <1>4 DEF readFileIntoString, versionRead, DriverTypeOK, SourceKept, Is
  <2>2. ended # "running"
    BY <1>4, <1>running DEF readFileIntoString, Goes, Working
  <2> QED BY <1>4, <2>1, <2>2, <2>3 DEF readFileIntoString, B!Take
<1>5. ASSUME NEW from, Exit(from), Start \/ Main,
             files'[outputFile].of \in {files[outputFile].of, 0},
             ended # "running" => UNCHANGED files
      PROVE  B!Next
  BY <1>5, <1>source DEF Exit, B!Refuse, B!Finish
<1>6. CASE \/ FileDoesNotExist \/ CouldNotOpen \/ UnableToCreate
           \/ FrontEndExits \/ UnableToGenerate \/ Die
  BY <1>5, <1>6
  DEF Main, FileDoesNotExist, CouldNotOpen, UnableToCreate, FrontEndExits,
      UnableToGenerate, Die
<1>7. CASE OpenLlFile \/ WriteDot \/ DrawPicture \/ PrintModule
  <2>1. files'[outputFile] = files[outputFile]
    BY <1>7, ExecutableKept, DistinctFiles
    DEF OpenLlFile, WriteDot, DrawPicture, PrintModule
  <2> QED BY <1>7, <1>source, <2>1
          DEF Main, OpenLlFile, WriteDot, DrawPicture, PrintModule
<1>8. CASE PictureFails
  <2>1. files'[outputFile] = files[outputFile]
    BY <1>8, ExecutableKept, DistinctFiles DEF PictureFails
  <2>2. ended = "running"
    BY <1>8, <1>running DEF PictureFails, Exit, Goes, Working
  <2> QED BY <1>8, <1>5, <2>1, <2>2 DEF PictureFails, Main
<1>9. CASE Clang
  BY <1>9, <1>source, ExecutableMade DEF Main, Clang, B!Produce
<1>10. CASE ClangFails
  <2>1. files'[outputFile].of \in {files[outputFile].of, 0}
    BY <1>10, DistinctFiles
    DEF ClangFails, Writes, DriverTypeOK, Absent, Is, Outputs
  <2>2. ended = "running"
    BY <1>10, <1>running DEF ClangFails, Exit, Goes, Working
  <2> QED BY <1>10, <1>5, <2>1, <2>2 DEF ClangFails, Main
<1>11. CASE Report
  <2>1. ended = "running" /\ files[outputFile].of = given
    BY <1>11, <1>running DEF Report, Goes, Working, Built
  <2> QED BY <1>11, <2>1 DEF Report, B!Finish
<1>12. CASE UNCHANGED driverVars
  BY <1>12 DEF driverVars
<1> QED
  BY <1>1, <1>2, <1>3, <1>4, <1>6, <1>7, <1>8, <1>9, <1>10, <1>11, <1>12
  DEF DriverNext, Main

\* However runs fail and the source changes under them, a run reports success
\* only with the executable of the source it has read.
THEOREM DriverBuilds ==
  ASSUME OwnExtension
  PROVE  DriverSpec => BuildsWhatWasRead
<1>1. DriverInit => B!Init
  BY InitRefines
<1>2. DriverTypeOK /\ LlFileOfThisRun /\ Built /\ [DriverNext]_driverVars
        => [B!Next]_(B!buildVars)
  BY StepRefines
<1> QED
  BY <1>1, <1>2, DriverTypeCorrect, LlFileInvariant, BuiltInvariant, PTL
  DEF DriverSpec, BuildsWhatWasRead, B!Spec
=============================================================================
