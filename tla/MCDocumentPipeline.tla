------------------------- MODULE MCDocumentPipeline -------------------------
(***************************************************************************)
(* Small instances of DocumentPipeline for TLC.  Files have three pages,   *)
(* which is enough for a page to be left out of the routed subset and for  *)
(* the two Textract routes to meet in one document.                        *)
(***************************************************************************)
EXTENDS DocumentPipeline

File(kind, first, second, third) ==
  [kind |-> kind, triage |-> <<first, second, third>>]

TablesFile == File("pdf", "SKIP", "TEXTRACT_TABLES", "NATIVE_TEXT")
MixedFile == File("pdf", "SKIP", "TEXTRACT_TEXT", "TEXTRACT_TABLES")
TextFile == File("pdf", "TEXTRACT_TEXT", "NATIVE_TEXT", "SKIP")
NativeFile == File("pdf", "NATIVE_TEXT", "SKIP", "SKIP")
ExpensiveFile == File("pdf", "TEXTRACT_TABLES", "TEXTRACT_TABLES", "SKIP")
LongFile == File("pdf", "TEXTRACT_TEXT", "TEXTRACT_TEXT", "TEXTRACT_TEXT")
EncryptedFile == File("encrypted", "SKIP", "TEXTRACT_TABLES", "SKIP")
CorruptFile == File("corrupt", "SKIP", "TEXTRACT_TABLES", "SKIP")
RejectedFile == File("rejected", "SKIP", "TEXTRACT_TABLES", "SKIP")

AllFiles == {TablesFile, MixedFile, TextFile, NativeFile, ExpensiveFile, LongFile,
             EncryptedFile, CorruptFile, RejectedFile}
SettlingFiles == {MixedFile, TextFile, NativeFile}
MixedFiles == {MixedFile}
TablesFiles == {TablesFile}
NativeFiles == {NativeFile}

Live == {[fake_ocr |-> FALSE, model_pinned |-> TRUE]}
LiveUnpinned == {[fake_ocr |-> FALSE, model_pinned |-> FALSE]}
AnyDeployment == DeploymentSettings

SubmitFaults == {"submit"}
WorkerFaults == {"crash", "storage", "submit", "textract", "transient", "permanent"}
SkipTables == {<<3, "SKIP">>}
CrashFaults == {"crash"}
NoFaults == {}
AllFaults == FaultKinds
=============================================================================
