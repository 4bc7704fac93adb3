------------------------------ MODULE RawUpload ------------------------------
(***************************************************************************)
(* parse_raw_upload: the files of an upload are decoded, decompressed and  *)
(* read one after the other.  A file is its name and what becomes of its   *)
(* data; its events are those of JUnit.  The history documents keeps what  *)
(* each document said.                                                     *)
(***************************************************************************)
EXTENDS JUnitDocument

CONSTANTS
  Filenames,
  MaxUpload      \* bound on the files of an upload

ASSUME UploadAssumption == MaxUpload \in Nat

VARIABLES
  call,             \* "none", "files", "parsing", "ok" or "error"
  test_results_files,
  results,
  readable_files,
  documents

upload == <<test_results_files, results, readable_files, documents>>
uvars == <<dvars, call, upload>>

\* What decoding base64 and decompressing make of the data of a file.
Data == {"xml", "invalid"}

Uploads == UNION {[1 .. n -> [filename : Filenames, data : Data]] : n \in 0 .. MaxUpload}

ParserIdle == UNCHANGED dvars

File == test_results_files[Len(results) + 1]

InitU ==
  /\ InitD
  /\ call = "none"
  /\ test_results_files = <<>>
  /\ results = <<>>
  /\ readable_files = <<>>
  /\ documents = <<>>

\* An upload that is not the expected JSON is refused before this.
ParseRawUpload(files) ==
  /\ call = "none"
  /\ call' = "files"
  /\ test_results_files' = files
  /\ UNCHANGED <<results, readable_files, documents>>
  /\ ParserIdle

\* An error leaves parse_raw_upload with everything it has collected.
Error ==
  /\ call' = "error"
  /\ results' = <<>>
  /\ readable_files' = <<>>
  /\ documents' = <<>>
  /\ UNCHANGED test_results_files

\* Mutant: returns what it has got so far.
WrongDataInvalid ==
  /\ call = "files"
  /\ Len(results) < Len(test_results_files)
  /\ File.data = "invalid"
  /\ call' = "ok"
  /\ UNCHANGED upload
  /\ ParserIdle

DataInvalid ==
  /\ call = "files"
  /\ Len(results) < Len(test_results_files)
  /\ File.data = "invalid"
  /\ Error
  /\ ParserIdle

ReadFile ==
  /\ call = "files"
  /\ Len(results) < Len(test_results_files)
  /\ File.data = "xml"
  /\ call' = "parsing"
  /\ UseReaderD
  /\ UNCHANGED upload

ReadEvent ==
  /\ call = "parsing"
  /\ EventD
  /\ UNCHANGED <<call, upload>>

FileFailed ==
  /\ call = "parsing"
  /\ status = "failed"
  /\ Error
  /\ ParserIdle

\* The local variables of use_reader are gone once its results are taken.
FileParsed ==
  /\ call = "parsing"
  /\ status = "done"
  /\ call' = "files"
  /\ results' = Append(results, [framework |-> framework, testruns |-> testruns,
                                 warnings |-> warnings])
  /\ readable_files' = Append(readable_files, File.filename)
  /\ documents' = Append(documents, [runs |-> expected, hinted |-> hinted])
  /\ UNCHANGED <<status, test_results_files>>
  /\ NoDocument
  /\ NoTree

Return ==
  /\ call = "files"
  /\ Len(results) = Len(test_results_files)
  /\ call' = "ok"
  /\ UNCHANGED upload
  /\ ParserIdle

\* The caller has the result, and may call again.
Again ==
  /\ call \in {"ok", "error"}
  /\ call' = "none"
  /\ test_results_files' = <<>>
  /\ results' = <<>>
  /\ readable_files' = <<>>
  /\ documents' = <<>>
  /\ ParserIdle

\* What a call that is running does next.
Running == DataInvalid \/ ReadFile \/ ReadEvent \/ FileFailed \/ FileParsed \/ Return

NextU == (\E files \in Uploads : ParseRawUpload(files)) \/ Running \/ Again

SpecU == InitU /\ [][NextU]_uvars

(***************************************************************************)
(* A call that has begun goes on, since nothing in it waits.               *)
(***************************************************************************)
FairSpecU == SpecU /\ WF_uvars(Running)

-----------------------------------------------------------------------------
(***************************************************************************)
(* Each result is about its own file: the runs are those of the document   *)
(* at its place in the upload, and its framework is one that something in  *)
(* that document belongs to, not one of a file that was read before.       *)
(***************************************************************************)
FilesApart ==
  /\ Len(documents) = Len(results)
  /\ \A i \in DOMAIN results :
       /\ [j \in DOMAIN results[i].testruns |-> Without(results[i].testruns[j])]
            = documents[i].runs
       /\ results[i].framework \in documents[i].hinted \cup {None}

(***************************************************************************)
(* All or nothing: a call succeeds only with a result and a readable file  *)
(* for every file of the upload, in the order of the upload; one file that *)
(* cannot be decoded or parsed makes it fail, whatever came before it.     *)
(***************************************************************************)
AllOrNothing ==
  call = "ok" =>
    /\ \A i \in DOMAIN test_results_files : test_results_files[i].data = "xml"
    /\ readable_files = [i \in DOMAIN test_results_files |-> test_results_files[i].filename]
    /\ Len(results) = Len(readable_files)

(***************************************************************************)
(* Every call returns: the loop over events ends with the document.        *)
(***************************************************************************)
CallReturns == call = "files" ~> call \in {"ok", "error"}
=============================================================================
