----------------------------- MODULE ImportFlow -----------------------------
(***************************************************************************)
(* The import of price histories through the bot                           *)
(* (service/telegram/bot_service.go): /import names a symbol, a document   *)
(* is stored under /tmp and a keyboard asks for its provider, a button     *)
(* runs the importer.  The message loop handles one update at a time, but  *)
(* all chats share one importState, files and keyboards outlive it, and    *)
(* users may send commands, documents and presses in any order.            *)
(***************************************************************************)
EXTENDS Integers, Sequences, FiniteSets

CONSTANTS
  Symbols,          \* symbols to import
  Uploads,          \* documents that are sent
  MaxCommands,      \* bound: /import commands
  MaxImportFaults   \* bound: failed downloads and imports

ASSUME UploadsFinite == IsFiniteSet(Uploads)
ASSUME ImportBounds == {MaxCommands, MaxImportFaults} \subseteq Nat

VARIABLES
  importState,   \* WaitingFile and Symbol
  paths,         \* the temp file each keyboard names: symbol and second of its upload
  onDisk,        \* the temp files, and the document each holds
  second,        \* time in seconds
  imports,       \* history: what was imported, as <<document, symbol>>
  commands,      \* history: the symbols of the /import commands so far
  askedFor,      \* history: how many of them came before each document
  importFaults

importHistory == <<imports, commands, askedFor>>
importVars == <<importState, paths, onDisk, second, importHistory, importFaults>>

NoSymbol == "none"

(* /import without a symbol is answered by its usage.                      *)
ASSUME SymbolsNamed == NoSymbol \notin Symbols

NoPath == <<NoSymbol, 0>>
NoImport == [waiting |-> FALSE, symbol |-> NoSymbol]

ImportInit ==
  /\ importState = NoImport
  /\ paths = [u \in Uploads |-> NoPath]
  /\ onDisk = <<>>
  /\ second = 0
  /\ imports = {} /\ commands = <<>> /\ askedFor = [u \in Uploads |-> 0]
  /\ importFaults = 0

Sent == {u \in Uploads : paths[u] # NoPath}
ImportFault == importFaults < MaxImportFaults /\ importFaults' = importFaults + 1

ResetImportState == NoImport

(* Seeded fault: a second /import does not replace the first one.          *)
BeginImport_Once(symbol) ==
  IF importState.waiting THEN importState ELSE [waiting |-> TRUE, symbol |-> symbol]

BeginImport(symbol) == [waiting |-> TRUE, symbol |-> symbol]

HandleImportCommand(symbol) ==
  /\ Len(commands) < MaxCommands
  /\ importState' = BeginImport(symbol)
  /\ commands' = Append(commands, symbol)
  /\ UNCHANGED <<paths, onDisk, second, imports, askedFor, importFaults>>

(* The document is stored under its symbol and the second; WaitingFile     *)
(* stays set.                                                              *)
HandleFileUpload(u) ==
  /\ importState.waiting /\ u \notin Sent
  /\ LET path == <<importState.symbol, second>>
     IN  /\ paths' = [paths EXCEPT ![u] = path]
         /\ onDisk' = [p \in DOMAIN onDisk \cup {path} |->
                         IF p = path THEN u ELSE onDisk[p]]
  /\ askedFor' = [askedFor EXCEPT ![u] = Len(commands)]
  /\ UNCHANGED <<importState, second, imports, commands, importFaults>>

(* The document cannot be fetched or stored.                               *)
HandleFileUploadFails ==
  /\ importState.waiting
  /\ ImportFault
  /\ importState' = ResetImportState
  /\ UNCHANGED <<paths, onDisk, second, importHistory>>

RemoveFile(path) == onDisk' = [p \in DOMAIN onDisk \ {path} |-> onDisk[p]]

(* A press on the button of document u.  Without a symbol the session has  *)
(* expired; "Other" is not supported; "Simplize" runs the importer for the *)
(* symbol of now, and the file is removed whether it succeeds or not.      *)
HandleCallbackOther(u) ==
  /\ u \in Sent /\ importState.symbol # NoSymbol
  /\ RemoveFile(paths[u])
  /\ importState' = ResetImportState
  /\ UNCHANGED <<paths, second, importHistory, importFaults>>

HandleSimplizeImport(u) ==
  /\ u \in Sent /\ importState.symbol # NoSymbol
  /\ imports' = IF paths[u] \in DOMAIN onDisk
                THEN imports \cup {<<onDisk[paths[u]], importState.symbol>>}
                ELSE imports
  /\ RemoveFile(paths[u])
  /\ importState' = ResetImportState
  /\ UNCHANGED <<paths, second, commands, askedFor, importFaults>>

HandleSimplizeImportFails(u) ==
  /\ u \in Sent /\ importState.symbol # NoSymbol
  /\ ImportFault
  /\ RemoveFile(paths[u])
  /\ importState' = ResetImportState
  /\ UNCHANGED <<paths, second, importHistory>>

NextSecond ==
  /\ second < Cardinality(Uploads)
  /\ second' = second + 1
  /\ UNCHANGED <<importState, paths, onDisk, importHistory, importFaults>>

ImportNext ==
  \/ \E symbol \in Symbols : HandleImportCommand(symbol)
  \/ \E u \in Uploads : \/ HandleFileUpload(u) \/ HandleCallbackOther(u)
                        \/ HandleSimplizeImport(u) \/ HandleSimplizeImportFails(u)
  \/ HandleFileUploadFails
  \/ NextSecond

ImportSpec == ImportInit /\ [][ImportNext]_importVars

-----------------------------------------------------------------------------
(* Properties.                                                             *)

ImportTypeOK ==
  /\ importState.waiting \in BOOLEAN
  /\ importState.symbol \in Symbols \cup {NoSymbol}
  /\ paths \in [Uploads -> (Symbols \cup {NoSymbol}) \X Nat]
  /\ \A p \in DOMAIN onDisk : onDisk[p] \in Sent

(* A document is imported for the symbol of the last /import before it, or *)
(* of a later one: importState belongs to no document, so a newer /import  *)
(* redirects the keyboards of the documents before it, and nothing else    *)
(* does.                                                                   *)
ImportedAsAsked ==
  \A im \in imports :
    \E i \in askedFor[im[1]]..Len(commands) : commands[i] = im[2]
=============================================================================
