------------------------- MODULE NewThreatIntelSource --------------------------
(***************************************************************************)
(* The form that adds a threat intelligence source (AddThreatIntelSource). *)
(* Its fields, the errors that stand beside them and what was touched are  *)
(* states of their own, each written as a whole from the copy of the last  *)
(* render; a file is read after it was chosen, and a failure writes the    *)
(* errors that stood when it was.  The button looks at errors and touches, *)
(* the request is made from the fields.  A field is valid or not; the rest *)
(* of its contents is left out, as is the description.  Of the schema it   *)
(* also matters whether its entries are the ones that are sent, and of a   *)
(* file whether there are indicators in it.                                *)
(***************************************************************************)
EXTENDS FiniteSets, Naturals

CONSTANTS
    S3Fields,       \* role_arn, bucket_name, object_key and region
    MaxReads,       \* files being read
    MaxChanges      \* how often the user changes something

VARIABLES
    sourceType,     \* "S3_CUSTOM" or "IOC_UPLOAD"
    valid,          \* which fields are valid
    customSchema,   \* the schema, one text for both types
    fileUploadSource, customSchemaFileUploadSource,     \* what was read of a file
    useCustomSchemaByType,
    enabled,        \* source.enabled: downloads are scheduled
    inputErrors, inputTouched,
    submitInProgress,
    reads,          \* the files being read, with the errors that stood when they were chosen
    schemaType,     \* history: for which type the schema was edited last
    fileOwn,        \* history: whether the last file chosen is one with its own schema
    unread,         \* history: a file with its own schema failed to be read, and none was since
    clobbered,      \* history: a failed read brought back the errors of before
    relaxed,        \* history: errors of file and schema went with a tick
    changes

newSourceVars == <<sourceType, valid, customSchema, fileUploadSource,
                   customSchemaFileUploadSource, useCustomSchemaByType, enabled, inputErrors,
                   inputTouched, submitInProgress, reads, schemaType, fileOwn, unread, clobbered,
                   relaxed, changes>>

Types == {"S3_CUSTOM", "IOC_UPLOAD"}
Fields == {"name", "schedule"} \cup S3Fields

\* A schema that parses is complete, or lacks entries that parseCustomSchema drops: those that
\* were not filled in, or have no json_path.
Schemas == {"complete", "dropped", "bad"}

\* A file has indicators that all parse, none at all, or some that do not parse.
Contents == {"none", "good", "empty", "bad"}

\* Errors are kept by place: those of the S3 connection and of the upload are objects in it.
ErrorKeys == {"name", "schedule"} \cup S3Fields \cup {"s3Schema", "file", "fileSchema"}
Touches == Fields \cup {"customSchema", "iocFileUpload", "customSchemaIocFileUpload"}

Init ==
    /\ sourceType = "S3_CUSTOM"
    /\ valid = {"schedule"} /\ customSchema = "dropped"
    /\ fileUploadSource = "none" /\ customSchemaFileUploadSource = "none"
    /\ useCustomSchemaByType = {}
    /\ enabled = TRUE
    /\ inputErrors = {} /\ inputTouched = {}
    /\ submitInProgress = FALSE /\ reads = {}
    /\ schemaType = "none" /\ fileOwn = FALSE /\ unread = FALSE
    /\ clobbered = FALSE /\ relaxed = FALSE
    /\ changes = 0

-----------------------------------------------------------------------------
(* The fields *)

Acts == changes < MaxChanges /\ changes' = changes + 1
Set(set, member, in) == IF in THEN set \cup {member} ELSE set \ {member}

UploadKept ==
    UNCHANGED <<fileUploadSource, customSchemaFileUploadSource, reads, fileOwn, unread,
                clobbered>>
SubmitKept == UNCHANGED submitInProgress

\* onNameChange, onS3DataChange and onIntervalChange: value, error and touch of a field.
OnFieldChange(f, ok) ==
    /\ Acts
    /\ f \in S3Fields => sourceType = "S3_CUSTOM"
    /\ f = "schedule" => sourceType = "S3_CUSTOM" /\ enabled
    /\ valid' = Set(valid, f, ok)
    /\ inputErrors' = Set(inputErrors, f, ~ok)
    /\ inputTouched' = inputTouched \cup {f}
    /\ UploadKept /\ SubmitKept
    /\ UNCHANGED <<sourceType, customSchema, useCustomSchemaByType, enabled, schemaType, relaxed>>

\* onCustomSchemaChange leaves the error with the type that is selected; validateCustomSchema
\* only parses.
OnCustomSchemaChange(schema) ==
    /\ Acts /\ sourceType \in useCustomSchemaByType
    /\ customSchema' = schema
    /\ inputErrors' =
            Set(inputErrors, IF sourceType = "IOC_UPLOAD" THEN "fileSchema" ELSE "s3Schema",
                schema = "bad")
    /\ inputTouched' = inputTouched \cup {"customSchema"}
    /\ schemaType' = sourceType
    /\ UploadKept /\ SubmitKept
    /\ UNCHANGED <<sourceType, valid, useCustomSchemaByType, enabled, relaxed>>

OnRefreshSwitchChange ==
    /\ Acts /\ sourceType = "S3_CUSTOM"
    /\ enabled' = ~enabled
    /\ UploadKept /\ SubmitKept
    /\ UNCHANGED <<sourceType, valid, customSchema, useCustomSchemaByType, inputErrors,
                   inputTouched, schemaType, relaxed>>

SetSourceType(type) ==
    /\ Acts /\ sourceType # type
    /\ sourceType' = type
    /\ UploadKept /\ SubmitKept
    /\ UNCHANGED <<valid, customSchema, useCustomSchemaByType, enabled, inputErrors, inputTouched,
                   schemaType, relaxed>>

\* The tick of an own schema: for uploads it also empties the errors of the file and the schema.
UseCustomSchema ==
    /\ Acts
    /\ useCustomSchemaByType' =
            Set(useCustomSchemaByType, sourceType, sourceType \notin useCustomSchemaByType)
    /\ IF sourceType = "IOC_UPLOAD"
       THEN /\ inputErrors' = inputErrors \ {"file", "fileSchema"}
            /\ relaxed' = (relaxed \/ {"file", "fileSchema"} \cap inputErrors # {})
       ELSE UNCHANGED <<inputErrors, relaxed>>
    /\ UploadKept /\ SubmitKept
    /\ UNCHANGED <<sourceType, valid, customSchema, enabled, inputTouched, schemaType>>

-----------------------------------------------------------------------------
(* The file *)

Choosing(own) ==
    /\ Acts /\ sourceType = "IOC_UPLOAD" /\ ("IOC_UPLOAD" \in useCustomSchemaByType) = own
    /\ UNCHANGED <<sourceType, valid, customSchema, fileUploadSource,
                   customSchemaFileUploadSource, useCustomSchemaByType, enabled, schemaType,
                   unread, clobbered, relaxed>>
    /\ SubmitKept

\* onIocUploadFileChange, onCustomSchemaIoCUploadFileChange: a file is read from now on.
OnFileChange(own, content) ==
    /\ Choosing(own) /\ Cardinality(reads) < MaxReads
    /\ inputErrors' = inputErrors \ {"file"}
    /\ inputTouched' =
            inputTouched \cup {IF own THEN "customSchemaIocFileUpload" ELSE "iocFileUpload"}
    /\ fileOwn' = own
    /\ reads' = reads \cup {[own |-> own, content |-> content, errors |-> inputErrors]}

\* The file is taken away, or it is too large, for which a file with its own schema is not touched.
OnFileRefused(own, touches) ==
    /\ Choosing(own)
    /\ ~own => touches
    /\ inputErrors' = inputErrors \cup {"file"}
    /\ inputTouched' =
            IF touches
            THEN inputTouched \cup {IF own THEN "customSchemaIocFileUpload" ELSE "iocFileUpload"}
            ELSE inputTouched
    /\ UNCHANGED <<reads, fileOwn>>

ReadKept ==
    /\ SubmitKept
    /\ UNCHANGED <<sourceType, valid, customSchema, useCustomSchemaByType, enabled, inputTouched,
                   schemaType, fileOwn, relaxed, changes>>

\* A file with its own schema is taken as it is, and nothing is said when reading it fails.
OwnFileRead(r) ==
    /\ r.own /\ reads' = reads \ {r}
    /\ customSchemaFileUploadSource' = r.content /\ unread' = FALSE
    /\ UNCHANGED <<fileUploadSource, inputErrors, clobbered>> /\ ReadKept

OwnFileUnread(r) ==
    /\ r.own /\ reads' = reads \ {r}
    /\ unread' = TRUE
    /\ UNCHANGED <<fileUploadSource, customSchemaFileUploadSource, inputErrors, clobbered>>
    /\ ReadKept

\* Of a file without indicators, none is an error.
IocsRead(r) ==
    /\ ~r.own /\ r.content # "bad" /\ reads' = reads \ {r}
    /\ fileUploadSource' = r.content
    /\ UNCHANGED <<customSchemaFileUploadSource, inputErrors, unread, clobbered>> /\ ReadKept

\* An error of the file is written beside those that stood when it was chosen.
ReadError(r) ==
    /\ ~r.own /\ reads' = reads \ {r}
    /\ inputErrors' = r.errors \cup {"file"}
    /\ clobbered' = (clobbered \/ r.errors \ {"file"} # inputErrors \ {"file"})
    /\ UNCHANGED <<customSchemaFileUploadSource, unread>> /\ ReadKept

\* What fails to parse is an error; the other indicators are taken.
IocsInvalid(r) ==
    /\ r.content = "bad" /\ ReadError(r)
    /\ fileUploadSource' = "bad"

\* reader.onerror
IocsUnread(r) == ReadError(r) /\ UNCHANGED fileUploadSource

-----------------------------------------------------------------------------
(* Submitting *)

Own == sourceType \in useCustomSchemaByType

ReqFieldsTouched ==
    /\ "name" \in inputTouched
    /\ \/ /\ sourceType = "IOC_UPLOAD"
          /\ IF Own THEN {"customSchemaIocFileUpload", "customSchema"} \subseteq inputTouched
                    ELSE "iocFileUpload" \in inputTouched
       \/ /\ sourceType = "S3_CUSTOM"
          /\ S3Fields \subseteq inputTouched
          /\ Own => "customSchema" \in inputTouched

\* (mutant: an error in an object of errors is no error)
ErrorsThatCountOnTop == {"name"} \cup (IF enabled THEN {"schedule"} ELSE {})

\* The errors that are not about what is selected do not count.
ErrorsThatCount ==
    {"name"} \cup (IF enabled THEN {"schedule"} ELSE {})
    \cup (IF sourceType = "S3_CUSTOM"
          THEN S3Fields \cup (IF Own THEN {"s3Schema"} ELSE {})
          ELSE {"file"} \cup (IF Own THEN {"fileSchema"} ELSE {}))

ShouldEnableSubmit == ReqFieldsTouched /\ inputErrors \cap ErrorsThatCount = {}

Uploaded == IF Own THEN customSchemaFileUploadSource ELSE fileUploadSource

\* What a submission sends that the cluster can use.  parseCustomSchema: a schema is sent
\* without the entries that are not filled in, one that does not parse is sent empty.
Payload ==
    (valid \cap {"name"})
    \cup (IF Own /\ customSchema = "complete" THEN {"customSchema"} ELSE {})
    \cup (IF sourceType = "S3_CUSTOM" THEN valid \cap (S3Fields \cup {"schedule"})
          ELSE IF Uploaded = "good" THEN {"file"} ELSE {})

\* onSubmit, and the answer: a source that is refused brings the button back, one that is stored
\* leaves the page.
OnSubmit ==
    /\ ShouldEnableSubmit /\ ~submitInProgress
    /\ submitInProgress' = TRUE
    /\ UploadKept
    /\ UNCHANGED <<sourceType, valid, customSchema, useCustomSchemaByType, enabled, inputErrors,
                   inputTouched, schemaType, relaxed, changes>>

Refused ==
    /\ submitInProgress
    /\ submitInProgress' = FALSE
    /\ UploadKept
    /\ UNCHANGED <<sourceType, valid, customSchema, useCustomSchemaByType, enabled, inputErrors,
                   inputTouched, schemaType, relaxed, changes>>

Next ==
    \/ \E f \in {"name", "schedule"} \cup S3Fields, ok \in BOOLEAN : OnFieldChange(f, ok)
    \/ \E schema \in Schemas : OnCustomSchemaChange(schema)
    \/ OnRefreshSwitchChange
    \/ \E type \in Types : SetSourceType(type)
    \/ UseCustomSchema
    \/ \E content \in {"good", "empty"} : OnFileChange(TRUE, content)
    \/ \E content \in {"good", "empty", "bad"} : OnFileChange(FALSE, content)
    \/ \E own, touches \in BOOLEAN : OnFileRefused(own, touches)
    \/ \E r \in reads :
        OwnFileRead(r) \/ OwnFileUnread(r) \/ IocsRead(r) \/ IocsInvalid(r) \/ IocsUnread(r)
    \/ OnSubmit \/ Refused

-----------------------------------------------------------------------------
(* Properties *)

TypeOK ==
    /\ sourceType \in Types /\ useCustomSchemaByType \subseteq Types
    /\ valid \subseteq Fields /\ customSchema \in Schemas
    /\ inputErrors \subseteq ErrorKeys /\ inputTouched \subseteq Touches
    /\ {fileUploadSource, customSchemaFileUploadSource} \subseteq Contents
    /\ {enabled, submitInProgress, fileOwn, unread, clobbered, relaxed} \subseteq BOOLEAN
    /\ reads \subseteq [own : BOOLEAN, content : Contents, errors : SUBSET ErrorKeys]
    /\ schemaType \in Types \cup {"none"} /\ changes \in 0..MaxChanges

\* What a source of the selected type has to have.
Required ==
    {"name"} \cup (IF Own THEN {"customSchema"} ELSE {})
    \cup (IF sourceType = "IOC_UPLOAD" THEN {"file"}
          ELSE S3Fields \cup (IF enabled THEN {"schedule"} ELSE {}))

\* The known ways around the checks: errors that a failed read brought back; a file that is still
\* read; a file of the other kind, which takes the error of this one away; a schema that was
\* edited for the other type; errors that went with the tick; a file with its own schema that
\* failed to be read; and what is checked in part only, a file without indicators and a schema
\* of which entries are dropped.
Unchecked ==
    (IF clobbered THEN Fields \cup {"customSchema"} ELSE {})
    \cup (IF reads # {} \/ fileOwn # Own \/ relaxed \/ Uploaded = "empty" \/ (Own /\ unread)
          THEN {"file"} ELSE {})
    \cup (IF schemaType # sourceType \/ relaxed \/ customSchema = "dropped"
          THEN {"customSchema"} ELSE {})

\* The button is there only for a source that has everything, whatever was typed, ticked and
\* chosen before; but for the known ways around the checks.
SubmitsComplete == ShouldEnableSubmit => Required \ Unchecked \subseteq Payload

=============================================================================
