\* Patterns up to 5 characters against names up to 4; extension lists up to 4
\* characters against names up to 4; plaintexts and received streams up to 6 bytes;
\* HTTP streams up to 15 bytes in every segmentation; store lists up to 3 entries;
\* byte strings up to 4 bytes with bpl up to 5; cert runs of up to 3 options.
\* Shares: a 3-directory tree r/a/c with 3 files, runs of up to 3 of 15 calls.
CONSTANT Upper <- MCUpper
CONSTANTS DigestSize = 2
          IvSize = 1
          ShNone = ShNone
SPECIFICATION Spec
INVARIANT CmpPatIsGlob
INVARIANT CmpExtIsFilter
INVARIANT StreamRoundTrip
INVARIANT StreamAgreesWithBuffer
INVARIANT HeaderRereadKeepsStream
INVARIANT HttpMessageRoundTrip
INVARIANT FindCursorEnumerates
INVARIANT ReloadKeepsEntries
INVARIANT ExportImportIdentity
INVARIANT EnvelopeSealsToRecipient
INVARIANT Base64MatchesReference
INVARIANT Base64RoundTrip
INVARIANT AuthValueRoundTrip
INVARIANT CertLocalKept
INVARIANT CertOneIdentityPerName
INVARIANT CertKeyStaysHome
INVARIANT CertStoreSaved
INVARIANT SharesPublished
