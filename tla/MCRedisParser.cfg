SPECIFICATION ParserSpec
CONSTANTS
  Letters = {"a"}
  Wides = {"wide"}
  Texts <- MCTexts
  Streams <- MCStreams
  BufferSize = 5
INVARIANTS RepliesExact OnlyRubbishFails
