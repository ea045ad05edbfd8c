CONSTANT Texts <- SmallTexts
CONSTANT AfterSpaces <- ParserSkips
CONSTANT AfterStrays <- ParserPasses
CONSTANT EntryFrom <- ParserFinds
CONSTANT BodyFrom <- ParserEnters
CONSTANT ValueFrom <- ParserExtracts
SPECIFICATION Spec
INVARIANT TypeOK ArraysFilled PreOrder
PROPERTY BodiesReadAsAccepted
CHECK_DEADLOCK FALSE
