----------------------------- MODULE MCHeaderText -----------------------------
(* Headers of a few elements with a few characters of text, for TLC. *)
EXTENDS HeaderText

Plain(kind) == [kind |-> kind, form |-> "plain", encoding |-> "hex", bytes |-> 0]
Form(kind, form) == [Plain(kind) EXCEPT !.form = form]
Base64(element) == [element EXCEPT !.encoding = "base64"]

EmbeddedImage == Form("Image", "embedded")
TextProperty == Form("Property", "text")
InlineProperty == Base64(Form("Property", "inline"))

Together == {
  {EmbeddedImage, Plain("Data"), InlineProperty, Base64(Form("ICCProfile", "inline"))},
  {EmbeddedImage, Plain("Data"), Form("Thumbnail", "embedded"), TextProperty,
   Form("Property", "value"), Plain("Unknown"), Plain("Ancillary")},
  {Plain("Table"), [Plain("Row") EXCEPT !.bytes = 1], Form("Cell", "text"),
   Form("Cell", "value"), TextProperty},
  {Form("Image", "attached"), TextProperty, InlineProperty, Plain("Unknown"),
   Form("ICCProfile", "attached"), [Plain("Extension") EXCEPT !.bytes = 1]},
  {Plain("Table"), Plain("Structure"), Plain("Field"), Plain("Unknown")},
  {TextProperty, Form("Property", "value"), InlineProperty, Plain("xisf"),
   Plain("Table")} }

Characters == {"A", "a", "0", "=", " "}
Limits == [k \in BlockOwners |-> IF k = "ICCProfile" THEN 2 ELSE 3]
=============================================================================
