SPECIFICATION TextSpec
CONSTANTS
  Phone = {"+34600111222"}
  LocalPhone = {"06.12.34.56.78"}
  Snowflake = {"123456789012345678", "876543210987654321"}
  Link = {"https://pipa.test/"}
  BadLink = {"https://pipa.test:99999/"}
  Who <- MCWho
  What <- MCWhat
  Known <- MCKnown
  Queues <- MCQueues
  Editable = {"open_app", "web_search", "whatsapp_contact", "whatsapp_compose"}
  Edits <- MCEdits
  HandEdits <- MCHandEdits
INVARIANT MessagesArePrepared
